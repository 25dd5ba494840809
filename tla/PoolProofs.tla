------------------------------ MODULE PoolProofs ------------------------------
(***************************************************************************)
(* Proofs about what the memory pool keeps, loses and offers to the miner, *)
(* and what the wallet makes of the pool and the chain (modules TxMemPool, *)
(* BlockTemplate and WalletTx), for every set of transactions and blocks   *)
(* and every height:                                                       *)
(*                                                                         *)
(*   NoneIsConfirmedAlways    no transaction of the pool has an unspent    *)
(*                            output in the chain;                         *)
(*   OnlyConflictsAreRemovedAlways                                         *)
(*                            connecting any block takes from the pool     *)
(*                            what it confirms and what can never be mined *)
(*                            after it, and nothing else;                  *)
(*   FlushedBlocksAreResurrectedAlways                                     *)
(*                            disconnecting a block that was flushed gives *)
(*                            back to the pool all that can be mined again *)
(*                            and keeps what was there;                    *)
(*   TemplatesConnectAlways   the queue of CreateNewBlock has what can be  *)
(*                            mined next, and the block it makes connects; *)
(*   WalletIsExactAlways, BalanceIsUnspentAlways,                          *)
(*   OffersAreAcceptableAlways, CreditsStayExactAlways                     *)
(*                            the wallet has what is its own at the depth  *)
(*                            it has, counts and offers what is unspent,   *)
(*                            and its cached credits stay right.           *)
(*                                                                         *)
(* Those of the pool hold in the behaviours in which no coinbase is at two *)
(* places of the chain (SeenOnce) and none that is in the chain is         *)
(* accepted to the pool by itself (NotSeenBefore): what spends the outputs *)
(* of one that was spent entirely and repeated may be confirmed already.   *)
(* NInv adds to HInv that no coinbase is both in the pool and in the       *)
(* chain.  Then no transaction at all is: of those of the pool in the      *)
(* chain, one at the first place would have its inputs there, where it     *)
(* spends them itself, while the pool has them unspent.  AInv adds that    *)
(* pcoinsTip has no entry, not even an empty one, of any transaction of    *)
(* the pool, which is how the code tells the two apart.                    *)
(*                                                                         *)
(* What a block removes beside its own is Dead: an output it spends is     *)
(* gone for good, and what it would bring with it too.  What is refused at *)
(* a disconnection is an Orphan: some input can only come from what is     *)
(* lost with the coinbase of the block.                                    *)
(*                                                                         *)
(* Those of the wallet hold in the behaviours in which no block that could *)
(* be connected repeats a coinbase of the chain (NewCoinBases).  Then the  *)
(* chain has every transaction once, and none of a block that ConnectTip   *)
(* had told the wallet of when the process was killed.  WInv says that the *)
(* wallet knows all of the chain and the pool that is its own, that each   *)
(* hashBlock is a block that has the transaction, and the one of the chain *)
(* if there is one, and that no cache has an output which is spent there.  *)
(* What a step tells the wallet of (Told) is then compared with what the   *)
(* step changes of the chain and the pool (Tells).                         *)
(***************************************************************************)
EXTENDS LedgerProofs, BlockTemplate, WalletTx, FiniteSetTheorems, SequenceTheorems

-----------------------------------------------------------------------------
(* The order of the places of a chain *)

(* Two places are the same, or one is before the other. *)
LEMMA PlacesAreOrdered ==
    ASSUME NEW p \in Nat \X Nat, NEW q \in Nat \X Nat
    PROVE  /\ p = q \/ Before(p, q) \/ Before(q, p)
           /\ ~Before(p, p) /\ ~(Before(p, q) /\ Before(q, p))
<1>1. p[1] \in Nat /\ p[2] \in Nat /\ q[1] \in Nat /\ q[2] \in Nat
  OBVIOUS
<1>2. p = <<p[1], p[2]>> /\ q = <<q[1], q[2]>>
  OBVIOUS
<1>3. p[1] = q[1] /\ p[2] = q[2] => p = q
  BY <1>2
<1>4. QED
  BY <1>1, <1>3 DEF Before

(* What is before a place that is before another is before that one. *)
LEMMA BeforeIsTransitive ==
    ASSUME NEW p \in Nat \X Nat, NEW q \in Nat \X Nat, NEW r \in Nat \X Nat, Before(p, q), Before(q, r)
    PROVE  Before(p, r)
<1>1. p[1] \in Nat /\ p[2] \in Nat /\ q[1] \in Nat /\ q[2] \in Nat /\ r[1] \in Nat /\ r[2] \in Nat
  OBVIOUS
<1>2. QED
  BY <1>1 DEF Before

(* A set of places has a first one. *)
LEMMA LeastPlace ==
    ASSUME NEW S \in SUBSET (Nat \X Nat), S # {}
    PROVE  \E p \in S : \A q \in S : ~Before(q, p)
<1> DEFINE H == {p[1] : p \in S}
<1>1. H \in SUBSET Nat /\ H # {}
  OBVIOUS
<1>2. PICK h \in H : \A k \in H : h <= k
  <2> HIDE DEF H
  <2>1. QED
    BY <1>1, LeastNumber
<1> DEFINE I == {i \in Nat : <<h, i>> \in S}
<1>3. PICK p \in S : p[1] = h
  BY <1>2
<1>4. I \in SUBSET Nat /\ p[2] \in I
  <2>1. p = <<h, p[2]>> /\ p[2] \in Nat
    BY <1>3
  <2>2. QED
    BY <2>1
<1>5. PICK i \in I : \A k \in I : i <= k
  <2> HIDE DEF I
  <2>1. QED
    BY <1>4, LeastNumber
<1>6. <<h, i>> \in S
  OBVIOUS
<1>7. ASSUME NEW q \in S PROVE ~Before(q, <<h, i>>)
  <2>1. q[1] \in Nat /\ q[2] \in Nat /\ q = <<q[1], q[2]>>
    OBVIOUS
  <2>2. h <= q[1] /\ h \in Nat /\ i \in Nat
    BY <1>1, <1>2
  <2>3. q[1] = h => i <= q[2]
    <3>1. SUFFICES ASSUME q[1] = h PROVE i <= q[2]
      OBVIOUS
    <3>2. q[2] \in I
      BY <2>1, <3>1
    <3>3. QED
      BY <1>5, <3>2
  <2>4. QED
    BY <2>1, <2>2, <2>3 DEF Before
<1>8. QED
  BY <1>6, <1>7

-----------------------------------------------------------------------------
(* What the transactions of a chain spend *)

(* A transaction of a chain spends outputs of transactions before it, which  *)
(* nothing between the two spends.                                           *)
LEMMA SpentBefore ==
    ASSUME NEW c, ChainInv(c), NEW p \in Places(c), TxAt(c, p) \notin CoinBase,
           NEW out \in prevouts(TxAt(c, p))
    PROVE  \E q \in Places(c) :
              /\ Before(q, p) /\ TxAt(c, q) = out[1] /\ out[2] \in Spendable[out[1]]
              /\ \A r \in Places(c) : Before(q, r) /\ Before(r, p) => ~Spends(TxAt(c, r), out)
<1> DEFINE R == [vtx : Blocks, vtxundo : Seq(Seq(Nat))]
           h == p[1]
           i == p[2]
           d == SubSeq(c, 1, h - 1)
           b == c[h]
           vtx == b.vtx
           t == vtx[i]
           e == Append(d, b)
           P == Places(d) \cup {<<h, j>> : j \in 1 .. i - 1}
<1>1. ChainOK(c) /\ Legit(c) /\ c \in Seq(R) /\ Len(c) \in Nat /\ DOMAIN c = 1 .. Len(c)
  BY ChainIs DEF ChainInv, ChainOK
<1>2. /\ h \in 1 .. Len(c) /\ vtx \in Blocks /\ i \in 1 .. Len(vtx) /\ Len(vtx) \in Nat
      /\ p = <<h, i>> /\ t = TxAt(c, p) /\ t \in Tx
  <2>1. PICK g \in DOMAIN c : \E j \in DOMAIN c[g].vtx : p = <<g, j>>
    BY PlacesAre
  <2>2. PICK j \in DOMAIN c[g].vtx : p = <<g, j>>
    BY <2>1
  <2>3. g = h /\ j = i
    BY <2>2
  <2>4. h \in 1 .. Len(c) /\ vtx \in Blocks
    BY <1>1, <2>1, <2>3, ChainIs
  <2>5. i \in 1 .. Len(vtx) /\ Len(vtx) \in Nat
    BY <2>2, <2>3, <2>4, BlockIs
  <2>6. QED
    BY <2>2, <2>3, <2>4, <2>5, BlockIs DEF TxAt
<1>3. PICK v : Shows(v, d) /\ Fits(v, vtx, h)
  BY <1>1, <1>2 DEF Legit
<1> DEFINE x == Connecting(v, vtx, h)[i - 1].view
<1>4. ChainOK(d) /\ Len(d) = h - 1 /\ h - 1 + 1 = h /\ i - 1 \in 0 .. Len(vtx) /\ \A g \in 1 .. h - 1 : d[g] = c[g]
  <2>1. h - 1 \in 0 .. Len(c)
    BY <1>1, <1>2
  <2>2. d \in Seq(R) /\ Len(d) = h - 1 /\ \A g \in 1 .. h - 1 : d[g] = c[g]
    <3> HIDE DEF R
    <3>1. QED
      BY <1>1, <2>1, Prefix
  <2>3. ChainOK(d)
    BY <2>2 DEF ChainOK
  <2>4. QED
    BY <1>2, <2>2, <2>3
<1> HIDE DEF R, d
<1>5. \A q : q \in P <=> q \in Places(c) /\ Before(q, p)
  <2>1. \A q \in Places(c) \cup Places(d) : q[1] \in Nat
    BY <1>1, <1>4, ChainIs
  <2>2. ASSUME NEW q, q \in P PROVE q \in Places(c) /\ Before(q, p)
    <3>1. CASE q \in Places(d)
      <4>1. q[1] \in 1 .. h - 1
        BY <1>4, <3>1, ChainIs
      <4>2. PICK g \in DOMAIN d : \E j \in DOMAIN d[g].vtx : q = <<g, j>>
        BY <3>1, PlacesAre
      <4>3. PICK j \in DOMAIN d[g].vtx : q = <<g, j>>
        BY <4>2
      <4>4. g \in 1 .. h - 1 /\ g \in DOMAIN c /\ d[g] = c[g]
        BY <1>1, <1>2, <1>4, <4>1, <4>3
      <4>5. q \in Places(c)
        BY <4>3, <4>4, PlacesAre
      <4>6. QED
        BY <1>2, <4>1, <4>5 DEF Before
    <3>2. CASE q \notin Places(d)
      <4>1. PICK j \in 1 .. i - 1 : q = <<h, j>>
        BY <2>2, <3>2
      <4>2. h \in DOMAIN c /\ j \in DOMAIN c[h].vtx
        BY <1>1, <1>2, <4>1, BlockIs
      <4>3. q \in Places(c)
        BY <4>1, <4>2, PlacesAre
      <4>4. Before(q, p)
        BY <1>2, <4>1 DEF Before
      <4>5. QED
        BY <4>3, <4>4
    <3>3. QED
      BY <3>1, <3>2
  <2>3. ASSUME NEW q, q \in Places(c), Before(q, p) PROVE q \in P
    <3>1. PICK g \in DOMAIN c : \E j \in DOMAIN c[g].vtx : q = <<g, j>>
      BY <2>3, PlacesAre
    <3>2. PICK j \in DOMAIN c[g].vtx : q = <<g, j>>
      BY <3>1
    <3>3. g \in 1 .. Len(c) /\ j \in 1 .. Len(c[g].vtx)
      BY <1>1, <3>2, ChainIs, BlockIs
    <3>4. CASE g = h
      <4>1. j < i
        BY <1>2, <2>3, <3>2, <3>3, <3>4 DEF Before
      <4>2. j \in 1 .. i - 1
        BY <1>2, <3>3, <4>1
      <4>3. QED
        BY <3>2, <3>4, <4>2
    <3>5. CASE g # h
      <4>1. g < h
        BY <1>2, <2>3, <3>2, <3>5 DEF Before
      <4>2. g \in 1 .. h - 1
        BY <1>2, <3>3, <4>1
      <4>3. g \in DOMAIN d /\ d[g] = c[g]
        BY <1>4, <4>2, ChainIs
      <4>4. q \in Places(d)
        BY <3>2, <4>3, PlacesAre
      <4>5. QED
        BY <4>4
    <3>6. QED
      BY <3>4, <3>5
  <2>4. QED
    BY <2>2, <2>3
<1>6. \A q \in P : TxAt(e, q) = TxAt(c, q)
  <2>1. /\ \A q \in Places(d) : TxAt(e, q) = TxAt(d, q)
        /\ \A j \in 1 .. Len(vtx) : TxAt(e, <<h, j>>) = vtx[j]
    <3>1. b.vtx \in Blocks
      BY <1>2
    <3> HIDE DEF b
    <3>2. QED
      BY <1>4, <3>1, PlacesAppend
  <2>2. \A q \in Places(d) : TxAt(d, q) = TxAt(c, q)
    <3>1. \A q \in Places(d) : q[1] \in 1 .. h - 1
      BY <1>4, ChainIs
    <3>2. QED
      BY <1>4, <3>1 DEF TxAt
  <2>3. \A j \in 1 .. i - 1 : j \in 1 .. Len(vtx) /\ TxAt(c, <<h, j>>) = vtx[j]
    BY <1>2 DEF TxAt
  <2> HIDE DEF b, e, h, vtx
  <2>4. QED
    BY <2>1, <2>2, <2>3
<1>7. ShowsIn(x, P, e)
  <2>1. Fits(v, vtx, Len(d) + 1) /\ b.vtx = vtx
    BY <1>3, <1>4
  <2> HIDE DEF vtx, b, h
  <2>2. \A n \in 0 .. Len(vtx) :
           ShowsIn(Connecting(v, vtx, Len(d) + 1)[n].view,
                   Places(d) \cup {<<Len(d) + 1, j>> : j \in 1 .. n}, Append(d, b))
    BY <1>3, <1>4, <2>1, ConnectingShows
  <2>3. Len(d) + 1 = h
    BY <1>4
  <2> HIDE DEF i
  <2>4. ShowsIn(Connecting(v, vtx, h)[i - 1].view, Places(d) \cup {<<h, j>> : j \in 1 .. i - 1}, Append(d, b))
    BY <1>4, <2>2, <2>3
  <2>5. QED
    BY <2>4 DEF i, b
<1>8. HaveInputs(x, t)
  <2>1. ConnectedTo(v, vtx, h, Connecting(v, vtx, h)[i - 1], i - 1)
    BY <1>3, <1>4, ConnectingAll
  <2>2. QED
    BY <1>2, <1>3, <2>1, ConnectStep
<1> HIDE DEF x, P, e, b
<1>9. out \in Tx \X Nat /\ IsAvailable(x, out)
  <2>1. out \in ToSet(vin[t]) /\ t \in Tx \ CoinBase
    BY <1>2 DEF prevouts
  <2>2. PICK k \in DOMAIN vin[t] : out = vin[t][k]
    BY <2>1 DEF ToSet
  <2>3. QED
    BY <1>8, <2>1, <2>2, InputsAre DEF HaveInputs
<1>10. out[1] \in Tx /\ out = <<out[1], out[2]>>
  BY <1>9
<1>11. out[2] \in UnspentIn(P, e, out[1])
  BY <1>7, <1>9, <1>10 DEF IsAvailable, ShowsIn, LeftIn
<1>12. PICK q \in LastIn(P, e, out[1]) : \A r \in P : Before(q, r) => ~Spends(TxAt(e, r), <<out[1], out[2]>>)
  BY <1>11 DEF UnspentIn
<1>13. out[2] \in Spendable[out[1]]
  BY <1>11 DEF UnspentIn
<1>14. q \in P /\ TxAt(e, q) = out[1]
  BY DEF LastIn
<1>15. q \in Places(c) /\ Before(q, p) /\ TxAt(c, q) = out[1]
  BY <1>5, <1>6, <1>14
<1>16. \A r \in Places(c) : Before(q, r) /\ Before(r, p) => ~Spends(TxAt(c, r), out)
  BY <1>5, <1>6, <1>10, <1>12
<1>17. QED
  BY <1>13, <1>15, <1>16

(* No transaction is twice in a chain. *)
Single(c) == \A p, q \in Places(c) : TxAt(c, p) = TxAt(c, q) => p = q

(* A transaction that is not a coinbase spends what is in its prevouts. *)
LEMMA SpendsIs ==
    ASSUME NEW t \in Tx \ CoinBase, NEW out
    PROVE  Spends(t, out) <=> out \in prevouts(t)
BY DEF Spends, prevouts

(* The transactions of a chain are known, and so are its places. *)
LEMMA InChainIs ==
    ASSUME NEW c, ChainOK(c)
    PROVE  InChain(c) \subseteq Tx /\ \A p \in Places(c) : p \in Nat \X Nat /\ TxAt(c, p) \in Tx
<1>1. ASSUME NEW p \in Places(c) PROVE p \in Nat \X Nat /\ TxAt(c, p) \in Tx
  <2>1. PICK h \in DOMAIN c : \E i \in DOMAIN c[h].vtx : p = <<h, i>>
    BY PlacesAre
  <2>2. PICK i \in DOMAIN c[h].vtx : p = <<h, i>>
    BY <2>1
  <2>3. c[h].vtx \in Blocks /\ p \in Nat \X Nat
    BY ChainIs
  <2>4. TxAt(c, p) = c[h].vtx[i]
    BY <2>2 DEF TxAt
  <2>5. QED
    BY <2>3, <2>4, BlockIs
<1>2. QED
  BY <1>1 DEF InChain

(* Without a transaction seen twice, no output is spent at two places. *)
LEMMA OneSpender ==
    ASSUME NEW c, ChainInv(c), Single(c), NEW p \in Places(c), NEW q \in Places(c),
           TxAt(c, p) \notin CoinBase, TxAt(c, q) \notin CoinBase,
           NEW out, out \in prevouts(TxAt(c, p)), out \in prevouts(TxAt(c, q))
    PROVE  p = q
<1>1. ChainOK(c)
  BY DEF ChainInv
<1>2. \A r \in Places(c) : r \in Nat \X Nat /\ TxAt(c, r) \in Tx
  BY <1>1, InChainIs
<1>3. ASSUME NEW x \in Places(c), NEW y \in Places(c), Before(x, y),
             TxAt(c, x) \notin CoinBase, TxAt(c, y) \notin CoinBase,
             out \in prevouts(TxAt(c, x)), out \in prevouts(TxAt(c, y))
      PROVE  FALSE
  <2>1. PICK a \in Places(c) : Before(a, x) /\ TxAt(c, a) = out[1]
    BY <1>3, SpentBefore
  <2>2. PICK b \in Places(c) :
           /\ Before(b, y) /\ TxAt(c, b) = out[1]
           /\ \A r \in Places(c) : Before(b, r) /\ Before(r, y) => ~Spends(TxAt(c, r), out)
    BY <1>3, SpentBefore
  <2>3. a = b
    BY <2>1, <2>2 DEF Single
  <2>4. ~Spends(TxAt(c, x), out)
    BY <1>3, <2>1, <2>2, <2>3
  <2>5. QED
    BY <1>2, <1>3, <2>4, SpendsIs
<1>4. ~Before(p, q) /\ ~Before(q, p)
  BY <1>3
<1>5. QED
  BY <1>2, <1>4, PlacesAreOrdered

(* ... and what is spent in it is not among its unspent outputs. *)
LEMMA SpentIsGone ==
    ASSUME NEW c, ChainInv(c), Single(c), NEW p \in Places(c), TxAt(c, p) \notin CoinBase,
           NEW out \in prevouts(TxAt(c, p))
    PROVE  out[2] \notin Unspent(c, out[1]) /\ out[1] \in InChain(c)
<1>1. ChainOK(c)
  BY DEF ChainInv
<1>2. TxAt(c, p) \in Tx
  BY <1>1, InChainIs
<1>3. PICK q \in Places(c) : Before(q, p) /\ TxAt(c, q) = out[1]
  BY SpentBefore
<1>4. out[1] \in InChain(c)
  BY <1>3 DEF InChain
<1>5. SUFFICES ASSUME out[2] \in Unspent(c, out[1]) PROVE FALSE
  BY <1>4
<1>6. PICK a \in LastPlaces(c, out[1]) : \A r \in Places(c) : Before(a, r) => ~Spends(TxAt(c, r), <<out[1], out[2]>>)
  BY <1>5 DEF Unspent
<1>7. a \in Places(c) /\ TxAt(c, a) = out[1]
  BY DEF LastPlaces
<1>8. a = q
  BY <1>3, <1>7 DEF Single
<1>9. out \in Tx \X Nat
  BY <1>2, PrevoutsAre
<1>10. out = <<out[1], out[2]>>
  BY <1>9
<1>11. ~Spends(TxAt(c, p), out)
  BY <1>3, <1>6, <1>8, <1>10
<1>12. QED
  BY <1>2, <1>11, SpendsIs

(* A transaction that is not a coinbase spends something. *)
LEMMA HasPrevouts ==
    ASSUME NEW t \in Tx \ CoinBase
    PROVE  \E out : out \in prevouts(t)
<1>1. vin[t] # <<>> /\ vin[t] \in Seq(Tx \X Nat)
  BY TxAssumption
<1>2. Len(vin[t]) \in Nat /\ DOMAIN vin[t] = 1 .. Len(vin[t]) /\ Len(vin[t]) # 0
  BY <1>1
<1>3. vin[t][1] \in prevouts(t)
  BY <1>2 DEF prevouts, ToSet
<1>4. QED
  BY <1>3

(* No coinbase is twice in a chain. *)
CoinBasesOnce(c) == \A p, q \in Places(c) : TxAt(c, p) \in CoinBase /\ TxAt(c, p) = TxAt(c, q) => p = q

(* If no coinbase is twice in the chain, nothing is: what is first seen      *)
(* again would spend an output again.                                        *)
LEMMA OnceEach ==
    ASSUME NEW c, ChainInv(c), CoinBasesOnce(c)
    PROVE  Single(c)
<1> DEFINE B == {y \in Places(c) : \E x \in Places(c) : Before(x, y) /\ TxAt(c, x) = TxAt(c, y)}
<1>1. \A r \in Places(c) : r \in Nat \X Nat /\ TxAt(c, r) \in Tx
  BY InChainIs DEF ChainInv
<1>2. ASSUME B # {} PROVE FALSE
  <2>1. B \in SUBSET (Nat \X Nat)
    BY <1>1
  <2>2. PICK y \in B : \A z \in B : ~Before(z, y)
    <3> HIDE DEF B
    <3>1. QED
      BY <1>2, <2>1, LeastPlace
  <2>3. PICK x \in Places(c) : Before(x, y) /\ TxAt(c, x) = TxAt(c, y)
    OBVIOUS
  <2>4. y \in Places(c) /\ y \in Nat \X Nat /\ x \in Nat \X Nat
    BY <1>1
  <2>5. x # y
    BY <2>3, <2>4, PlacesAreOrdered
  <2> DEFINE t == TxAt(c, y)
  <2>6. t \notin CoinBase
    BY <2>3, <2>4, <2>5 DEF CoinBasesOnce
  <2>7. t \in Tx
    BY <1>1, <2>4
  <2>8. PICK out : out \in prevouts(t)
    <3> HIDE DEF t
    <3>1. QED
      BY <2>6, <2>7, HasPrevouts
  <2>9. PICK a \in Places(c) :
           /\ Before(a, y) /\ TxAt(c, a) = out[1]
           /\ \A r \in Places(c) : Before(a, r) /\ Before(r, y) => ~Spends(TxAt(c, r), out)
    BY <2>4, <2>6, <2>8, SpentBefore
  <2>10. PICK b \in Places(c) : Before(b, x) /\ TxAt(c, b) = out[1]
    BY <2>3, <2>6, <2>8, SpentBefore
  <2>11. a \in Nat \X Nat /\ b \in Nat \X Nat /\ Before(b, y)
    BY <1>1, <2>3, <2>4, <2>10, BeforeIsTransitive
  <2>12. ~Before(a, b) /\ ~Before(b, a)
    <3>1. \A z \in Places(c) : Before(z, y) => z \notin B
      BY <2>2
    <3>2. a \notin B /\ b \notin B
      BY <2>9, <2>11, <3>1
    <3>3. QED
      BY <2>9, <2>10, <3>2
  <2>13. a = b
    BY <2>11, <2>12, PlacesAreOrdered
  <2>14. ~Spends(TxAt(c, x), out)
    BY <2>3, <2>9, <2>10, <2>13
  <2>15. QED
    BY <2>3, <2>6, <2>7, <2>8, <2>14, SpendsIs
<1>3. ASSUME NEW p \in Places(c), NEW q \in Places(c), TxAt(c, p) = TxAt(c, q) PROVE p = q
  <2>1. ~Before(p, q) /\ ~Before(q, p)
    BY <1>2, <1>3
  <2>2. QED
    BY <1>1, <2>1, PlacesAreOrdered
<1>4. QED
  BY <1>3 DEF Single

(* This holds of the active chain. *)
LEMMA OnceIsSingle ==
    ASSUME ChainInv(chain), SeenOnce
    PROVE  Single(chain)
BY OnceEach DEF SeenOnce, CoinBasesOnce

-----------------------------------------------------------------------------
(* The pool and the chain have nothing in common *)

(* No coinbase of the pool is in the chain. *)
NoneIsSeen == pool.mapTx \cap CoinBase \cap InChain(chain) = {}

(* A transaction that is not in a chain has no unspent outputs there. *)
LEMMA UnseenIsNone ==
    ASSUME NEW c, NEW t, t \notin InChain(c)
    PROVE  Unspent(c, t) = {}
BY DEF Unspent, LastPlaces, InChain

(* No transaction of the pool is in the chain: the first of the chain that   *)
(* is would have an input that is spent there.                               *)
LEMMA PoolIsUnseen ==
    ASSUME HInv, NoneIsSeen, Single(chain)
    PROVE  pool.mapTx \cap InChain(chain) = {}
<1> DEFINE c == chain
           B == {p \in Places(c) : TxAt(c, p) \in pool.mapTx}
<1>1. ChainInv(c) /\ ChainOK(c) /\ Shows(pcoinsTip, c) /\ HaveAll(pool, pcoinsTip, InChain(c))
  BY TipIsOK DEF HInv, PInv, LInv
<1>2. \A p \in Places(c) : p \in Nat \X Nat /\ TxAt(c, p) \in Tx
  BY <1>1, InChainIs
<1>3. SUFFICES ASSUME B # {} PROVE FALSE
  BY DEF InChain
<1>4. PICK p \in B : \A q \in B : ~Before(q, p)
  <2>1. B \in SUBSET (Nat \X Nat)
    BY <1>2
  <2> HIDE DEF B
  <2>2. QED
    BY <1>3, <2>1, LeastPlace
<1> DEFINE t == TxAt(c, p)
<1>5. p \in Places(c) /\ t \in pool.mapTx /\ t \in Tx
  BY <1>2
<1>6. t \notin CoinBase
  BY <1>5 DEF NoneIsSeen, InChain
<1>7. PICK out : out \in prevouts(t)
  <2> HIDE DEF t
  <2>1. QED
    BY <1>5, <1>6, HasPrevouts
<1>8. HasInput(pool, pcoinsTip, InChain(c), out)
  BY <1>1, <1>5, <1>6, <1>7 DEF HaveAll
<1>9. out[2] \notin Unspent(c, out[1]) /\ out[1] \in InChain(c)
  BY <1>1, <1>5, <1>6, <1>7, SpentIsGone
<1>10. out[1] \notin pool.mapTx
  <2>1. PICK q \in Places(c) : Before(q, p) /\ TxAt(c, q) = out[1]
    BY <1>1, <1>5, <1>6, <1>7, SpentBefore
  <2>2. q \notin B
    BY <1>4, <2>1
  <2>3. QED
    BY <2>1, <2>2
<1>11. ~IsAvailable(pcoinsTip, out)
  <2>1. out[1] \in Tx
    BY <1>1, <1>9, InChainIs
  <2>2. QED
    BY <1>1, <1>9, <2>1 DEF IsAvailable, Shows, IsLeft
<1>12. QED
  BY <1>8, <1>9, <1>10, <1>11 DEF HasInput

(* So it has no unspent outputs there. *)
LEMMA UnseenIsUnconfirmed ==
    ASSUME LInv, PoolInv(pool), pool.mapTx \cap InChain(chain) = {}
    PROVE  NoneIsConfirmed
<1>1. SUFFICES ASSUME NEW t \in pool.mapTx PROVE Get(pcoinsTip, t).vout = {}
  BY DEF NoneIsConfirmed, IsPruned
<1>2. t \in Tx /\ t \notin InChain(chain)
  BY DEF PoolInv
<1>3. IsLeft(Get(pcoinsTip, t), chain, t)
  BY <1>2, TipIsOK DEF Shows
<1>4. QED
  BY <1>2, <1>3, UnseenIsNone DEF IsLeft

-----------------------------------------------------------------------------
(* What blocks take from the pool and give back to it *)

(* remove takes what it is told to. *)
LEMMA RemovedOnly == ASSUME NEW p, NEW S PROVE remove(p, S).mapTx = p.mapTx \ S
BY DEF remove

(* A transaction of a connected block leaves the pool, and none comes. *)
LEMMA ConfirmShrinks ==
    ASSUME NEW p, NEW t
    PROVE  Confirm(p, t).mapTx \subseteq p.mapTx \ {t}
<1> DEFINE q == remove(p, {t})
           D == WithDescendants(q, {q.mapNextTx[out] : out \in prevouts(t) \cap DOMAIN q.mapNextTx} \ {t})
<1>1. Confirm(p, t) = remove(q, D)
  BY DEF Confirm, removeConflicts
<1> HIDE DEF D
<1>2. remove(q, D).mapTx = q.mapTx \ D /\ q.mapTx = p.mapTx \ {t}
  BY RemovedOnly
<1>3. QED
  BY <1>1, <1>2

(* After n transactions of a connected block none of them is in the pool,    *)
(* and nothing that was not there before.                                    *)
LEMMA ConfirmingShrinks ==
    ASSUME NEW vtx \in Blocks
    PROVE  \A n \in 0 .. Len(vtx) : Confirming(vtx)[n].mapTx \subseteq pool.mapTx \ {vtx[j] : j \in 1 .. n}
<1> DEFINE N == Len(vtx)
           k == Confirming(vtx)
           S == {n \in 0 .. N : k[n].mapTx \subseteq pool.mapTx \ {vtx[j] : j \in 1 .. n}}
<1>1. N \in Nat
  BY BlockIs
<1>2. k[0] = pool /\ \A n \in 1 .. N : k[n] = Confirm(k[n - 1], vtx[n])
  BY <1>1, ConfirmingIs
<1> HIDE DEF k
<1>3. 0 \in S
  <2>1. {vtx[j] : j \in 1 .. 0} = {}
    OBVIOUS
  <2>2. QED
    BY <1>1, <1>2, <2>1
<1>4. ASSUME NEW n \in 1 .. N, n - 1 \in S PROVE n \in S
  <2>1. k[n - 1].mapTx \subseteq pool.mapTx \ {vtx[j] : j \in 1 .. n - 1}
    BY <1>4
  <2>2. k[n].mapTx \subseteq k[n - 1].mapTx \ {vtx[n]}
    BY <1>2, ConfirmShrinks
  <2>3. \A j \in 1 .. n : j \in 1 .. n - 1 \/ j = n
    BY <1>1
  <2>4. QED
    BY <1>1, <2>1, <2>2, <2>3
<1>5. \A n \in 0 .. N : n \in S
  <2> HIDE DEF S, N
  <2>1. QED
    BY <1>1, <1>3, <1>4, Upward
<1>6. QED
  BY <1>5 DEF k

(* A transaction of a disconnected block comes back to the pool unless it is *)
(* a coinbase or its view has coins of it, and nothing else comes.           *)
LEMMA ResurrectGrows ==
    ASSUME NEW p, NEW view, NEW t
    PROVE  \A u \in Resurrect(p, view, t).mapTx : u \in p.mapTx \/ (u = t /\ t \notin CoinBase /\ t \notin DOMAIN view)
<1>1. CASE t \in CoinBase
  BY <1>1 DEF Resurrect
<1>2. CASE t \notin CoinBase /\ Acceptable(p, view, t)
  BY <1>2 DEF Resurrect, addUnchecked, Acceptable
<1>3. CASE t \notin CoinBase /\ ~Acceptable(p, view, t)
  <2>1. Resurrect(p, view, t) = remove(p, WithDescendants(p, {t}))
    BY <1>3 DEF Resurrect
  <2>2. QED
    BY <2>1, RemovedOnly
<1>4. QED
  BY <1>1, <1>2, <1>3

(* After n transactions of a disconnected block the pool has only what it    *)
(* had, and of them.                                                         *)
LEMMA ResurrectingGrows ==
    ASSUME NEW view, NEW vtx \in Blocks
    PROVE  \A n \in 0 .. Len(vtx) : \A u \in Resurrecting(view, vtx)[n].mapTx :
              \/ u \in pool.mapTx
              \/ u \notin CoinBase /\ u \notin DOMAIN view /\ \E j \in 1 .. n : u = vtx[j]
<1> DEFINE N == Len(vtx)
           k == Resurrecting(view, vtx)
           S == {n \in 0 .. N : \A u \in k[n].mapTx :
                    \/ u \in pool.mapTx
                    \/ u \notin CoinBase /\ u \notin DOMAIN view /\ \E j \in 1 .. n : u = vtx[j]}
<1>1. N \in Nat
  BY BlockIs
<1>2. k[0] = pool /\ \A n \in 1 .. N : k[n] = Resurrect(k[n - 1], view, vtx[n])
  BY <1>1, ResurrectingIs
<1> HIDE DEF k
<1>3. 0 \in S
  BY <1>1, <1>2
<1>4. ASSUME NEW n \in 1 .. N, n - 1 \in S PROVE n \in S
  <2>1. ASSUME NEW u \in k[n].mapTx
        PROVE  \/ u \in pool.mapTx
               \/ u \notin CoinBase /\ u \notin DOMAIN view /\ \E j \in 1 .. n : u = vtx[j]
    <3>1. u \in k[n - 1].mapTx \/ (u = vtx[n] /\ u \notin CoinBase /\ u \notin DOMAIN view)
      BY <1>2, ResurrectGrows
    <3>2. CASE u \in k[n - 1].mapTx
      <4>1. \/ u \in pool.mapTx
            \/ u \notin CoinBase /\ u \notin DOMAIN view /\ \E j \in 1 .. n - 1 : u = vtx[j]
        BY <1>4, <3>2
      <4>2. \A j \in 1 .. n - 1 : j \in 1 .. n
        BY <1>1
      <4>3. QED
        BY <4>1, <4>2
    <3>3. CASE u \notin k[n - 1].mapTx
      <4>1. n \in 1 .. n
        BY <1>1
      <4>2. QED
        BY <3>1, <3>3, <4>1
    <3>4. QED
      BY <3>2, <3>3
  <2>2. QED
    BY <1>1, <2>1
<1>5. \A n \in 0 .. N : n \in S
  <2> HIDE DEF S, N
  <2>1. QED
    BY <1>1, <1>3, <1>4, Upward
<1>6. QED
  BY <1>5 DEF k

(* The transactions below a block are in the chain with it, and those of the *)
(* block are.                                                                *)
LEMMA InChainPrefix ==
    ASSUME NEW c, ChainOK(c), c # <<>>
    PROVE  /\ ChainOK(SubSeq(c, 1, Len(c) - 1)) /\ c[Len(c)].vtx \in Blocks
           /\ Append(SubSeq(c, 1, Len(c) - 1), c[Len(c)]) = c
           /\ InChain(c) = InChain(SubSeq(c, 1, Len(c) - 1)) \cup {c[Len(c)].vtx[i] : i \in 1 .. Len(c[Len(c)].vtx)}
<1> DEFINE R == [vtx : Blocks, vtxundo : Seq(Seq(Nat))]
           h == Len(c)
           d == SubSeq(c, 1, h - 1)
           b == c[h]
<1>1. c \in Seq(R)
  BY DEF ChainOK
<1>2. h \in 1 .. Len(c) /\ h - 1 \in 0 .. Len(c)
  BY <1>1
<1>3. d \in Seq(R)
  <2> HIDE DEF R
  <2>1. QED
    BY <1>1, <1>2, Prefix
<1>4. Append(d, b) = c
  <2> HIDE DEF R
  <2>1. QED
    BY <1>1, WholeIs
<1>5. ChainOK(d) /\ b.vtx \in Blocks
  BY <1>2, <1>3, ChainIs DEF ChainOK
<1> HIDE DEF d, b
<1>6. InChain(Append(d, b)) = InChain(d) \cup {b.vtx[i] : i \in 1 .. Len(b.vtx)}
  BY <1>5, InChainAppend
<1>7. QED
  BY <1>4, <1>5, <1>6 DEF d, b

-----------------------------------------------------------------------------
(* No transaction of the pool is confirmed *)

(* A coinbase that is accepted is not in the chain. *)
NotSeenBefore == \A c \in CoinBase : AcceptToMemoryPool(c) => c \notin InChain(chain)

(* The invariant of the pool's inputs, and of its coinbases. *)
NInv == HInv /\ NoneIsSeen

(* The invariant holds when the node starts. *)
LEMMA UnseenInit == Init => NInv
<1>1. Init => NoneIsSeen
  BY DEF Init, NoneIsSeen, EmptyPool
<1>2. QED
  BY <1>1, InputsInit DEF NInv

(* Every step preserves it, as long as no coinbase is twice in the chain and *)
(* none comes to the pool that is in it.                                     *)
LEMMA UnseenStep == NInv /\ SeenOnce /\ [Next /\ NotSeenBefore]_vars => NInv'
<1> SUFFICES ASSUME NInv, SeenOnce, [Next /\ NotSeenBefore]_vars PROVE NInv'
  OBVIOUS
<1>1. HInv /\ HInv' /\ LInv /\ ChainOK(chain) /\ pool.mapTx \cap CoinBase \cap InChain(chain) = {}
  <2>1. HInv'
    BY InputsStep DEF NInv
  <2>2. QED
    BY <2>1 DEF NInv, NoneIsSeen, HInv, PInv, LInv, ChainInv
<1>2. SUFFICES pool'.mapTx \cap CoinBase \cap InChain(chain') = {}
  BY <1>1 DEF NInv, NoneIsSeen
<1>3. ASSUME NEW t \in Tx, AcceptToMemoryPool(t), NotSeenBefore
      PROVE  pool'.mapTx \cap CoinBase \cap InChain(chain') = {}
  <2>1. pool'.mapTx = pool.mapTx \cup {t} /\ chain' = chain
    BY <1>3 DEF AcceptToMemoryPool, addUnchecked, ledger
  <2>2. t \in CoinBase => t \notin InChain(chain)
    BY <1>3 DEF NotSeenBefore
  <2> DEFINE X == InChain(chain)
  <2>3. InChain(chain') = X
    BY <2>1
  <2> HIDE DEF X
  <2>4. QED
    BY <1>1, <2>1, <2>2, <2>3 DEF X
<1>4. ASSUME NEW fFlush \in BOOLEAN, NEW vtx \in Blocks, ConnectTip(vtx, fFlush)
      PROVE  pool'.mapTx \cap CoinBase \cap InChain(chain') = {}
  <2> DEFINE b == [vtx |-> vtx, vtxundo |-> Connected(vtx).vtxundo]
  <2>1. chain' = Append(chain, b) /\ b.vtx = vtx /\ pool' = Confirming(vtx)[Len(vtx)]
    BY <1>4 DEF ConnectTip, ConnectCoins, PoolConnected
  <2> HIDE DEF b
  <2>2. InChain(chain') = InChain(chain) \cup {vtx[i] : i \in 1 .. Len(vtx)}
    BY <1>1, <2>1, InChainAppend
  <2>3. pool'.mapTx \subseteq pool.mapTx \ {vtx[i] : i \in 1 .. Len(vtx)}
    <3>1. Len(vtx) \in 0 .. Len(vtx)
      BY BlockIs
    <3>2. QED
      BY <2>1, <3>1, ConfirmingShrinks
  <2>4. QED
    BY <1>1, <2>2, <2>3
<1>5. ASSUME NEW fFlush \in BOOLEAN, DisconnectTip(fFlush)
      PROVE  pool'.mapTx \cap CoinBase \cap InChain(chain') = {}
  <2> DEFINE w == Showing(Disconnected.view, fFlush)
             vtx == chain[Height].vtx
  <2>1. /\ chain # <<>> /\ chain' = SubSeq(chain, 1, Len(chain) - 1)
        /\ pool' = Resurrecting(w, vtx)[Len(vtx)]
    BY <1>5 DEF DisconnectTip, DisconnectCoins, PoolDisconnected, Height
  <2> HIDE DEF w
  <2>2. vtx \in Blocks
    BY <1>1, <2>1, TipIsABlock
  <2>3. InChain(chain') \subseteq InChain(chain)
    BY <1>1, <2>1, InChainPrefix
  <2> HIDE DEF vtx
  <2>4. \A u \in pool'.mapTx : u \in pool.mapTx \/ u \notin CoinBase
    <3>1. Len(vtx) \in 0 .. Len(vtx)
      BY <2>2, BlockIs
    <3>2. QED
      BY <2>1, <2>2, <3>1, ResurrectingGrows
  <2>5. QED
    BY <1>1, <2>3, <2>4
<1>6. CASE Restart
  BY <1>6 DEF Restart, EmptyPool
<1>7. CASE Calendar \/ UNCHANGED vars
  <2>1. pool' = pool /\ chain' = chain
    BY <1>7 DEF Calendar, vars, ledger
  <2>2. QED
    BY <1>1, <2>1
<1>8. QED
  BY <1>3, <1>4, <1>5, <1>6, <1>7 DEF Next

(* No transaction of the pool is in the chain, so none is confirmed. *)
LEMMA NotInChain == NInv /\ SeenOnce => Single(chain) /\ pool.mapTx \cap InChain(chain) = {} /\ NoneIsConfirmed
<1> SUFFICES ASSUME NInv, SeenOnce
             PROVE  Single(chain) /\ pool.mapTx \cap InChain(chain) = {} /\ NoneIsConfirmed
  OBVIOUS
<1>1. HInv /\ NoneIsSeen /\ LInv /\ PoolInv(pool) /\ ChainInv(chain)
  BY DEF NInv, HInv, PInv, LInv
<1>2. Single(chain)
  BY <1>1, OnceIsSingle
<1>3. pool.mapTx \cap InChain(chain) = {}
  BY <1>1, <1>2, PoolIsUnseen
<1>4. QED
  BY <1>1, <1>2, <1>3, UnseenIsUnconfirmed

(* The invariant holds as long as no coinbase is repeated. *)
THEOREM UnseenInvariant == Spec /\ []SeenOnce /\ [][NotSeenBefore]_vars => []NInv
<1>1. NInv /\ SeenOnce /\ [Next]_vars /\ [NotSeenBefore]_vars => NInv'
  BY UnseenStep
<1>2. QED
  BY <1>1, UnseenInit, PTL DEF Spec

(* As long as no coinbase is twice in the chain, or comes to the pool when   *)
(* it is in the chain, no transaction of the pool has unspent outputs there: *)
(* "AcceptToMemoryPool already refuses previously-known transaction ids      *)
(* entirely".                                                                *)
THEOREM NoneIsConfirmedAlways == Spec /\ []SeenOnce /\ [][NotSeenBefore]_vars => []NoneIsConfirmed
<1>1. NInv /\ SeenOnce => NoneIsConfirmed
  BY NotInChain
<1>2. QED
  BY <1>1, UnseenInvariant, PTL

-----------------------------------------------------------------------------
(* The pool and the cache have no entry in common *)

(* The transactions whose outputs a block spends. *)
Parents(vtx) == UNION {{out[1] : out \in prevouts(t)} : t \in {vtx[i] : i \in 1 .. Len(vtx)} \ CoinBase}

(* Giving its inputs back adds to a view no entries but of the parents of a  *)
(* transaction.                                                              *)
LEMMA RestoringDomain ==
    ASSUME NEW acc, NEW t \in Tx \ CoinBase, NEW undo
    PROVE  DOMAIN Restoring(acc, t, undo)[1].view \subseteq DOMAIN acc.view \cup {out[1] : out \in prevouts(t)}
<1> DEFINE N == Len(vin[t])
           k == Restoring(acc, t, undo)
           A == {out[1] : out \in prevouts(t)}
           S == {j \in 1 .. N + 1 : DOMAIN k[j].view \subseteq DOMAIN acc.view \cup A}
<1>1. N \in Nat /\ DOMAIN vin[t] = 1 .. N
  BY InputsAre
<1>2. k[N + 1] = acc /\ \A j \in 1 .. N : k[j] = RestoreInput(k[j + 1], vin[t][j], undo[j])
  BY RestoringIs
<1>3. \A j \in 1 .. N : vin[t][j][1] \in A
  <2>1. \A j \in 1 .. N : vin[t][j] \in prevouts(t)
    BY <1>1 DEF prevouts, ToSet
  <2>2. QED
    BY <2>1
<1> HIDE DEF k, A
<1>4. N + 1 \in S
  BY <1>1, <1>2
<1>5. ASSUME NEW j \in 1 .. N, j + 1 \in S PROVE j \in S
  <2> DEFINE a == k[j + 1]
             out == vin[t][j]
             r == Unspend(Get(a.view, out[1]), out[2], undo[j])
  <2>1. k[j] = RestoreInput(a, out, undo[j])
    BY <1>2
  <2>2. DOMAIN k[j].view = DOMAIN a.view \cup {out[1]}
    <3> HIDE DEF a, out
    <3>1. RestoreInput(a, out, undo[j]).view = Set(a.view, out[1], r.coins)
      BY DEF RestoreInput
    <3> HIDE DEF r
    <3>2. DOMAIN Set(a.view, out[1], r.coins) = DOMAIN a.view \cup {out[1]}
      BY SetDomain
    <3>3. QED
      BY <2>1, <3>1, <3>2
  <2>3. DOMAIN a.view \subseteq DOMAIN acc.view \cup A
    BY <1>5
  <2> HIDE DEF a
  <2>4. QED
    BY <1>1, <1>3, <2>2, <2>3
<1>6. \A j \in 1 .. N + 1 : j \in S
  <2> HIDE DEF S, N
  <2>1. QED
    BY <1>1, <1>4, <1>5, Downward
<1>7. 1 \in 1 .. N + 1
  BY <1>1
<1>8. QED
  BY <1>6, <1>7 DEF k, A

(* Taking the outputs of a transaction out of a view adds no entry to it and *)
(* removes none.                                                             *)
LEMMA RemovedDomain == ASSUME NEW acc, NEW t, NEW h PROVE DOMAIN Removed(acc, t, h).view = DOMAIN acc.view
<1>1. CASE t \in DOMAIN acc.view
  <2>1. Removed(acc, t, h).view = Set(acc.view, t, Empty)
    BY <1>1 DEF Removed
  <2>2. DOMAIN Set(acc.view, t, Empty) = DOMAIN acc.view \cup {t}
    BY SetDomain
  <2>3. QED
    BY <1>1, <2>1, <2>2
<1>2. CASE t \notin DOMAIN acc.view
  BY <1>2 DEF Removed
<1>3. QED
  BY <1>1, <1>2

(* Disconnecting a block adds to a view no entries but of transactions that  *)
(* one of its transactions spends.                                           *)
LEMMA DisconnectedDomain ==
    ASSUME NEW view, NEW block, block.vtx \in Blocks, NEW h
    PROVE  DOMAIN DisconnectBlock(view, block, h).view \subseteq DOMAIN view \cup Parents(block.vtx)
<1> DEFINE vtx == block.vtx
           N == Len(vtx)
           k == Disconnecting(view, block, h)
           A == Parents(vtx)
           S == {i \in 1 .. N + 1 : DOMAIN k[i].view \subseteq DOMAIN view \cup A}
<1>1. N \in Nat \ {0} /\ \A i \in 1 .. N : vtx[i] \in Tx
  BY BlockIs
<1>2. k[N + 1] = [view |-> view, clean |-> TRUE] /\ \A i \in 1 .. N : k[i] = DisconnectTx(k[i + 1], block, i, h)
  BY <1>1, DisconnectingIs
<1>3. \A i \in 1 .. N : vtx[i] \notin CoinBase => {out[1] : out \in prevouts(vtx[i])} \subseteq A
  BY DEF Parents
<1> HIDE DEF k, A
<1>4. N + 1 \in S
  <2>1. k[N + 1].view = view
    BY <1>2
  <2>2. QED
    BY <1>1, <2>1
<1>5. ASSUME NEW i \in 1 .. N, i + 1 \in S PROVE i \in S
  <2> DEFINE a == k[i + 1]
             t == vtx[i]
             r == Removed(a, t, h)
  <2>1. DOMAIN a.view \subseteq DOMAIN view \cup A /\ t \in Tx
    BY <1>1, <1>5
  <2>2. k[i] = IF i = 1 \/ t \in CoinBase THEN r ELSE Restoring(r, t, block.vtxundo[i - 1])[1]
    BY <1>2 DEF DisconnectTx
  <2>3. DOMAIN r.view = DOMAIN a.view
    BY RemovedDomain
  <2>4. DOMAIN k[i].view \subseteq DOMAIN view \cup A
    <3> HIDE DEF a, r
    <3>1. CASE i = 1 \/ t \in CoinBase
      BY <2>1, <2>2, <2>3, <3>1
    <3>2. CASE i # 1 /\ t \notin CoinBase
      <4> DEFINE u == block.vtxundo[i - 1]
      <4>1. k[i] = Restoring(r, t, u)[1]
        BY <2>2, <3>2
      <4>2. {out[1] : out \in prevouts(t)} \subseteq A
        BY <1>3, <3>2
      <4> HIDE DEF u, t
      <4>3. DOMAIN Restoring(r, t, u)[1].view \subseteq DOMAIN r.view \cup {out[1] : out \in prevouts(t)}
        BY <2>1, <3>2, RestoringDomain
      <4>4. QED
        BY <2>1, <2>3, <4>1, <4>2, <4>3
    <3>3. QED
      BY <3>1, <3>2
  <2>5. QED
    BY <1>1, <2>4
<1>6. \A i \in 1 .. N + 1 : i \in S
  <2> HIDE DEF S, N
  <2>1. QED
    BY <1>1, <1>4, <1>5, Downward
<1>7. 1 \in 1 .. N + 1
  BY <1>1
<1>8. QED
  BY <1>6, <1>7 DEF k, A, DisconnectBlock

(* pcoinsTip gets no entries but those of the view it takes up. *)
LEMMA ShowingDomain ==
    ASSUME NEW view, NEW fFlush \in BOOLEAN, DOMAIN pcoinsTip \subseteq DOMAIN view
    PROVE  /\ DOMAIN Showing(view, fFlush) \subseteq DOMAIN view
           /\ Apply(view, fFlush) => DOMAIN pcoinsTip' = DOMAIN Showing(view, fFlush)
<1>1. \A a, b : DOMAIN Over(a, b) = DOMAIN a \cup DOMAIN b
  BY DEF Over
<1>2. DOMAIN Merge(view) \subseteq DOMAIN view /\ DOMAIN coinsdb \subseteq DOMAIN view
  <2>1. DOMAIN pcoinsTip = DOMAIN cacheCoins \cup DOMAIN coinsdb
    BY <1>1 DEF pcoinsTip
  <2>2. DOMAIN Merge(view) \subseteq DOMAIN cacheCoins \cup DOMAIN view
    BY DEF Merge
  <2>3. QED
    BY <2>1, <2>2
<1> DEFINE m == Merge(view)
<1> HIDE DEF m
<1>3. DOMAIN Written(m) \subseteq DOMAIN m \cup DOMAIN coinsdb
  BY <1>1 DEF Written
<1>4. DOMAIN Showing(view, fFlush) \subseteq DOMAIN view
  BY <1>1, <1>2, <1>3 DEF Showing, m
<1>5. ASSUME Apply(view, fFlush) PROVE DOMAIN pcoinsTip' = DOMAIN Showing(view, fFlush)
  <2>1. CASE fFlush
    <3>1. cacheCoins' = NoCoins /\ coinsdb' = Written(m) /\ Showing(view, fFlush) = Written(m)
      BY <1>5, <2>1 DEF Apply, Showing, m
    <3>2. DOMAIN NoCoins = {}
      BY DEF NoCoins
    <3>3. DOMAIN pcoinsTip' = DOMAIN NoCoins \cup DOMAIN Written(m)
      BY <1>1, <3>1 DEF pcoinsTip
    <3>4. QED
      BY <3>1, <3>2, <3>3
  <2>2. CASE ~fFlush
    <3>1. cacheCoins' = m /\ coinsdb' = coinsdb /\ Showing(view, fFlush) = Over(m, coinsdb)
      BY <1>5, <2>2 DEF Apply, Showing, m
    <3>2. QED
      BY <3>1 DEF pcoinsTip
  <2>3. QED
    BY <2>1, <2>2
<1>6. QED
  BY <1>4, <1>5

(* No transaction of the pool has an entry in the cache over the database,   *)
(* and the pool is finite.                                                   *)
Apart == pool.mapTx \cap DOMAIN pcoinsTip = {} /\ IsFiniteSet(pool.mapTx)

(* The invariant of the pool and the cache. *)
AInv == NInv /\ Apart

(* The invariant holds when the node starts. *)
LEMMA ApartInit == Init => AInv
<1>1. Init => Apart
  BY FS_EmptySet DEF Init, Apart, EmptyPool
<1>2. QED
  BY <1>1, UnseenInit DEF AInv

(* Disconnecting a block brings back entries only of transactions that are   *)
(* still in the chain, and what comes back to the pool has no entry.         *)
LEMMA DisconnectIsApart ==
    ASSUME AInv, SeenOnce, NEW fFlush \in BOOLEAN, DisconnectTip(fFlush)
    PROVE  pool'.mapTx \cap DOMAIN pcoinsTip' = {} /\ pool'.mapTx \subseteq pool.mapTx \cup ToSet(chain[Height].vtx)
<1> DEFINE b == chain[Height]
           view == Disconnected.view
           w == Showing(view, fFlush)
<1>1. /\ LInv /\ ChainInv(chain) /\ ChainOK(chain) /\ Single(chain) /\ pool.mapTx \cap InChain(chain) = {}
      /\ pool.mapTx \cap DOMAIN pcoinsTip = {}
  BY NotInChain DEF AInv, NInv, HInv, PInv, LInv, ChainInv, Apart
<1>2. chain # <<>> /\ Apply(view, fFlush) /\ pool' = Resurrecting(w, b.vtx)[Len(b.vtx)]
  BY DEF DisconnectTip, DisconnectCoins, PoolDisconnected
<1>3. b.vtx \in Blocks /\ Height \in 1 .. Len(chain)
  <2>1. Height \in 1 .. Len(chain)
    BY <1>1, <1>2, ChainIs DEF Height, ChainOK
  <2>2. QED
    BY <1>1, <1>2, <2>1, TipIsABlock
<1>4. DOMAIN view \subseteq DOMAIN pcoinsTip \cup Parents(b.vtx)
  <2> HIDE DEF b
  <2>1. DOMAIN DisconnectBlock(pcoinsTip, b, Height).view \subseteq DOMAIN pcoinsTip \cup Parents(b.vtx)
    BY <1>3, DisconnectedDomain
  <2>2. QED
    BY <2>1 DEF Disconnected, b
<1>5. Parents(b.vtx) \subseteq InChain(chain)
  <2>1. SUFFICES ASSUME NEW i \in 1 .. Len(b.vtx), b.vtx[i] \notin CoinBase, NEW out \in prevouts(b.vtx[i])
                 PROVE  out[1] \in InChain(chain)
    BY DEF Parents
  <2> DEFINE p == <<Height, i>>
  <2>2. p \in Places(chain) /\ TxAt(chain, p) = b.vtx[i]
    <3>1. Height \in DOMAIN chain /\ i \in DOMAIN chain[Height].vtx
      BY <1>1, <1>3, <2>1, ChainIs, BlockIs
    <3>2. p \in Places(chain)
      BY <3>1, PlacesAre
    <3>3. QED
      BY <3>2 DEF TxAt
  <2> HIDE DEF p, b
  <2>3. QED
    BY <1>1, <2>1, <2>2, SpentIsGone
<1>6. DOMAIN pcoinsTip \subseteq DOMAIN view
  BY <1>1, <1>2, DisconnectedIs
<1> HIDE DEF view
<1>7. DOMAIN w \subseteq DOMAIN view /\ DOMAIN pcoinsTip' = DOMAIN w
  BY <1>2, <1>6, ShowingDomain
<1> HIDE DEF w, b
<1>8. \A u \in pool'.mapTx : u \in pool.mapTx \/ (u \notin DOMAIN w /\ \E j \in 1 .. Len(b.vtx) : u = b.vtx[j])
  <2>1. Len(b.vtx) \in 0 .. Len(b.vtx)
    BY <1>3, BlockIs
  <2>2. QED
    BY <1>2, <1>3, <2>1, ResurrectingGrows
<1>9. pool'.mapTx \subseteq pool.mapTx \cup ToSet(b.vtx)
  <2>1. \A j \in 1 .. Len(b.vtx) : b.vtx[j] \in ToSet(b.vtx)
    BY <1>3, BlockIs DEF ToSet
  <2>2. QED
    BY <1>8, <2>1
<1>10. pool'.mapTx \cap DOMAIN pcoinsTip' = {}
  BY <1>1, <1>4, <1>5, <1>7, <1>8
<1>11. QED
  BY <1>9, <1>10 DEF b

(* A block has finitely many transactions. *)
LEMMA BlockIsFinite == ASSUME NEW vtx \in Blocks PROVE IsFiniteSet(ToSet(vtx))
<1> DEFINE N == Len(vtx)
           First(n) == {vtx[j] : j \in 1 .. n}
           S == {n \in 0 .. N : IsFiniteSet(First(n))}
<1>1. N \in Nat /\ DOMAIN vtx = 1 .. N
  BY BlockIs
<1>2. First(0) = {} /\ First(N) = ToSet(vtx)
  BY <1>1 DEF ToSet
<1>3. \A n \in 1 .. N : First(n) = First(n - 1) \cup {vtx[n]}
  <2>1. \A n \in 1 .. N : \A j : j \in 1 .. n <=> j \in 1 .. n - 1 \/ j = n
    BY <1>1
  <2>2. QED
    BY <2>1
<1> HIDE DEF First
<1>4. 0 \in S
  BY <1>1, <1>2, FS_EmptySet
<1>5. ASSUME NEW n \in 1 .. N, n - 1 \in S PROVE n \in S
  <2> DEFINE A == First(n - 1)
  <2>1. IsFiniteSet(A) /\ First(n) = A \cup {vtx[n]}
    BY <1>3, <1>5
  <2> HIDE DEF A
  <2>2. IsFiniteSet(A \cup {vtx[n]})
    BY <2>1, FS_AddElement
  <2>3. IsFiniteSet(First(n))
    BY <2>1, <2>2, Zenon
  <2>4. QED
    BY <1>1, <2>3
<1>6. \A n \in 0 .. N : n \in S
  <2> HIDE DEF S, N
  <2>1. QED
    BY <1>1, <1>4, <1>5, Upward
<1>7. N \in S
  <2>1. N \in 0 .. N
    BY <1>1
  <2>2. QED
    BY <1>6, <2>1
<1>8. QED
  BY <1>2, <1>7

(* Every step keeps the pool and the cache apart, as long as no coinbase is  *)
(* repeated.                                                                 *)
LEMMA ApartStep == AInv /\ SeenOnce /\ [Next /\ NotSeenBefore]_vars => AInv'
<1> SUFFICES ASSUME AInv, SeenOnce, [Next /\ NotSeenBefore]_vars PROVE AInv'
  OBVIOUS
<1>1. NInv' /\ LInv /\ pool.mapTx \cap DOMAIN pcoinsTip = {} /\ IsFiniteSet(pool.mapTx)
  <2>1. NInv'
    BY UnseenStep DEF AInv
  <2>2. QED
    BY <2>1 DEF AInv, Apart, NInv, HInv, PInv
<1>2. SUFFICES pool'.mapTx \cap DOMAIN pcoinsTip' = {} /\ IsFiniteSet(pool'.mapTx)
  BY <1>1 DEF AInv, Apart
<1>3. ASSUME UNCHANGED ledger PROVE pcoinsTip' = pcoinsTip
  BY <1>3 DEF ledger, pcoinsTip
<1>4. ASSUME NEW t \in Tx, AcceptToMemoryPool(t)
      PROVE  pool'.mapTx \cap DOMAIN pcoinsTip' = {} /\ IsFiniteSet(pool'.mapTx)
  <2>1. pool'.mapTx = pool.mapTx \cup {t} /\ UNCHANGED ledger /\ t \notin DOMAIN pcoinsTip
    BY <1>4 DEF AcceptToMemoryPool, Acceptable, addUnchecked
  <2>2. IsFiniteSet(pool.mapTx \cup {t})
    BY <1>1, FS_AddElement
  <2>3. pcoinsTip' = pcoinsTip
    BY <1>3, <2>1
  <2>4. QED
    BY <1>1, <2>1, <2>2, <2>3
<1>5. ASSUME NEW fFlush \in BOOLEAN, NEW vtx \in Blocks, ConnectTip(vtx, fFlush)
      PROVE  pool'.mapTx \cap DOMAIN pcoinsTip' = {} /\ IsFiniteSet(pool'.mapTx)
  <2> DEFINE view == Connected(vtx).view
  <2>1. Connected(vtx).ok /\ Apply(view, fFlush) /\ pool' = Confirming(vtx)[Len(vtx)]
    BY <1>5 DEF ConnectTip, ConnectCoins, PoolConnected
  <2>2. DOMAIN view = DOMAIN pcoinsTip \cup {vtx[k] : k \in 1 .. Len(vtx)}
    BY <1>1, <2>1, ConnectedIs
  <2> HIDE DEF view
  <2>3. DOMAIN pcoinsTip' \subseteq DOMAIN view
    BY <2>1, <2>2, ShowingDomain
  <2>4. pool'.mapTx \subseteq pool.mapTx \ {vtx[k] : k \in 1 .. Len(vtx)}
    <3>1. Len(vtx) \in 0 .. Len(vtx)
      BY BlockIs
    <3>2. QED
      BY <2>1, <3>1, ConfirmingShrinks
  <2>5. IsFiniteSet(pool'.mapTx)
    BY <1>1, <2>4, FS_Subset
  <2>6. QED
    BY <1>1, <2>2, <2>3, <2>4, <2>5
<1>6. ASSUME NEW fFlush \in BOOLEAN, DisconnectTip(fFlush)
      PROVE  pool'.mapTx \cap DOMAIN pcoinsTip' = {} /\ IsFiniteSet(pool'.mapTx)
  <2>1. /\ pool'.mapTx \cap DOMAIN pcoinsTip' = {}
        /\ pool'.mapTx \subseteq pool.mapTx \cup ToSet(chain[Height].vtx)
    BY <1>6, DisconnectIsApart
  <2>2. chain[Height].vtx \in Blocks
    BY <1>1, <1>6, TipIsABlock DEF DisconnectTip, DisconnectCoins
  <2> DEFINE vtx == chain[Height].vtx
  <2> HIDE DEF vtx
  <2>3. IsFiniteSet(ToSet(vtx))
    BY <2>2, BlockIsFinite DEF vtx
  <2>4. IsFiniteSet(pool.mapTx \cup ToSet(vtx))
    BY <1>1, <2>3, FS_Union
  <2>5. QED
    BY <2>1, <2>4, FS_Subset DEF vtx
<1>7. CASE Restart
  BY <1>7, FS_EmptySet DEF Restart, EmptyPool
<1>8. CASE Calendar \/ UNCHANGED vars
  <2>1. pool' = pool /\ UNCHANGED ledger
    BY <1>8 DEF Calendar, vars
  <2>2. QED
    BY <1>1, <1>3, <2>1
<1>9. QED
  BY <1>4, <1>5, <1>6, <1>7, <1>8 DEF Next

-----------------------------------------------------------------------------
(* What CreateNewBlock takes, transaction by transaction *)

(* The view is updated by one transaction after the other. *)
LEMMA ViewsIs ==
    ASSUME NEW s, Len(s) \in Nat
    PROVE  /\ Views(s)[0] = pcoinsTip
           /\ \A n \in 1 .. Len(s) : Views(s)[n] = UpdateCoins(Views(s)[n - 1], s[n], Height + 1).view
<1> DEFINE N == Len(s)
           base == pcoinsTip
           Is(g, m) == g = [n \in 0 .. m |-> IF n = 0 THEN base ELSE UpdateCoins(g[n - 1], s[n], Height + 1).view]
           f == CHOOSE g : Is(g, N)
<1>1. N \in Nat
  OBVIOUS
<1>2. Views(s) = f
  BY DEF Views
<1> HIDE DEF N, base
<1>3. ASSUME NEW m \in Nat, NEW g, Is(g, m) PROVE \E e : Is(e, m + 1)
  <2> DEFINE e == [n \in 0 .. m + 1 |-> IF n = 0 THEN base ELSE UpdateCoins(g[n - 1], s[n], Height + 1).view]
  <2>1. \A n \in 0 .. m : e[n] = g[n]
    BY <1>3
  <2>2. \A n \in 1 .. m + 1 : n - 1 \in 0 .. m
    OBVIOUS
  <2>3. \A n \in 0 .. m + 1 : (IF n = 0 THEN base ELSE UpdateCoins(e[n - 1], s[n], Height + 1).view) = (IF n = 0 THEN base ELSE UpdateCoins(g[n - 1], s[n], Height + 1).view)
    <3> HIDE DEF e
    <3>1. \A n \in 1 .. m + 1 : e[n - 1] = g[n - 1]
      BY <2>1, <2>2
    <3>2. \A n \in 0 .. m + 1 : n = 0 \/ n \in 1 .. m + 1
      OBVIOUS
    <3>3. QED
      BY <3>1, <3>2
  <2>4. e = [n \in 0 .. m + 1 |-> IF n = 0 THEN base ELSE UpdateCoins(e[n - 1], s[n], Height + 1).view]
    BY <2>3, Zenon
  <2>5. QED
    BY <2>4
<1>4. \E e : Is(e, 0)
  <2> DEFINE e == [n \in 0 .. 0 |-> base]
  <2>1. e = [n \in 0 .. 0 |-> IF n = 0 THEN base ELSE UpdateCoins(e[n - 1], s[n], Height + 1).view]
    OBVIOUS
  <2>2. QED
    BY <2>1
<1>5. \E g : Is(g, N)
  <2> DEFINE S == {m \in 0 .. N : \E g : Is(g, m)}
  <2>1. 0 \in S
    BY <1>1, <1>4
  <2>2. ASSUME NEW n \in 1 .. N, n - 1 \in S PROVE n \in S
    <3> DEFINE l == n - 1
    <3>1. l \in Nat /\ l + 1 = n /\ n \in 0 .. N /\ \E g : Is(g, l)
      BY <1>1, <2>2
    <3> HIDE DEF l, Is
    <3>2. \E g : Is(g, l + 1)
      BY <1>3, <3>1
    <3>3. QED
      BY <3>1, <3>2
  <2> HIDE DEF S
  <2>3. N \in 0 .. N /\ \A n \in 0 .. N : n \in S
    BY <1>1, <2>1, <2>2, Upward
  <2>4. QED
    BY <2>3 DEF S
<1>6. Is(f, N)
  BY <1>5
<1> HIDE DEF f
<1>7. f[0] = base /\ \A n \in 1 .. N : f[n] = UpdateCoins(f[n - 1], s[n], Height + 1).view
  BY <1>1, <1>6
<1>8. QED
  BY <1>2, <1>7 DEF N, base

(* The templates are built from the empty one, each longer by a transaction. *)
LEMMA BuildingIs ==
    ASSUME Cardinality(pool.mapTx) \in Nat
    PROVE  /\ Building[0] = {<<>>}
           /\ \A n \in 1 .. Cardinality(pool.mapTx) : Building[n] = Longer(Building[n - 1])
<1> DEFINE N == Cardinality(pool.mapTx)
           base == {<<>>}
           Is(g, m) == g = [n \in 0 .. m |-> IF n = 0 THEN base ELSE Longer(g[n - 1])]
           f == CHOOSE g : Is(g, N)
<1>1. N \in Nat
  OBVIOUS
<1>2. Building = f
  BY DEF Building
<1> HIDE DEF N, base
<1>3. ASSUME NEW m \in Nat, NEW g, Is(g, m) PROVE \E e : Is(e, m + 1)
  <2> DEFINE e == [n \in 0 .. m + 1 |-> IF n = 0 THEN base ELSE Longer(g[n - 1])]
  <2>1. \A n \in 0 .. m : e[n] = g[n]
    BY <1>3
  <2>2. \A n \in 1 .. m + 1 : n - 1 \in 0 .. m
    OBVIOUS
  <2>3. \A n \in 0 .. m + 1 : (IF n = 0 THEN base ELSE Longer(e[n - 1])) = (IF n = 0 THEN base ELSE Longer(g[n - 1]))
    <3> HIDE DEF e
    <3>1. \A n \in 1 .. m + 1 : e[n - 1] = g[n - 1]
      BY <2>1, <2>2
    <3>2. \A n \in 0 .. m + 1 : n = 0 \/ n \in 1 .. m + 1
      OBVIOUS
    <3>3. QED
      BY <3>1, <3>2
  <2>4. e = [n \in 0 .. m + 1 |-> IF n = 0 THEN base ELSE Longer(e[n - 1])]
    BY <2>3, Zenon
  <2>5. QED
    BY <2>4
<1>4. \E e : Is(e, 0)
  <2> DEFINE e == [n \in 0 .. 0 |-> base]
  <2>1. e = [n \in 0 .. 0 |-> IF n = 0 THEN base ELSE Longer(e[n - 1])]
    OBVIOUS
  <2>2. QED
    BY <2>1
<1>5. \E g : Is(g, N)
  <2> DEFINE S == {m \in 0 .. N : \E g : Is(g, m)}
  <2>1. 0 \in S
    BY <1>1, <1>4
  <2>2. ASSUME NEW n \in 1 .. N, n - 1 \in S PROVE n \in S
    <3> DEFINE l == n - 1
    <3>1. l \in Nat /\ l + 1 = n /\ n \in 0 .. N /\ \E g : Is(g, l)
      BY <1>1, <2>2
    <3> HIDE DEF l, Is
    <3>2. \E g : Is(g, l + 1)
      BY <1>3, <3>1
    <3>3. QED
      BY <3>1, <3>2
  <2> HIDE DEF S
  <2>3. N \in 0 .. N /\ \A n \in 0 .. N : n \in S
    BY <1>1, <2>1, <2>2, Upward
  <2>4. QED
    BY <2>3 DEF S
<1>6. Is(f, N)
  BY <1>5
<1> HIDE DEF f
<1>7. f[0] = base /\ \A n \in 1 .. N : f[n] = Longer(f[n - 1])
  BY <1>1, <1>6
<1>8. QED
  BY <1>2, <1>7 DEF N, base

(* Appending to a sequence. *)
LEMMA AppendIs ==
    ASSUME NEW R, NEW s \in Seq(R), NEW t \in R
    PROVE  /\ Append(s, t) \in Seq(R) /\ Len(Append(s, t)) = Len(s) + 1 /\ Len(s) \in Nat
           /\ \A n \in 1 .. Len(s) : Append(s, t)[n] = s[n]
           /\ Append(s, t)[Len(s) + 1] = t
           /\ ToSet(s) = {s[n] : n \in 1 .. Len(s)}
           /\ ToSet(Append(s, t)) = ToSet(s) \cup {t}
<1>1. /\ Append(s, t) \in Seq(R) /\ Len(Append(s, t)) = Len(s) + 1 /\ Len(s) \in Nat
      /\ \A n \in 1 .. Len(s) : Append(s, t)[n] = s[n]
      /\ Append(s, t)[Len(s) + 1] = t
      /\ DOMAIN s = 1 .. Len(s)
  OBVIOUS
<1> DEFINE r == Append(s, t)
<1>2. DOMAIN r = 1 .. Len(s) + 1
  BY <1>1
<1> HIDE DEF r
<1>3. \A u : u \in ToSet(r) <=> \E n \in 1 .. Len(s) + 1 : u = r[n]
  BY <1>2 DEF ToSet
<1>4. \A u : u \in ToSet(s) <=> \E n \in 1 .. Len(s) : u = s[n]
  BY <1>1 DEF ToSet
<1>5. \A n : n \in 1 .. Len(s) + 1 <=> n \in 1 .. Len(s) \/ n = Len(s) + 1
  BY <1>1
<1>6. \A n \in 1 .. Len(s) : r[n] = s[n]
  BY <1>1 DEF r
<1>7. r[Len(s) + 1] = t
  BY <1>1 DEF r
<1>8. \A u : u \in ToSet(r) <=> u \in ToSet(s) \/ u = t
  BY <1>3, <1>4, <1>5, <1>6, <1>7
<1>9. ToSet(r) = ToSet(s) \cup {t}
  BY <1>8
<1>10. ToSet(s) = {s[n] : n \in 1 .. Len(s)}
  BY <1>4
<1>11. QED
  BY <1>1, <1>9, <1>10 DEF r

(* The view after a template and one transaction more. *)
LEMMA ViewAppend ==
    ASSUME NEW R, NEW s \in Seq(R), NEW t \in R
    PROVE  ViewAfter(Append(s, t)) = UpdateCoins(ViewAfter(s), t, Height + 1).view
<1> DEFINE r == Append(s, t)
           N == Len(s)
           a == Views(s)
           b == Views(r)
           S == {n \in 0 .. N : a[n] = b[n]}
<1>1. N \in Nat /\ Len(r) = N + 1 /\ (\A n \in 1 .. N : r[n] = s[n]) /\ r[N + 1] = t
  BY AppendIs
<1> HIDE DEF r
<1>2. a[0] = pcoinsTip /\ \A n \in 1 .. N : a[n] = UpdateCoins(a[n - 1], s[n], Height + 1).view
  BY <1>1, ViewsIs
<1>3. b[0] = pcoinsTip /\ \A n \in 1 .. N + 1 : b[n] = UpdateCoins(b[n - 1], r[n], Height + 1).view
  BY <1>1, ViewsIs
<1> HIDE DEF a, b
<1>4. 0 \in S
  BY <1>1, <1>2, <1>3
<1>5. ASSUME NEW n \in 1 .. N, n - 1 \in S PROVE n \in S
  <2>1. a[n - 1] = b[n - 1] /\ n \in 1 .. N + 1 /\ r[n] = s[n]
    BY <1>1, <1>5
  <2>2. a[n] = b[n]
    BY <1>2, <1>3, <2>1
  <2>3. QED
    BY <1>1, <2>2
<1>6. \A n \in 0 .. N : n \in S
  <2> HIDE DEF S, N
  <2>1. QED
    BY <1>1, <1>4, <1>5, Upward
<1>7. a[N] = b[N]
  <2>1. N \in 0 .. N
    BY <1>1
  <2>2. QED
    BY <1>6, <2>1
<1>8. b[N + 1] = UpdateCoins(b[N], t, Height + 1).view
  <2>1. N + 1 \in 1 .. N + 1 /\ N + 1 - 1 = N
    BY <1>1
  <2> HIDE DEF N
  <2>2. QED
    BY <1>1, <1>3, <2>1
<1>9. ViewAfter(r) = b[N + 1] /\ ViewAfter(s) = a[N]
  BY <1>1 DEF ViewAfter, a, b
<1>10. QED
  BY <1>7, <1>8, <1>9 DEF r

-----------------------------------------------------------------------------
(* What a template has *)

(* Where the outpoint is there once the transactions of s are in the block:  *)
(* among their outputs, or in pcoinsTip.                                     *)
Offered(s, out) ==
    IF out[1] \in ToSet(s) THEN out[2] \in Spendable[out[1]] ELSE IsAvailable(pcoinsTip, out)

(* A template is a sequence of transactions of the pool, and the coins after *)
(* it are those of pcoinsTip and its own outputs, but for what it spends.    *)
TemplateIs(s) ==
    /\ s \in Seq(pool.mapTx) /\ ViewOK(ViewAfter(s))
    /\ \A u \in Tx \ ToSet(s) : Get(ViewAfter(s), u).vout \subseteq Get(pcoinsTip, u).vout
    /\ \A out \in Tx \X Nat :
          (\A t \in ToSet(s) : ~Spends(t, out)) => (IsAvailable(ViewAfter(s), out) <=> Offered(s, out))

(* An empty template is as it should be. *)
LEMMA EmptyTemplate == LInv => TemplateIs(<<>>)
<1> SUFFICES ASSUME LInv PROVE TemplateIs(<<>>)
  OBVIOUS
<1>1. ViewAfter(<<>>) = pcoinsTip
  <2> DEFINE s == <<>>
  <2>1. Len(s) = 0
    OBVIOUS
  <2>2. Views(s)[0] = pcoinsTip
    BY <2>1, ViewsIs
  <2> HIDE DEF s
  <2>3. QED
    BY <2>1, <2>2 DEF ViewAfter, s
<1>2. ToSet(<<>>) = {}
  BY DEF ToSet
<1>3. ViewOK(pcoinsTip)
  BY TipIsOK
<1>4. <<>> \in Seq(pool.mapTx)
  OBVIOUS
<1> DEFINE s == <<>>
<1> HIDE DEF s
<1>5. TemplateIs(s)
  BY <1>1, <1>2, <1>3, <1>4 DEF TemplateIs, Offered, s
<1>6. QED
  BY <1>5 DEF s

(* What is taken next updates the coins. *)
LEMMA TakenUpdates ==
    ASSUME LInv, PoolInv(pool), NEW s, TemplateIs(s), NEW t, Taken(s, t)
    PROVE  /\ t \in pool.mapTx /\ t \in Tx /\ t \notin ToSet(s) /\ HaveInputs(ViewAfter(s), t)
           /\ Updated(ViewAfter(s), t, Height + 1, ViewAfter(Append(s, t)))
<1>1. t \in pool.mapTx /\ t \notin ToSet(s) /\ HaveInputs(ViewAfter(s), t) /\ t \in Tx
  BY DEF Taken, Queued, PoolInv
<1>2. ViewAfter(Append(s, t)) = UpdateCoins(ViewAfter(s), t, Height + 1).view
  <2> DEFINE R == pool.mapTx
  <2>1. s \in Seq(R) /\ t \in R
    BY <1>1 DEF TemplateIs
  <2> HIDE DEF R
  <2>2. QED
    BY <2>1, ViewAppend
<1>3. Height + 1 \in Nat \ {0} /\ ViewOK(ViewAfter(s))
  BY TipIsOK DEF Height, TemplateIs
<1> DEFINE v == ViewAfter(s)
           h == Height + 1
<1>4. ViewOK(v) /\ t \in Tx /\ HaveInputs(v, t) /\ h \in Nat \ {0}
  BY <1>1, <1>3
<1> HIDE DEF v, h
<1>5. Updated(v, t, h, UpdateCoins(v, t, h).view)
  BY <1>4, UpdateIs
<1>6. QED
  BY <1>1, <1>2, <1>5 DEF v, h

(* A template with one transaction more is as it should be. *)
LEMMA LongerTemplate ==
    ASSUME LInv, PoolInv(pool), NEW s, TemplateIs(s), NEW t, Taken(s, t)
    PROVE  TemplateIs(Append(s, t))
<1> DEFINE r == Append(s, t)
           v == ViewAfter(s)
           w == ViewAfter(r)
           X == ToSet(s)
<1>1. t \in pool.mapTx /\ t \in Tx /\ t \notin X /\ Updated(v, t, Height + 1, w)
  BY TakenUpdates
<1>2. r \in Seq(pool.mapTx) /\ ToSet(r) = X \cup {t}
  <2> DEFINE R == pool.mapTx
  <2>1. s \in Seq(R) /\ t \in R
    BY <1>1 DEF TemplateIs
  <2> HIDE DEF R
  <2>2. r \in Seq(R) /\ ToSet(r) = X \cup {t}
    BY <2>1, AppendIs
  <2>3. QED
    BY <2>2 DEF R
<1>3. /\ \A u \in Tx \ X : Get(v, u).vout \subseteq Get(pcoinsTip, u).vout
      /\ \A out \in Tx \X Nat :
            (\A u \in X : ~Spends(u, out)) =>
                (IsAvailable(v, out) <=> IF out[1] \in X THEN out[2] \in Spendable[out[1]] ELSE IsAvailable(pcoinsTip, out))
  BY DEF TemplateIs, Offered
<1> HIDE DEF r, v, w, X
<1>4. /\ ViewOK(w) /\ Get(w, t).vout = Spendable[t]
      /\ \A u \in Tx \ {t} : Get(w, u).vout = Get(v, u).vout \ SpentIn(t, u)
  BY <1>1 DEF Updated, Coins
<1>5. \A u \in Tx \ ToSet(r) : Get(w, u).vout \subseteq Get(pcoinsTip, u).vout
  BY <1>2, <1>3, <1>4
<1>6. ASSUME NEW out \in Tx \X Nat, \A u \in ToSet(r) : ~Spends(u, out)
      PROVE  IsAvailable(w, out) <=> IF out[1] \in ToSet(r) THEN out[2] \in Spendable[out[1]] ELSE IsAvailable(pcoinsTip, out)
  <2>1. out[1] \in Tx /\ out[2] \in Nat /\ out = <<out[1], out[2]>>
    OBVIOUS
  <2>2. IsAvailable(v, out) <=> IF out[1] \in X THEN out[2] \in Spendable[out[1]] ELSE IsAvailable(pcoinsTip, out)
    BY <1>2, <1>3, <1>6
  <2>3. out[2] \notin SpentIn(t, out[1])
    <3>1. ~Spends(t, out)
      BY <1>2, <1>6
    <3>2. QED
      BY <2>1, <3>1 DEF SpentIn
  <2>4. CASE out[1] = t
    BY <1>2, <1>4, <2>4 DEF IsAvailable
  <2>5. CASE out[1] # t
    <3>1. IsAvailable(w, out) <=> IsAvailable(v, out)
      BY <1>4, <2>1, <2>3, <2>5 DEF IsAvailable
    <3>2. out[1] \in ToSet(r) <=> out[1] \in X
      BY <1>2, <2>5
    <3>3. QED
      BY <2>2, <3>1, <3>2
  <2>6. QED
    BY <2>4, <2>5
<1>7. r \in Seq(pool.mapTx) /\ ViewAfter(r) = w
  BY <1>2 DEF w
<1>8. QED
  BY <1>4, <1>5, <1>6, <1>7 DEF TemplateIs, Offered, r

(* The block of a template, with c for its coinbase. *)
BlockWith(c, s) == <<c>> \o s

(* ConnectBlock accepts it, and the coins are those after the template, but  *)
(* for the coinbase's.                                                       *)
ConnectsWith(c, s) ==
    LET k == ConnectBlock(pcoinsTip, BlockWith(c, s), Height + 1)
    IN  /\ IsAcc(k) /\ k.ok = TRUE /\ ViewOK(k.view)
        /\ \A u \in Tx \ {c} : Get(k.view, u).vout = Get(ViewAfter(s), u).vout

(* What ConnectBlock has when no transaction was refused and v are its coins. *)
Accepted(a, v) == IsAcc(a) /\ a.ok = TRUE /\ a.view = v

(* ConnectBlock accepts a transaction that has its inputs. *)
LEMMA ConnectTxAccepts ==
    ASSUME NEW a, NEW v, Accepted(a, v), NEW t, HaveInputs(v, t),
           NEW vtx, NEW i, vtx[i] = t, NEW h, NEW e, e = ConnectTx(a, vtx, i, h)
    PROVE  Accepted(e, UpdateCoins(v, t, h).view)
<1> DEFINE u == UpdateCoins(a.view, vtx[i], h)
           b == ConnectTx(a, vtx, i, h)
           k == IF i = 1 THEN a.vtxundo ELSE Append(a.vtxundo, u.undo)
<1>a. IsAcc(a) /\ a.ok = TRUE /\ a.view = v
  BY DEF Accepted
<1>1. b = [a EXCEPT !.view = u.view, !.vtxundo = k]
  BY <1>a DEF ConnectTx
<1> HIDE DEF u, b, k
<1>2. a = [ok |-> a.ok, view |-> a.view, vtxundo |-> a.vtxundo]
  BY <1>a DEF IsAcc
<1>3. b = [ok |-> TRUE, view |-> u.view, vtxundo |-> k]
  BY <1>a, <1>1, <1>2
<1>4. IsAcc(b) /\ b.ok = TRUE /\ b.view = u.view
  BY <1>3 DEF IsAcc
<1>5. QED
  BY <1>a, <1>4 DEF Accepted, b, u

(* The blocks of templates. *)
LEMMA BlockWithIs ==
    ASSUME NEW Q, NEW c \in Q, NEW s \in Seq(Q), NEW t \in Q
    PROVE  /\ BlockWith(c, s) \in Seq(Q) /\ Len(BlockWith(c, s)) = Len(s) + 1
           /\ BlockWith(c, Append(s, t)) = Append(BlockWith(c, s), t)
           /\ ToSet(BlockWith(c, s)) = ToSet(s) \cup {c}
<1> DEFINE a == <<c>>
           b == <<t>>
<1>1. s \in Seq(Q)
  OBVIOUS
<1>2. a \in Seq(Q) /\ b \in Seq(Q) /\ Len(a) = 1 /\ a[1] = c /\ Len(b) = 1 /\ b[1] = t
  OBVIOUS
<1> HIDE DEF a, b
<1>3. /\ a \o s \in Seq(Q) /\ Len(a \o s) = Len(a) + Len(s)
      /\ \A i \in 1 .. Len(a) + Len(s) : (a \o s)[i] = IF i <= Len(a) THEN a[i] ELSE s[i - Len(a)]
  BY <1>1, <1>2, ConcatProperties
<1>4. (a \o s) \o b = a \o (s \o b)
  <2>1. a \in Seq(Q) /\ b \in Seq(Q)
    BY <1>2
  <2>2. QED
    BY <1>1, <2>1, ConcatAssociative, SMTT(30)
<1>5. s \o b = Append(s, t) /\ (a \o s) \o b = Append(a \o s, t)
  <2>1. s \o b = Append(s, t)
    BY <1>1 DEF b
  <2> DEFINE x == a \o s
  <2> HIDE DEF x
  <2>2. x \o b = Append(x, t)
    BY <1>3 DEF b, x
  <2>3. QED
    BY <2>1, <2>2 DEF x
<1>7. Len(s) \in Nat /\ DOMAIN s = 1 .. Len(s)
  BY <1>1
<1> DEFINE x == a \o s
<1>8. DOMAIN x = 1 .. Len(s) + 1 /\ Len(x) = Len(s) + 1
  <2> HIDE DEF x
  <2>1. x \in Seq(Q) /\ Len(x) = Len(s) + 1
    BY <1>2, <1>3, <1>7 DEF x
  <2>2. QED
    BY <2>1
<1>9. x[1] = c /\ \A i \in 1 .. Len(s) : x[i + 1] = s[i]
  <2>1. \A i \in 1 .. Len(s) : i + 1 \in 1 .. Len(a) + Len(s) /\ ~(i + 1 <= Len(a)) /\ i + 1 - Len(a) = i
    BY <1>2, <1>7
  <2>2. 1 \in 1 .. Len(a) + Len(s) /\ 1 <= Len(a)
    BY <1>2, <1>7
  <2> HIDE DEF x
  <2>3. \A i \in 1 .. Len(a) + Len(s) : x[i] = IF i <= Len(a) THEN a[i] ELSE s[i - Len(a)]
    BY <1>3 DEF x
  <2>4. QED
    BY <1>2, <2>1, <2>2, <2>3
<1>10. ToSet(x) = ToSet(s) \cup {c}
  <2> HIDE DEF x
  <2>1. \A i : i \in 1 .. Len(s) + 1 <=> i = 1 \/ (i - 1 \in 1 .. Len(s) /\ i = i - 1 + 1)
    BY <1>7
  <2>2. \A u : u \in ToSet(x) <=> \E i \in 1 .. Len(s) + 1 : u = x[i]
    BY <1>8 DEF ToSet
  <2>3. \A u : u \in ToSet(s) <=> \E i \in 1 .. Len(s) : u = s[i]
    BY <1>7 DEF ToSet
  <2>4. ASSUME NEW u, u \in ToSet(x) PROVE u \in ToSet(s) \cup {c}
    <3>1. PICK i \in 1 .. Len(s) + 1 : u = x[i]
      BY <2>2, <2>4
    <3>2. CASE i = 1
      BY <1>9, <3>1, <3>2
    <3>3. CASE i # 1
      <4>1. i - 1 \in 1 .. Len(s) /\ i = i - 1 + 1
        BY <2>1, <3>3
      <4>2. u = s[i - 1]
        BY <1>9, <3>1, <4>1
      <4>3. QED
        BY <2>3, <4>1, <4>2
    <3>4. QED
      BY <3>2, <3>3
  <2>5. ASSUME NEW u, u \in ToSet(s) \cup {c} PROVE u \in ToSet(x)
    <3>1. CASE u = c
      <4>1. 1 \in 1 .. Len(s) + 1
        BY <1>7
      <4>2. QED
        BY <1>9, <2>2, <3>1, <4>1
    <3>2. CASE u # c
      <4>1. PICK i \in 1 .. Len(s) : u = s[i]
        BY <2>3, <2>5, <3>2
      <4>2. i + 1 \in 1 .. Len(s) + 1 /\ x[i + 1] = u
        BY <1>7, <1>9, <4>1
      <4>3. QED
        BY <2>2, <4>2
    <3>3. QED
      BY <3>1, <3>2
  <2>6. QED
    BY <2>4, <2>5
<1>11. BlockWith(c, s) = x /\ BlockWith(c, Append(s, t)) = a \o Append(s, t)
  BY DEF BlockWith, a
<1>12. QED
  BY <1>3, <1>4, <1>5, <1>8, <1>10, <1>11

(* Connecting a block with one transaction more, when none of them has coins *)
(* yet.                                                                      *)
LEMMA ConnectAppend ==
    ASSUME NEW R, NEW q \in Seq(R), NEW t \in R, NEW v, NEW h,
           \A u \in ToSet(q) \cup {t} : IsPruned(Get(v, u))
    PROVE  ConnectBlock(v, Append(q, t), h) = ConnectTx(ConnectBlock(v, q, h), Append(q, t), Len(q) + 1, h)
<1> DEFINE r == Append(q, t)
           N == Len(q)
           a == Connecting(v, q, h)
           b == Connecting(v, r, h)
           S == {n \in 0 .. N : a[n] = b[n]}
<1>1. N \in Nat /\ Len(r) = N + 1 /\ (\A n \in 1 .. N : r[n] = q[n]) /\ ToSet(r) = ToSet(q) \cup {t}
  BY AppendIs
<1> HIDE DEF r
<1>2. /\ a[0] = [ok |-> \A i \in DOMAIN q : IsPruned(Get(v, q[i])), view |-> v, vtxundo |-> <<>>]
      /\ \A n \in 1 .. N : a[n] = ConnectTx(a[n - 1], q, n, h)
  BY <1>1, ConnectingIs
<1>3. /\ b[0] = [ok |-> \A i \in DOMAIN r : IsPruned(Get(v, r[i])), view |-> v, vtxundo |-> <<>>]
      /\ \A n \in 1 .. N + 1 : b[n] = ConnectTx(b[n - 1], r, n, h)
  <2>1. Len(r) \in Nat
    BY <1>1
  <2>2. /\ b[0] = [ok |-> \A i \in DOMAIN r : IsPruned(Get(v, r[i])), view |-> v, vtxundo |-> <<>>]
        /\ \A n \in 1 .. Len(r) : b[n] = ConnectTx(b[n - 1], r, n, h)
    BY <2>1, ConnectingIs, ZenonT(60)
  <2> HIDE DEF b
  <2>3. QED
    BY <1>1, <2>2
<1> HIDE DEF a, b
<1>4. 0 \in S
  <2>1. (\A i \in DOMAIN q : IsPruned(Get(v, q[i]))) = TRUE /\ (\A i \in DOMAIN r : IsPruned(Get(v, r[i]))) = TRUE
    <3>1. (\A i \in DOMAIN q : q[i] \in ToSet(q)) /\ (\A i \in DOMAIN r : r[i] \in ToSet(r))
      BY DEF ToSet
    <3>2. QED
      BY <1>1, <3>1
  <2>2. a[0] = b[0]
    BY <1>2, <1>3, <2>1
  <2>3. QED
    BY <1>1, <2>2
<1>5. ASSUME NEW n \in 1 .. N, n - 1 \in S PROVE n \in S
  <2>1. a[n - 1] = b[n - 1] /\ n \in 1 .. N + 1 /\ r[n] = q[n]
    BY <1>1, <1>5
  <2>2. ConnectTx(a[n - 1], q, n, h) = ConnectTx(b[n - 1], r, n, h)
    BY <2>1 DEF ConnectTx
  <2>3. a[n] = b[n]
    BY <1>2, <1>3, <2>1, <2>2
  <2>4. QED
    BY <1>1, <2>3
<1>6. \A n \in 0 .. N : n \in S
  <2> HIDE DEF S, N
  <2>1. QED
    BY <1>1, <1>4, <1>5, Upward
<1>7. a[N] = b[N]
  <2>1. N \in 0 .. N
    BY <1>1
  <2>2. QED
    BY <1>6, <2>1
<1>8. b[N + 1] = ConnectTx(b[N], r, N + 1, h)
  <2> DEFINE m == N + 1
  <2>1. m \in 1 .. N + 1 /\ m - 1 = N
    BY <1>1
  <2> HIDE DEF N, m
  <2>2. b[m] = ConnectTx(b[m - 1], r, m, h)
    BY <1>3, <2>1
  <2>3. b[m] = ConnectTx(b[N], r, m, h)
    BY <2>1, <2>2
  <2>4. QED
    BY <2>3 DEF m
<1>9. ConnectBlock(v, r, h) = b[N + 1] /\ ConnectBlock(v, q, h) = a[N]
  BY <1>1 DEF ConnectBlock, a, b
<1>10. QED
  BY <1>7, <1>8, <1>9 DEF r

(* The block with nothing but a coinbase that has no coins yet connects. *)
LEMMA EmptyConnects ==
    ASSUME LInv, NEW c \in CoinBase, IsPruned(Get(pcoinsTip, c))
    PROVE  ConnectsWith(c, <<>>)
<1> DEFINE v == pcoinsTip
           h == Height + 1
           b == <<c>>
           k == Connecting(v, b, h)
<1>1. Len(b) = 1 /\ DOMAIN b = {1} /\ b[1] = c /\ c \in Tx
  BY TxAssumption
<1>2. ViewOK(v) /\ h \in Nat \ {0}
  BY TipIsOK DEF Height
<1>3. BlockWith(c, <<>>) = b
  <2>1. b \in Seq({c})
    OBVIOUS
  <2>2. QED
    BY <2>1, ConcatEmptySeq DEF BlockWith
<1>4. ViewAfter(<<>>) = v /\ IsPruned(Get(v, c))
  <2> DEFINE s == <<>>
  <2>1. Len(s) = 0
    OBVIOUS
  <2>2. Views(s)[0] = pcoinsTip
    BY <2>1, ViewsIs
  <2> HIDE DEF s
  <2>3. QED
    BY <2>1, <2>2 DEF ViewAfter, s
<1> HIDE DEF b, v, h
<1>5. k[0] = [ok |-> TRUE, view |-> v, vtxundo |-> <<>>] /\ k[1] = ConnectTx(k[0], b, 1, h)
  <2>1. /\ k[0] = [ok |-> \A i \in DOMAIN b : IsPruned(Get(v, b[i])), view |-> v, vtxundo |-> <<>>]
        /\ \A n \in 1 .. Len(b) : k[n] = ConnectTx(k[n - 1], b, n, h)
    <3>1. Len(b) \in Nat
      BY <1>1
    <3>2. QED
      BY <3>1, ConnectingIs
  <2>2. (\A i \in DOMAIN b : IsPruned(Get(v, b[i]))) = TRUE
    BY <1>1, <1>4
  <2>3. 1 \in 1 .. Len(b) /\ 1 - 1 = 0
    BY <1>1
  <2> HIDE DEF k
  <2>4. k[1] = ConnectTx(k[1 - 1], b, 1, h)
    BY <2>1, <2>3
  <2>5. QED
    BY <2>1, <2>2, <2>3, <2>4
<1> DEFINE a == k[0]
           e == k[1]
<1>6. IsAcc(a) /\ a.ok = TRUE /\ a.view = v
  <2> HIDE DEF a
  <2>1. a = [ok |-> TRUE, view |-> v, vtxundo |-> <<>>]
    BY <1>5 DEF a
  <2>2. QED
    BY <2>1 DEF IsAcc
<1>7. HaveInputs(a.view, b[1])
  BY <1>1 DEF HaveInputs
<1>8. e = ConnectTx(a, b, 1, h)
  BY <1>5
<1> HIDE DEF k, a, e
<1>9. IsAcc(e) /\ e.ok = TRUE /\ e.view = UpdateCoins(v, c, h).view
  <2>1. HaveInputs(v, c) /\ b[1] = c
    BY <1>1, <1>6, <1>7
  <2>2. Accepted(a, v)
    BY <1>6 DEF Accepted
  <2>3. Accepted(e, UpdateCoins(v, c, h).view)
    BY <1>8, <2>1, <2>2, ConnectTxAccepts
  <2>4. QED
    BY <2>3 DEF Accepted
<1>10. Updated(v, c, h, e.view)
  <2>1. HaveInputs(v, c)
    BY <1>1, <1>6, <1>7
  <2>2. QED
    BY <1>1, <1>2, <1>9, <2>1, UpdateIs
<1>11. \A u : SpentIn(c, u) = {}
  BY DEF SpentIn, Spends
<1>12. ViewOK(e.view) /\ \A u \in Tx \ {c} : Get(e.view, u).vout = Get(v, u).vout
  BY <1>10, <1>11 DEF Updated
<1>13. ConnectBlock(v, b, h) = e
  BY <1>1 DEF ConnectBlock, e, k
<1>14. QED
  BY <1>3, <1>4, <1>9, <1>12, <1>13 DEF ConnectsWith, v, h

(* A template connects with one transaction more. *)
LEMMA LongerConnects ==
    ASSUME LInv, PoolInv(pool), Apart, NEW s, TemplateIs(s), NEW t, Taken(s, t),
           NEW c \in CoinBase \ pool.mapTx, IsPruned(Get(pcoinsTip, c)), ConnectsWith(c, s)
    PROVE  ConnectsWith(c, Append(s, t))
<1> DEFINE r == Append(s, t)
           q == BlockWith(c, s)
           h == Height + 1
           v == ViewAfter(s)
           w == ViewAfter(r)
           k == ConnectBlock(pcoinsTip, q, h)
           e == ConnectBlock(pcoinsTip, BlockWith(c, r), h)
           X == ToSet(s)
<1>1. t \in pool.mapTx /\ t \in Tx /\ t # c /\ HaveInputs(v, t) /\ Updated(v, t, h, w)
  BY TakenUpdates
<1>2. /\ IsAcc(k) /\ k.ok = TRUE /\ ViewOK(k.view)
      /\ \A u \in Tx \ {c} : Get(k.view, u).vout = Get(v, u).vout
  BY DEF ConnectsWith
<1>3. s \in Seq(pool.mapTx) /\ X \subseteq pool.mapTx /\ h \in Nat \ {0} /\ \A u \in Tx \ X : Get(v, u).vout \subseteq Get(pcoinsTip, u).vout
  <2>1. s \in Seq(pool.mapTx) /\ \A u \in Tx \ X : Get(v, u).vout \subseteq Get(pcoinsTip, u).vout
    BY DEF TemplateIs
  <2>2. X \subseteq pool.mapTx
    BY <2>1 DEF ToSet
  <2>3. QED
    BY <2>1, <2>2, TipIsOK DEF Height
<1> DEFINE R == pool.mapTx
           Q == R \cup {c}
<1>4. /\ q \in Seq(Q) /\ BlockWith(c, r) = Append(q, t) /\ Len(q) = Len(s) + 1 /\ Len(s) \in Nat
      /\ ToSet(q) = X \cup {c} /\ t \in Q
  <2>1. s \in Seq(R) /\ t \in Q /\ c \in Q /\ R \subseteq Q
    BY <1>1, <1>3
  <2> HIDE DEF Q, R
  <2>2. s \in Seq(Q)
    BY <2>1, SeqMonotonic
  <2>3. Len(s) \in Nat
    BY <2>2
  <2> HIDE DEF q, r, X
  <2>4. q \in Seq(Q) /\ Len(q) = Len(s) + 1 /\ ToSet(q) = X \cup {c}
    BY <2>1, <2>2, BlockWithIs DEF q, X
  <2>5. BlockWith(c, r) = Append(q, t)
    BY <2>1, <2>2, BlockWithIs DEF q, r
  <2>6. QED
    BY <2>1, <2>3, <2>4, <2>5
<1>5. \A u \in ToSet(q) \cup {t} : IsPruned(Get(pcoinsTip, u))
  <2>1. \A u \in R : IsPruned(Get(pcoinsTip, u))
    BY DEF Apart, Get, IsPruned, Empty
  <2>2. QED
    BY <1>1, <1>3, <1>4, <2>1
<1>6. HaveInputs(k.view, t)
  <2>1. SUFFICES ASSUME t \notin CoinBase, NEW i \in DOMAIN vin[t] PROVE IsAvailable(k.view, vin[t][i])
    BY DEF HaveInputs
  <2> DEFINE out == vin[t][i]
  <2>2. out \in Tx \X Nat /\ IsAvailable(v, out)
    BY <1>1, <2>1, InputsAre DEF HaveInputs
  <2> HIDE DEF out, v, k
  <2>3. out[1] # c
    <3>1. SUFFICES ASSUME out[1] = c PROVE FALSE
      OBVIOUS
    <3>2. c \in Tx \ X
      BY <1>3, TxAssumption
    <3>3. Get(v, c).vout = {}
      BY <1>3, <3>2 DEF IsPruned
    <3>4. QED
      BY <2>2, <3>1, <3>3 DEF IsAvailable
  <2>4. out[1] \in Tx
    BY <2>2
  <2>5. QED
    BY <1>2, <2>2, <2>3, <2>4 DEF IsAvailable, out
<1> HIDE DEF r, q, h, v, w, k, X
<1>7. e = ConnectTx(k, Append(q, t), Len(q) + 1, h)
  <2>1. q \in Seq(Q) /\ t \in Q
    BY <1>4
  <2> HIDE DEF Q, R
  <2>2. ConnectBlock(pcoinsTip, Append(q, t), h) = ConnectTx(ConnectBlock(pcoinsTip, q, h), Append(q, t), Len(q) + 1, h)
    BY <1>5, <2>1, ConnectAppend
  <2>3. QED
    BY <1>4, <2>2 DEF k
<1>8. Append(q, t)[Len(q) + 1] = t
  BY <1>4
<1> HIDE DEF e, Q, R
<1>9. IsAcc(e) /\ e.ok = TRUE /\ e.view = UpdateCoins(k.view, t, h).view
  <2> DEFINE b == Append(q, t)
             i == Len(q) + 1
  <2>1. e = ConnectTx(k, b, i, h) /\ b[i] = t
    BY <1>7, <1>8
  <2> HIDE DEF b, i
  <2> DEFINE x == k.view
  <2>2. Accepted(k, x) /\ HaveInputs(x, t)
    BY <1>2, <1>6 DEF Accepted
  <2> HIDE DEF x
  <2>3. Accepted(e, UpdateCoins(x, t, h).view)
    BY <2>1, <2>2, ConnectTxAccepts
  <2>4. QED
    BY <2>3 DEF Accepted, x
<1>10. Updated(k.view, t, h, e.view)
  BY <1>1, <1>2, <1>3, <1>6, <1>9, UpdateIs
<1>11. ViewOK(e.view) /\ \A u \in Tx \ {c} : Get(e.view, u).vout = Get(w, u).vout
  <2>1. /\ Get(e.view, t) = Coins(t, h) /\ Get(w, t) = Coins(t, h) /\ ViewOK(e.view)
        /\ \A u \in Tx \ {t} : /\ Get(e.view, u).vout = Get(k.view, u).vout \ SpentIn(t, u)
                               /\ Get(w, u).vout = Get(v, u).vout \ SpentIn(t, u)
    BY <1>1, <1>10 DEF Updated
  <2>2. QED
    BY <1>2, <2>1
<1>12. QED
  BY <1>9, <1>11 DEF ConnectsWith, e, h, w, r

(* Every template is as it should be, and connects after any coinbase that   *)
(* is neither in the pool nor has unspent outputs.                           *)
SoundTemplate(s) ==
    /\ TemplateIs(s)
    /\ \A c \in CoinBase \ pool.mapTx : IsPruned(Get(pcoinsTip, c)) => ConnectsWith(c, s)

(* Every template that CreateNewBlock may build is sound. *)
LEMMA TemplatesAreSound ==
    ASSUME LInv, PoolInv(pool), Apart
    PROVE  \A s \in Templates : SoundTemplate(s)
<1> DEFINE N == Cardinality(pool.mapTx)
           T == {n \in 0 .. N : \A s \in Building[n] : SoundTemplate(s)}
<1>1. N \in Nat
  BY FS_CardinalityType DEF Apart
<1>2. Building[0] = {<<>>} /\ \A n \in 1 .. N : Building[n] = Longer(Building[n - 1])
  BY <1>1, BuildingIs
<1>3. 0 \in T
  <2>1. TemplateIs(<<>>)
    BY EmptyTemplate
  <2>2. \A c \in CoinBase \ pool.mapTx : IsPruned(Get(pcoinsTip, c)) => ConnectsWith(c, <<>>)
    BY EmptyConnects
  <2>3. SoundTemplate(<<>>)
    BY <2>1, <2>2 DEF SoundTemplate
  <2>4. \A s \in Building[0] : SoundTemplate(s)
    BY <1>2, <2>3
  <2>5. QED
    BY <1>1, <2>4
<1>4. ASSUME NEW s, SoundTemplate(s), NEW t \in pool.mapTx, Taken(s, t) PROVE SoundTemplate(Append(s, t))
  <2>1. TemplateIs(s)
    BY <1>4 DEF SoundTemplate
  <2>2. TemplateIs(Append(s, t))
    BY <1>4, <2>1, LongerTemplate
  <2>3. ASSUME NEW c \in CoinBase \ pool.mapTx, IsPruned(Get(pcoinsTip, c)) PROVE ConnectsWith(c, Append(s, t))
    <3>1. ConnectsWith(c, s)
      BY <1>4, <2>3 DEF SoundTemplate
    <3>2. QED
      BY <1>4, <2>1, <2>3, <3>1, LongerConnects
  <2>4. QED
    BY <2>2, <2>3 DEF SoundTemplate
<1>5. ASSUME NEW n \in 1 .. N, n - 1 \in T PROVE n \in T
  <2>1. \A s \in Building[n - 1] : SoundTemplate(s)
    BY <1>5
  <2>2. ASSUME NEW s \in Building[n] PROVE SoundTemplate(s)
    <3>1. s \in Longer(Building[n - 1])
      BY <1>2, <2>2
    <3>2. s \in Building[n - 1] \/ \E r \in Building[n - 1] : \E t \in pool.mapTx : Taken(r, t) /\ s = Append(r, t)
      <4> DEFINE U == Building[n - 1]
      <4>1. s \in Longer(U)
        BY <3>1
      <4> HIDE DEF U
      <4>2. s \in U \/ \E r \in U : \E t \in pool.mapTx : Taken(r, t) /\ s = Append(r, t)
        BY <4>1 DEF Longer
      <4>3. QED
        BY <4>2 DEF U
    <3>3. QED
      BY <1>4, <2>1, <3>2
  <2>3. QED
    BY <1>1, <2>2
<1>6. \A n \in 0 .. N : n \in T
  <2> HIDE DEF T, N
  <2>1. QED
    BY <1>1, <1>3, <1>5, Upward
<1>7. N \in T
  <2>1. N \in 0 .. N
    BY <1>1
  <2>2. QED
    BY <1>6, <2>1
<1>8. QED
  BY <1>7 DEF Templates

-----------------------------------------------------------------------------
(* What CreateNewBlock may make of the pool *)

(* A transaction that has its inputs after the template is in the queue.     *)
LEMMA ReadyIsQueued ==
    ASSUME PoolInv(pool), NEW s, TemplateIs(s), NEW t \in pool.mapTx \ ToSet(s), HaveInputs(ViewAfter(s), t)
    PROVE  Queued(t, ToSet(s))
<1> DEFINE v == ViewAfter(s)
           X == ToSet(s)
<1>1. X \subseteq pool.mapTx /\ t \in Tx /\ \A u \in Tx \ X : Get(v, u).vout \subseteq Get(pcoinsTip, u).vout
  <2>1. s \in Seq(pool.mapTx) /\ t \in Tx /\ \A u \in Tx \ X : Get(v, u).vout \subseteq Get(pcoinsTip, u).vout
    BY DEF TemplateIs, PoolInv
  <2>2. X \subseteq pool.mapTx
    BY <2>1 DEF ToSet
  <2>3. QED
    BY <2>1, <2>2
<1> HIDE DEF X, v
<1>2. ASSUME NEW out \in prevouts(t) \ {Null} PROVE HaveCoins(out) \/ out[1] \in X
  <2>1. SUFFICES ASSUME out[1] \notin X PROVE out[1] \in DOMAIN pcoinsTip
    BY DEF HaveCoins
  <2>2. t \notin CoinBase
    BY <1>1, <1>2, PrevoutsAre
  <2>3. PICK i \in DOMAIN vin[t] : out = vin[t][i]
    BY <1>2, <2>2 DEF prevouts, ToSet
  <2>4. IsAvailable(v, out) /\ out[1] \in Tx
    <3>1. out \in Tx \X Nat
      BY <1>1, <1>2, <2>2, PrevoutsAre
    <3>2. QED
      BY <2>2, <2>3, <3>1 DEF HaveInputs, v
  <2>5. out[2] \in Get(pcoinsTip, out[1]).vout
    BY <1>1, <2>1, <2>4 DEF IsAvailable
  <2>6. QED
    BY <2>5 DEF Get, Empty
<1>3. QED
  BY <1>1, <1>2 DEF Queued, Missing, setDependsOn, X

(* A transaction in the queue has its inputs after the template, unless it   *)
(* spends a coinbase that has left the chain.                                *)
LEMMA QueuedIsReady ==
    ASSUME AInv, NEW s, TemplateIs(s), NEW t \in pool.mapTx \ ToSet(s), Queued(t, ToSet(s)), ~SpendsLost(t)
    PROVE  HaveInputs(ViewAfter(s), t)
<1> DEFINE v == ViewAfter(s)
           X == ToSet(s)
<1>1. /\ PoolInv(pool) /\ HaveAll(pool, pcoinsTip, InChain(chain)) /\ ChainOK(chain)
      /\ pool.mapTx \cap DOMAIN pcoinsTip = {} /\ t \in Tx
  BY DEF AInv, NInv, HInv, PInv, LInv, ChainInv, Apart, PoolInv
<1>2. X \subseteq pool.mapTx
  <2>1. s \in Seq(pool.mapTx)
    BY DEF TemplateIs
  <2>2. QED
    BY <2>1 DEF ToSet
<1>3. SUFFICES ASSUME t \notin CoinBase, NEW i \in DOMAIN vin[t] PROVE IsAvailable(v, vin[t][i])
  BY DEF HaveInputs
<1> DEFINE out == vin[t][i]
<1>4. out \in prevouts(t) /\ out \in Tx \X Nat /\ out # Null
  <2>1. out \in prevouts(t)
    BY <1>3 DEF prevouts, ToSet
  <2>2. QED
    BY <1>1, <1>3, <2>1, PrevoutsAre
<1> HIDE DEF out
<1>5. \A u \in X : ~Spends(u, out)
  <2>1. SUFFICES ASSUME NEW u \in X, Spends(u, out) PROVE FALSE
    OBVIOUS
  <2>2. u \in pool.mapTx \ CoinBase /\ out \in prevouts(u)
    BY <1>2, <2>1 DEF Spends, prevouts
  <2>3. pool.mapNextTx[out] = u /\ pool.mapNextTx[out] = t
    BY <1>1, <1>3, <1>4, <2>2 DEF PoolInv
  <2>4. QED
    BY <2>1, <2>3
<1>6. IsAvailable(v, out) <=> Offered(s, out)
  BY <1>4, <1>5 DEF TemplateIs
<1>7. Offered(s, out)
  <2>1. HasInput(pool, pcoinsTip, InChain(chain), out)
    BY <1>1, <1>3, <1>4 DEF HaveAll
  <2>2. CASE IsAvailable(pcoinsTip, out)
    <3>1. out[1] \in DOMAIN pcoinsTip
      BY <2>2 DEF IsAvailable, Get, Empty
    <3>2. QED
      BY <1>1, <1>2, <2>2, <3>1 DEF Offered
  <2>3. CASE out[1] \in pool.mapTx /\ out[2] \in Spendable[out[1]]
    <3>1. ~HaveCoins(out)
      BY <1>1, <2>3 DEF HaveCoins
    <3>2. out[1] \in X
      BY <1>4, <3>1 DEF Queued, setDependsOn
    <3>3. QED
      BY <2>3, <3>2 DEF Offered
  <2>4. CASE out[1] \in CoinBase /\ out[1] \notin InChain(chain) /\ out[1] \notin pool.mapTx
    <3>1. \A h \in DOMAIN chain : out[1] \notin ToSet(chain[h].vtx)
      BY <1>1, <2>4, InNoBlock
    <3>2. SpendsLost(t)
      BY <1>4, <2>4, <3>1 DEF SpendsLost
    <3>3. QED
      BY <3>2
  <2>5. QED
    BY <2>1, <2>2, <2>3, <2>4 DEF HasInput
<1>8. QED
  BY <1>6, <1>7 DEF out

(* So the queue is exact and the block connects. *)
LEMMA TemplatesAreExact == AInv => TemplatesConnect
<1> SUFFICES ASSUME AInv PROVE TemplatesConnect
  OBVIOUS
<1>1. PoolInv(pool) /\ \A s \in Templates : SoundTemplate(s)
  BY TemplatesAreSound DEF AInv, NInv, HInv, PInv
<1>2. QueueIsExact
  <2>1. SUFFICES ASSUME NEW s \in Templates, NEW t \in pool.mapTx \ ToSet(s)
                 PROVE  /\ HaveInputs(ViewAfter(s), t) => Queued(t, ToSet(s))
                        /\ Queued(t, ToSet(s)) /\ ~SpendsLost(t) => HaveInputs(ViewAfter(s), t)
    BY DEF QueueIsExact
  <2>2. TemplateIs(s)
    BY <1>1 DEF SoundTemplate
  <2>3. QED
    BY <1>1, <2>2, ReadyIsQueued, QueuedIsReady
<1>3. FinishedConnect
  <2>1. ASSUME NEW s \in Templates, NEW c \in CoinBase \ pool.mapTx, IsPruned(Get(pcoinsTip, c))
        PROVE  ConnectBlock(pcoinsTip, <<c>> \o s, Height + 1).ok
    <3>1. ConnectsWith(c, s)
      BY <1>1, <2>1 DEF SoundTemplate
    <3>2. QED
      BY <3>1 DEF ConnectsWith, BlockWith
  <2>2. QED
    BY <2>1 DEF FinishedConnect
<1>4. QED
  BY <1>2, <1>3 DEF TemplatesConnect

(* The pool and the cache stay apart as long as no coinbase is repeated. *)
THEOREM ApartInvariant == Spec /\ []SeenOnce /\ [][NotSeenBefore]_vars => []AInv
<1>1. AInv /\ SeenOnce /\ [Next]_vars /\ [NotSeenBefore]_vars => AInv'
  BY ApartStep
<1>2. QED
  BY <1>1, ApartInit, PTL DEF Spec

(* As long as no coinbase is twice in the chain, or comes to the pool when   *)
(* it is in the chain: whatever CreateNewBlock has taken from the pool, its  *)
(* queue has exactly the transactions whose inputs are there, and what it    *)
(* took connects to the tip, so that it never throws "ConnectBlock failed".  *)
THEOREM TemplatesConnectAlways == Spec /\ []SeenOnce /\ [][NotSeenBefore]_vars => []TemplatesConnect
BY ApartInvariant, TemplatesAreExact, PTL

-----------------------------------------------------------------------------
(* What connecting a block takes from the pool *)

(* As ConnectTip goes through the block the index stays exact and the pool   *)
(* only shrinks.                                                             *)
LEMMA ConfirmingOnly ==
    ASSUME PoolInv(pool), NEW vtx \in Blocks
    PROVE  \A n \in 0 .. Len(vtx) :
              /\ PoolInv(Confirming(vtx)[n])
              /\ \A m \in 0 .. n : Confirming(vtx)[n].mapTx \subseteq Confirming(vtx)[m].mapTx
<1> DEFINE N == Len(vtx)
           k == Confirming(vtx)
           S == {n \in 0 .. N : PoolInv(k[n]) /\ \A m \in 0 .. n : k[n].mapTx \subseteq k[m].mapTx}
<1>1. N \in Nat
  BY BlockIs
<1>2. k[0] = pool /\ \A n \in 1 .. N : k[n] = Confirm(k[n - 1], vtx[n])
  BY <1>1, ConfirmingIs
<1> HIDE DEF k
<1>3. 0 \in S
  <2>1. \A m \in 0 .. 0 : m = 0
    OBVIOUS
  <2>2. QED
    BY <1>1, <1>2, <2>1
<1>4. ASSUME NEW n \in 1 .. N, n - 1 \in S PROVE n \in S
  <2>1. PoolInv(k[n - 1]) /\ \A m \in 0 .. n - 1 : k[n - 1].mapTx \subseteq k[m].mapTx
    BY <1>4
  <2>2. PoolInv(k[n]) 
    BY <1>2, <2>1, ConfirmKeeps
  <2>3. k[n].mapTx \subseteq k[n - 1].mapTx
    BY <1>2, ConfirmShrinks
  <2>4. \A m \in 0 .. n : m \in 0 .. n - 1 \/ m = n
    BY <1>1
  <2>5. \A m \in 0 .. n : k[n].mapTx \subseteq k[m].mapTx
    BY <2>1, <2>3, <2>4
  <2>6. QED
    BY <1>1, <2>2, <2>5
<1>5. \A n \in 0 .. N : n \in S
  <2> HIDE DEF S, N
  <2>1. QED
    BY <1>1, <1>3, <1>4, Upward
<1>6. QED
  BY <1>5 DEF k

(* As ConnectBlock goes through the block, a transaction that it has passed  *)
(* or that is not in it only loses outputs: what is spent stays spent.       *)
LEMMA OnlySpent ==
    ASSUME NEW v, NEW vtx, NEW h, Fits(v, vtx, h)
    PROVE  \A m \in 0 .. Len(vtx) : \A i \in 0 .. m : \A u \in Tx :
              (\A j \in i + 1 .. m : vtx[j] # u) =>
                 Get(Connecting(v, vtx, h)[m].view, u).vout \subseteq Get(Connecting(v, vtx, h)[i].view, u).vout
<1> DEFINE N == Len(vtx)
           c == Connecting(v, vtx, h)
           Fewer(m) == \A i \in 0 .. m : \A u \in Tx :
                         (\A j \in i + 1 .. m : vtx[j] # u) => Get(c[m].view, u).vout \subseteq Get(c[i].view, u).vout
           S == {m \in 0 .. N : Fewer(m)}
<1>1. N \in Nat /\ vtx \in Blocks /\ h \in Nat \ {0} /\ \A i \in 1 .. N : vtx[i] \in Tx
  BY BlockIs DEF Fits
<1>2. 0 \in S
  <2>1. \A i \in 0 .. 0 : i = 0
    OBVIOUS
  <2> HIDE DEF c
  <2>2. QED
    BY <1>1, <2>1
<1>3. ASSUME NEW m \in 1 .. N, m - 1 \in S PROVE m \in S
  <2> DEFINE x == c[m - 1].view
             y == c[m].view
             t == vtx[m]
  <2>1. ConnectedTo(v, vtx, h, c[m - 1], m - 1)
    <3>1. m - 1 \in 0 .. Len(vtx)
      BY <1>1
    <3>2. QED
      BY <3>1, ConnectingAll
  <2>2. HaveInputs(x, t) /\ y = UpdateCoins(x, t, h).view
    BY <2>1, ConnectStep
  <2>3. ViewOK(x) /\ t \in Tx
    BY <1>1, <2>1 DEF ConnectedTo
  <2>4. Updated(x, t, h, y)
    <3> HIDE DEF x, y, t
    <3>1. QED
      BY <1>1, <2>2, <2>3, UpdateIs
  <2>5. Fewer(m - 1)
    BY <1>3
  <2> HIDE DEF t
  <2>6. \A u \in Tx \ {t} : Get(c[m].view, u).vout \subseteq Get(c[m - 1].view, u).vout
    BY <2>4 DEF Updated
  <2> HIDE DEF c, x, y
  <2>7. ASSUME NEW i \in 0 .. m, NEW u \in Tx, \A j \in i + 1 .. m : vtx[j] # u
        PROVE  Get(c[m].view, u).vout \subseteq Get(c[i].view, u).vout
    <3>1. CASE i = m
      BY <3>1
    <3>2. CASE i # m
      <4>1. i \in 0 .. m - 1 /\ m \in i + 1 .. m /\ \A j \in i + 1 .. m - 1 : j \in i + 1 .. m
        BY <1>1, <3>2
      <4>2. u # t
        BY <2>7, <4>1 DEF t
      <4>3. Get(c[m - 1].view, u).vout \subseteq Get(c[i].view, u).vout
        BY <2>5, <2>7, <4>1
      <4>4. QED
        BY <2>6, <4>2, <4>3
    <3>3. QED
      BY <3>1, <3>2
  <2>8. QED
    BY <1>1, <2>7
<1>4. \A m \in 0 .. N : m \in S
  <2> HIDE DEF S, N
  <2>1. QED
    BY <1>1, <1>2, <1>3, Upward
<1>5. QED
  BY <1>4

(* The coins of ConnectBlock after n transactions. *)
CoinsAfter(vtx, n) == Connecting(pcoinsTip, vtx, Height + 1)[n].view

(* A transaction that an input is missing for from the i-th transaction of   *)
(* the block on.                                                             *)
Dead(vtx, i, d) ==
    /\ d \in Tx \ CoinBase
    /\ \E out \in prevouts(d) :
          /\ out[1] \notin PoolConnected(vtx).mapTx
          /\ \A m \in i .. Len(vtx) : ~IsAvailable(CoinsAfter(vtx, m), out)

(* ConnectBlock finds the inputs of each transaction of the block in the     *)
(* coins before it, where the later transactions have none; of what is not   *)
(* in the block outputs only go.                                             *)
LEMMA CoinsAfterAre ==
    ASSUME LInv, NEW vtx \in Blocks, Connected(vtx).ok
    PROVE  /\ CoinsAfter(vtx, 0) = pcoinsTip /\ CoinsAfter(vtx, Len(vtx)) = Connected(vtx).view
           /\ \A n \in 1 .. Len(vtx) :
                 /\ HaveInputs(CoinsAfter(vtx, n - 1), vtx[n])
                 /\ Updated(CoinsAfter(vtx, n - 1), vtx[n], Height + 1, CoinsAfter(vtx, n))
                 /\ \A j \in n .. Len(vtx) : IsPruned(Get(CoinsAfter(vtx, n - 1), vtx[j]))
           /\ \A m \in 0 .. Len(vtx) : \A i \in 0 .. m : \A u \in Tx :
                 (\A j \in i + 1 .. m : vtx[j] # u) =>
                    Get(CoinsAfter(vtx, m), u).vout \subseteq Get(CoinsAfter(vtx, i), u).vout
<1> DEFINE N == Len(vtx)
           h == Height + 1
           v == pcoinsTip
           c == Connecting(v, vtx, h)
<1>1. N \in Nat /\ \A i \in 1 .. N : vtx[i] \in Tx
  BY BlockIs
<1>2. Fits(v, vtx, h)
  <2>1. ViewOK(v) /\ Len(chain) \in Nat
    BY TipIsOK
  <2>2. Connected(vtx) = ConnectBlock(v, vtx, h)
    BY DEF Connected
  <2>3. h \in Nat \ {0}
    BY <2>1 DEF Height
  <2>4. QED
    BY <2>1, <2>2, <2>3 DEF Fits
<1>3. Connected(vtx).view = c[N].view
  BY DEF Connected, ConnectBlock
<1>4. c[0].view = v
  <2>1. c[0] = [ok |-> \A i \in DOMAIN vtx : IsPruned(Get(v, vtx[i])), view |-> v, vtxundo |-> <<>>]
    BY <1>1, ConnectingIs
  <2> HIDE DEF c
  <2>2. QED
    BY <2>1
<1>5. \A n : CoinsAfter(vtx, n) = c[n].view
  BY DEF CoinsAfter
<1> HIDE DEF h, v
<1>6. ASSUME NEW n \in 1 .. N
      PROVE  /\ HaveInputs(c[n - 1].view, vtx[n]) /\ Updated(c[n - 1].view, vtx[n], h, c[n].view)
             /\ \A j \in n .. N : IsPruned(Get(c[n - 1].view, vtx[j]))
  <2> DEFINE x == c[n - 1].view
             y == c[n].view
             u == vtx[n]
  <2>1. ConnectedTo(v, vtx, h, c[n - 1], n - 1)
    <3>1. n - 1 \in 0 .. Len(vtx)
      BY <1>1
    <3>2. QED
      BY <1>2, <3>1, ConnectingAll
  <2>2. HaveInputs(x, u) /\ y = UpdateCoins(x, u, h).view
    BY <1>2, <2>1, ConnectStep
  <2>3. ViewOK(x) /\ u \in Tx /\ h \in Nat \ {0} /\ \A j \in n - 1 + 1 .. N : IsPruned(Get(x, vtx[j]))
    BY <1>1, <1>2, <2>1 DEF ConnectedTo, Fits
  <2>4. Updated(x, u, h, y)
    <3> HIDE DEF x, y, u
    <3>1. QED
      BY <2>2, <2>3, UpdateIs
  <2>5. n - 1 + 1 = n
    BY <1>1
  <2>6. QED
    BY <2>2, <2>3, <2>4, <2>5
<1>7. \A m \in 0 .. N : \A i \in 0 .. m : \A u \in Tx :
         (\A j \in i + 1 .. m : vtx[j] # u) => Get(c[m].view, u).vout \subseteq Get(c[i].view, u).vout
  BY <1>2, OnlySpent
<1> HIDE DEF c
<1>8. QED
  BY <1>3, <1>4, <1>5, <1>6, <1>7 DEF h, v

(* No such transaction follows in the block: it would have its inputs. *)
LEMMA DeadDoNotFollow ==
    ASSUME LInv, NEW vtx \in Blocks, Connected(vtx).ok, NEW i \in 1 .. Len(vtx), NEW d, Dead(vtx, i, d),
           NEW j \in i + 1 .. Len(vtx), vtx[j] = d
    PROVE  FALSE
<1>1. Len(vtx) \in Nat
  BY BlockIs
<1>2. j \in 1 .. Len(vtx) /\ j - 1 \in i .. Len(vtx)
  BY <1>1
<1>3. d \in Tx \ CoinBase
  BY DEF Dead
<1>4. PICK out \in prevouts(d) : \A m \in i .. Len(vtx) : ~IsAvailable(CoinsAfter(vtx, m), out)
  BY DEF Dead
<1>5. HaveInputs(CoinsAfter(vtx, j - 1), d)
  BY <1>2, CoinsAfterAre
<1>6. PICK l \in DOMAIN vin[d] : out = vin[d][l]
  BY <1>3, <1>4 DEF prevouts, ToSet
<1>7. IsAvailable(CoinsAfter(vtx, j - 1), out)
  BY <1>3, <1>5, <1>6 DEF HaveInputs
<1>8. QED
  BY <1>2, <1>4, <1>7

(* What spends the same as the i-th transaction has lost that input. *)
LEMMA ConflictIsDead ==
    ASSUME LInv, NoneIsConfirmed, PoolInv(pool), NEW vtx \in Blocks, Connected(vtx).ok, NEW i \in 1 .. Len(vtx),
           NEW d \in Tx \ CoinBase, NEW out \in prevouts(d), out \in prevouts(vtx[i])
    PROVE  Dead(vtx, i, d)
<1> DEFINE N == Len(vtx)
           t == vtx[i]
           x == CoinsAfter(vtx, i - 1)
           y == CoinsAfter(vtx, i)
<1>1. N \in Nat /\ t \in Tx /\ i - 1 \in 0 .. N /\ i \in 0 .. N
  BY BlockIs
<1>2. out \in Tx \X Nat /\ Null \notin prevouts(d)
  BY PrevoutsAre
<1>3. out = <<out[1], out[2]>> /\ out[1] \in Tx /\ out[2] \in Nat
  BY <1>2
<1>4. t \notin CoinBase
  <2>1. t \in CoinBase => prevouts(t) = {Null}
    BY <1>1, PrevoutsAre
  <2>2. QED
    BY <1>2, <2>1
<1>5. /\ HaveInputs(x, t) /\ Updated(x, t, Height + 1, y)
      /\ \A j \in i .. N : IsPruned(Get(x, vtx[j]))
  BY CoinsAfterAre
<1> HIDE DEF x, y
<1>6. out[2] \in Get(x, out[1]).vout
  <2>1. PICK l \in DOMAIN vin[t] : out = vin[t][l]
    BY <1>4 DEF prevouts, ToSet
  <2>2. QED
    BY <1>4, <1>5, <2>1 DEF HaveInputs, IsAvailable
<1>7. \A j \in i .. N : vtx[j] # out[1]
  BY <1>5, <1>6 DEF IsPruned
<1>8. out[2] \notin Get(y, out[1]).vout
  <2>1. i \in i .. N
    BY <1>1
  <2>2. out[1] \in Tx \ {t}
    BY <1>3, <1>7, <2>1
  <2>3. Get(y, out[1]).vout = Get(x, out[1]).vout \ SpentIn(t, out[1])
    BY <1>5, <2>2 DEF Updated
  <2>4. Spends(t, out)
    BY <1>1, <1>4, SpendsIs
  <2>5. out[2] \in SpentIn(t, out[1])
    BY <1>3, <2>4 DEF SpentIn
  <2>6. QED
    BY <2>3, <2>5
<1>9. ASSUME NEW m \in i .. N PROVE ~IsAvailable(CoinsAfter(vtx, m), out)
  <2>1. m \in 0 .. N /\ i \in 0 .. m /\ \A j \in i + 1 .. m : j \in i .. N
    BY <1>1
  <2>2. \A j \in i + 1 .. m : vtx[j] # out[1]
    BY <1>7, <2>1
  <2>3. Get(CoinsAfter(vtx, m), out[1]).vout \subseteq Get(y, out[1]).vout
    BY <1>3, <2>1, <2>2, CoinsAfterAre DEF y
  <2>4. QED
    BY <1>8, <2>3 DEF IsAvailable
<1>10. out[1] \notin PoolConnected(vtx).mapTx
  <2>1. PoolConnected(vtx).mapTx \subseteq pool.mapTx \ {vtx[j] : j \in 1 .. N}
    <3>1. N \in 0 .. N
      BY <1>1
    <3>2. QED
      BY <3>1, ConfirmingShrinks DEF PoolConnected
  <2>2. SUFFICES ASSUME out[1] \in pool.mapTx, \A j \in 1 .. N : vtx[j] # out[1] PROVE FALSE
    BY <2>1
  <2>3. \A j \in 0 + 1 .. i - 1 : j \in 1 .. N
    BY <1>1
  <2>4. 0 \in 0 .. i - 1 
    BY <1>1
  <2>5. Get(x, out[1]).vout \subseteq Get(CoinsAfter(vtx, 0), out[1]).vout
    BY <1>1, <1>3, <2>2, <2>3, <2>4, CoinsAfterAre DEF x
  <2>6. CoinsAfter(vtx, 0) = pcoinsTip
    BY CoinsAfterAre
  <2>7. Get(pcoinsTip, out[1]).vout = {}
    BY <2>2 DEF NoneIsConfirmed, IsPruned
  <2>8. QED
    BY <1>6, <2>5, <2>6, <2>7
<1>11. QED
  BY <1>9, <1>10 DEF Dead

(* What spends an output of such a transaction is one too, if that has left  *)
(* the pool and is not mined by then: it has no outputs in the chain either. *)
LEMMA ChildIsDead ==
    ASSUME LInv, NoneIsConfirmed, PoolInv(pool), NEW vtx \in Blocks, Connected(vtx).ok, NEW i \in 1 .. Len(vtx),
           NEW d \in pool.mapTx, Dead(vtx, i, d), d \notin PoolConnected(vtx).mapTx, \A j \in 1 .. i : vtx[j] # d,
           NEW e \in Tx \ CoinBase, NEW out \in prevouts(e), out[1] = d
    PROVE  Dead(vtx, i, e)
<1>1. Len(vtx) \in Nat
  BY BlockIs
<1>2. ASSUME NEW j \in 1 .. Len(vtx) PROVE vtx[j] # d
  <2>1. j \in 1 .. i \/ j \in i + 1 .. Len(vtx)
    BY <1>1
  <2>2. QED
    BY <2>1, DeadDoNotFollow
<1>3. d \in Tx /\ Get(pcoinsTip, d).vout = {}
  BY DEF NoneIsConfirmed, IsPruned, PoolInv
<1>4. ASSUME NEW m \in i .. Len(vtx) PROVE ~IsAvailable(CoinsAfter(vtx, m), out)
  <2>1. m \in 0 .. Len(vtx) /\ 0 \in 0 .. m /\ \A j \in 0 + 1 .. m : j \in 1 .. Len(vtx)
    BY <1>1
  <2>2. \A j \in 0 + 1 .. m : vtx[j] # d
    BY <1>2, <2>1
  <2>3. Get(CoinsAfter(vtx, m), d).vout \subseteq Get(CoinsAfter(vtx, 0), d).vout
    BY <1>3, <2>1, <2>2, CoinsAfterAre
  <2>4. CoinsAfter(vtx, 0) = pcoinsTip
    BY CoinsAfterAre
  <2>5. QED
    BY <1>3, <2>3, <2>4 DEF IsAvailable
<1>5. QED
  BY <1>4 DEF Dead

(* A loose coinbase and what descends from it. *)
OfCoinBases == WithDescendants(pool, pool.mapTx \cap CoinBase)

(* What the i-th transaction of a block takes from the pool is itself, loose *)
(* coinbases with what descends from them, and what can no longer be mined.  *)
LEMMA OnlyTheDead ==
    ASSUME LInv, NoneIsConfirmed, PoolInv(pool), NEW vtx \in Blocks, Connected(vtx).ok, NEW i \in 1 .. Len(vtx),
           NEW t \in Confirming(vtx)[i - 1].mapTx \ Confirming(vtx)[i].mapTx, t # vtx[i]
    PROVE  t \in OfCoinBases \/ Dead(vtx, i, t)
<1> DEFINE N == Len(vtx)
           p == Confirming(vtx)[i - 1]
           r == Confirming(vtx)[i]
           u == vtx[i]
           q == remove(p, {u})
           conflicts == {q.mapNextTx[out] : out \in prevouts(u) \cap DOMAIN q.mapNextTx} \ {u}
           D == WithDescendants(q, conflicts)
           C == {d \in D : d \in OfCoinBases \/ Dead(vtx, i, d)}
<1>1. N \in Nat /\ u \in Tx /\ i - 1 \in 0 .. N /\ i \in 0 .. N /\ N \in 0 .. N
  BY BlockIs
<1>2. PoolInv(p) /\ r = Confirm(p, u)
  <2>1. PoolInv(p)
    BY <1>1, ConfirmingOnly
  <2>2. r = Confirm(p, u)
    BY <1>1, ConfirmingIs
  <2>3. QED
    BY <2>1, <2>2
<1>3. p.mapTx \subseteq pool.mapTx \ {vtx[j] : j \in 1 .. i - 1}
  BY <1>1, ConfirmingShrinks
<1>4. PoolConnected(vtx).mapTx \subseteq r.mapTx
  BY <1>1, ConfirmingOnly DEF PoolConnected
<1>5. t \in p.mapTx \ r.mapTx
  OBVIOUS
<1> HIDE DEF p, r
<1>6. r = remove(q, D)
  BY <1>2 DEF Confirm, removeConflicts
<1>7. PoolInv(q) /\ q.mapTx = p.mapTx \ {u}
  BY <1>2, RemoveIsExact
<1> HIDE DEF q
<1>8. r.mapTx = q.mapTx \ D
  <2> HIDE DEF D
  <2>1. QED
    BY <1>6, RemovedOnly
<1>9. conflicts \subseteq q.mapTx
  BY <1>7 DEF PoolInv
<1>10. t \in D
  <2> HIDE DEF D
  <2>1. QED
    BY <1>5, <1>7, <1>8
<1>11. ASSUME NEW d \in conflicts PROVE d \in OfCoinBases \/ Dead(vtx, i, d)
  <2>1. PICK out \in prevouts(u) \cap DOMAIN q.mapNextTx : d = q.mapNextTx[out]
    BY <1>11
  <2>2. d \in q.mapTx /\ out \in prevouts(d) /\ d \in pool.mapTx /\ d \in Tx
    BY <1>3, <1>7, <2>1 DEF PoolInv
  <2>3. CASE d \in CoinBase
    <3>1. pool.mapTx \cap CoinBase \subseteq OfCoinBases
      BY DescendantsHold DEF OfCoinBases
    <3>2. QED
      BY <2>2, <2>3, <3>1
  <2>4. CASE d \notin CoinBase
    <3>1. Dead(vtx, i, d)
      BY <2>1, <2>2, <2>4, ConflictIsDead
    <3>2. QED
      BY <3>1
  <2>5. QED
    BY <2>3, <2>4
<1>12. conflicts \subseteq D
  <2> HIDE DEF conflicts
  <2>1. QED
    BY DescendantsHold
<1>13. D \subseteq q.mapTx
  <2>1. D \subseteq q.mapTx \cup conflicts
    BY DEF WithDescendants
  <2> HIDE DEF D
  <2>2. QED
    BY <1>9, <2>1
<1> HIDE DEF conflicts
<1>14. ASSUME NEW d \in C, NEW e \in Spenders(q, d) PROVE e \in C
  <2>1. PICK out \in DOMAIN q.mapNextTx : out # Null /\ out[1] = d /\ e = q.mapNextTx[out]
    BY <1>14 DEF Spenders
  <2>2. e \in q.mapTx /\ out \in prevouts(e)
    BY <1>7, <2>1 DEF PoolInv
  <2>3. e \in pool.mapTx /\ e \in Tx \ CoinBase
    <3>1. e \in pool.mapTx /\ e \in Tx
      BY <1>3, <1>7, <2>2 DEF PoolInv
    <3>2. e \in CoinBase => prevouts(e) = {Null}
      BY <3>1, PrevoutsAre
    <3>3. QED
      BY <2>1, <2>2, <3>1, <3>2
  <2>4. d \in D /\ (d \in OfCoinBases \/ Dead(vtx, i, d))
    OBVIOUS
  <2>5. e \in D
    <3> HIDE DEF D
    <3>1. d \in D /\ e \in Spenders(q, d) /\ e \in q.mapTx
      BY <1>14, <2>2, <2>4
    <3>2. QED
      BY <3>1, DescendantsAreClosed DEF D
  <2> HIDE DEF D
  <2>6. CASE d \in OfCoinBases
    <3>1. e \in Spenders(pool, d)
      BY <2>1, <2>2, <2>3, SpenderIs
    <3>2. e \in OfCoinBases
      BY <2>3, <2>6, <3>1, DescendantsAreClosed DEF OfCoinBases
    <3>3. QED
      BY <2>5, <3>2
  <2>7. CASE Dead(vtx, i, d)
    <3>1. d \in pool.mapTx /\ d # u /\ d \notin {vtx[j] : j \in 1 .. i - 1} /\ d \notin r.mapTx
      BY <1>3, <1>7, <1>8, <1>13, <2>4
    <3>2. \A j \in 1 .. i : j \in 1 .. i - 1 \/ j = i
      BY <1>1
    <3>3. \A j \in 1 .. i : vtx[j] # d
      BY <3>1, <3>2
    <3>4. d \notin PoolConnected(vtx).mapTx
      BY <1>4, <3>1
    <3>5. Dead(vtx, i, e)
      BY <2>1, <2>2, <2>3, <2>7, <3>1, <3>3, <3>4, ChildIsDead
    <3>6. QED
      BY <2>5, <3>5
  <2>8. QED
    BY <2>4, <2>6, <2>7
<1>15. conflicts \subseteq C
  <2> HIDE DEF D
  <2>1. QED
    BY <1>11, <1>12
<1>16. C \in SUBSET (q.mapTx \cup conflicts)
  <2> HIDE DEF D
  <2>1. QED
    BY <1>13
<1>17. \A c \in C : Spenders(q, c) \subseteq C
  <2> HIDE DEF C
  <2>1. QED
    BY <1>14
<1>18. t \in C
  <2> HIDE DEF C
  <2>1. QED
    BY <1>10, <1>15, <1>16, <1>17 DEF WithDescendants
<1>19. QED
  BY <1>18

(* So what a block takes from the pool and does not hold is a coinbase, or   *)
(* descends from one, or could not be mined after it.                        *)
LEMMA LostAreOfCoinBases ==
    ASSUME LInv, NoneIsConfirmed, PoolInv(pool), NEW vtx \in Blocks, Connected(vtx).ok
    PROVE  LostTo(vtx) \subseteq OfCoinBases
<1> DEFINE N == Len(vtx)
           k == Confirming(vtx)
           view == Connected(vtx).view
           live == [t \in {u \in DOMAIN view : ~IsPruned(view[u])} |-> view[t]]
           after == PoolConnected(vtx)
<1>1. N \in Nat /\ DOMAIN vtx = 1 .. N /\ k[0] = pool /\ after = k[N]
  BY BlockIs, ConfirmingIs DEF PoolConnected
<1>2. \A out : IsAvailable(live, out) => IsAvailable(view, out)
  <2> HIDE DEF view
  <2>1. QED
    BY DEF IsAvailable, Get, Empty
<1> SUFFICES ASSUME NEW t \in LostTo(vtx) PROVE t \in OfCoinBases
  OBVIOUS
<1>3. t \in pool.mapTx /\ t \notin ToSet(vtx) /\ t \notin after.mapTx /\ HaveInputs(Over(live, PoolCoins(after)), t)
  BY DEF LostTo, Lost
<1> HIDE DEF k, after
<1>4. PICK i \in 1 .. N : t \in k[i - 1].mapTx /\ t \notin k[i].mapTx
  <2> DEFINE S == {n \in 0 .. N : t \in k[n].mapTx}
  <2>1. SUFFICES ASSUME \A i \in 1 .. N : t \in k[i - 1].mapTx => t \in k[i].mapTx PROVE FALSE
    OBVIOUS
  <2>2. 0 \in S /\ \A n \in 1 .. N : n - 1 \in S => n \in S
    BY <1>1, <1>3, <2>1
  <2> HIDE DEF S, N
  <2>3. N \in Nat
    BY <1>1
  <2>4. \A n \in 0 .. N : n \in S
    BY <2>2, <2>3, Upward
  <2>5. N \in 0 .. N
    BY <2>3
  <2>6. QED
    BY <1>1, <1>3, <2>4, <2>5 DEF S
<1>5. t # vtx[i]
  BY <1>1, <1>3 DEF ToSet
<1>6. t \in OfCoinBases \/ Dead(vtx, i, t)
  BY <1>4, <1>5, OnlyTheDead DEF k
<1>7. SUFFICES ASSUME Dead(vtx, i, t) PROVE FALSE
  BY <1>6
<1>8. PICK out \in prevouts(t) : out[1] \notin after.mapTx /\ \A m \in i .. N : ~IsAvailable(CoinsAfter(vtx, m), out)
  BY <1>7 DEF Dead, after
<1>9. ~IsAvailable(view, out)
  <2>1. N \in i .. N
    BY <1>1
  <2>2. CoinsAfter(vtx, N) = view
    BY CoinsAfterAre
  <2>3. QED
    BY <1>8, <2>1, <2>2
<1>10. t \in Tx \ CoinBase
  BY <1>7 DEF Dead
<1>11. ~IsAvailable(live, out)
  BY <1>2, <1>9
<1> HIDE DEF live
<1>12. IsAvailable(live, out) \/ out[1] \in after.mapTx
  BY <1>3, <1>10, <1>8, OfferedHas
<1>13. QED
  BY <1>8, <1>11, <1>12

(* As long as no coinbase is repeated, connecting a block drops from the     *)
(* pool what is in the block, what the block makes invalid, and nothing      *)
(* else, loose coinbases and what descends from them apart: "Remove          *)
(* conflicting transactions from the mempool".                               *)
THEOREM OnlyConflictsAreRemovedAlways ==
    Spec /\ []SeenOnce /\ [][NotSeenBefore]_vars => []OnlyConflictsAreRemoved
<1>1. ASSUME NInv, SeenOnce PROVE OnlyConflictsAreRemoved
  <2>1. LInv /\ PoolInv(pool) /\ NoneIsConfirmed
    BY <1>1, NotInChain DEF NInv, HInv, PInv
  <2>2. QED
    BY <2>1, LostAreOfCoinBases DEF OnlyConflictsAreRemoved, OfCoinBases
<1>2. NInv /\ SeenOnce => OnlyConflictsAreRemoved
  BY <1>1
<1>3. QED
  BY <1>2, UnseenInvariant, PTL

-----------------------------------------------------------------------------
(* What disconnecting a block gives back to the pool *)

(* What is removed because of another transaction spends an output of one    *)
(* that is removed.                                                          *)
LEMMA DescendantIsAChild ==
    ASSUME NEW p, PoolInv(p), NEW S, NEW e \in WithDescendants(p, S), e \notin S
    PROVE  \E c \in WithDescendants(p, S) : e \in Spenders(p, c)
<1> DEFINE D == WithDescendants(p, S)
           C == {d \in D : d \in S \/ \E c \in D : d \in Spenders(p, c)}
<1>1. S \subseteq D
  BY DescendantsHold
<1>2. C \in SUBSET (p.mapTx \cup S)
  BY DEF WithDescendants
<1>3. ASSUME NEW c \in C, NEW d \in Spenders(p, c) PROVE d \in C
  <2>1. d \in p.mapTx
    BY DEF Spenders, PoolInv
  <2>2. c \in D
    OBVIOUS
  <2>3. d \in D
    BY <2>1, <2>2, DescendantsAreClosed
  <2> HIDE DEF D
  <2>4. QED
    BY <2>2, <2>3
<1>4. S \subseteq C
  <2> HIDE DEF D
  <2>1. QED
    BY <1>1
<1>5. \A c \in C : Spenders(p, c) \subseteq C
  <2> HIDE DEF C
  <2>1. QED
    BY <1>3
<1>6. e \in C
  <2> HIDE DEF C
  <2>1. QED
    BY <1>2, <1>4, <1>5 DEF WithDescendants
<1>7. QED
  BY <1>6

(* What DisconnectTip finds when the coins w below a block are on the disk:  *)
(* the pool and the block have no coins, no transaction of the block is in   *)
(* the pool, each spends outputs of none that is not before it or that is in *)
(* the pool, and nothing else of the pool or the block spends the same.      *)
Reopens(vtx, w) ==
    /\ vtx \in Blocks
    /\ \A t \in pool.mapTx : t \notin DOMAIN w
    /\ \A i \in 1 .. Len(vtx) : vtx[i] \notin DOMAIN w /\ vtx[i] \notin pool.mapTx
    /\ \A i \in 1 .. Len(vtx) : vtx[i] \notin CoinBase =>
          \A out \in prevouts(vtx[i]) :
             /\ out[1] \notin pool.mapTx /\ \A j \in i .. Len(vtx) : vtx[j] # out[1]
             /\ \A e \in pool.mapTx \ CoinBase : out \notin prevouts(e)
             /\ \A j \in 1 .. Len(vtx) : vtx[j] \notin CoinBase /\ out \in prevouts(vtx[j]) => j = i

(* A transaction that lacks an input which neither the pool p has nor the    *)
(* rest of the block will bring.                                             *)
Orphan(p, w, vtx, n, t) ==
    /\ t \in Tx \ CoinBase
    /\ \E out \in prevouts(t) :
          /\ ~IsAvailable(w, out)
          /\ out[2] \in Spendable[out[1]] =>
                out[1] \notin p.mapTx /\ \A j \in n + 1 .. Len(vtx) : vtx[j] # out[1]

(* The transactions that DisconnectTip has offered to the pool, but those    *)
(* that would not be taken whatever the coins are.                           *)
Returning(vtx, n) == {t \in {vtx[j] : j \in 1 .. n} \ CoinBase : Admissible(t)}

(* It lacks it for good: only transactions of the block come to the pool.    *)
LEMMA OrphansStay ==
    ASSUME NEW vtx \in Blocks, NEW w, NEW n \in 1 .. Len(vtx), NEW p, NEW r,
           r.mapTx \subseteq p.mapTx \cup {vtx[n]}, NEW t, Orphan(p, w, vtx, n - 1, t)
    PROVE  Orphan(r, w, vtx, n, t)
<1>1. Len(vtx) \in Nat
  BY BlockIs
<1>2. t \in Tx \ CoinBase
  BY DEF Orphan
<1>3. PICK out \in prevouts(t) :
         /\ ~IsAvailable(w, out)
         /\ out[2] \in Spendable[out[1]] =>
               out[1] \notin p.mapTx /\ \A j \in n - 1 + 1 .. Len(vtx) : vtx[j] # out[1]
  BY DEF Orphan
<1>4. n \in n - 1 + 1 .. Len(vtx) /\ \A j \in n + 1 .. Len(vtx) : j \in n - 1 + 1 .. Len(vtx)
  BY <1>1
<1>5. out[2] \in Spendable[out[1]] => out[1] \notin r.mapTx /\ \A j \in n + 1 .. Len(vtx) : vtx[j] # out[1]
  BY <1>3, <1>4
<1>6. QED
  BY <1>2, <1>3, <1>5 DEF Orphan

(* A transaction of the block that is not accepted lacks an input, if it is  *)
(* admissible.                                                               *)
LEMMA RefusedIsOrphan ==
    ASSUME PoolInv(pool), NEW vtx, NEW w, Reopens(vtx, w), NEW n \in 1 .. Len(vtx), NEW p, PoolInv(p),
           \A t \in p.mapTx : t \in pool.mapTx \/ (t \notin CoinBase /\ \E j \in 1 .. n - 1 : t = vtx[j]),
           vtx[n] \notin CoinBase, Admissible(vtx[n]), ~Acceptable(p, w, vtx[n]),
           NEW r, r.mapTx \subseteq p.mapTx
    PROVE  Orphan(r, w, vtx, n, vtx[n])
<1> DEFINE u == vtx[n]
           N == Len(vtx)
<1>1. vtx \in Blocks /\ N \in Nat /\ u \in Tx \ CoinBase /\ Null \notin prevouts(u) /\ prevouts(u) \subseteq Tx \X Nat
  <2>1. vtx \in Blocks
    BY DEF Reopens
  <2>2. u \in Tx \ CoinBase
    BY <2>1, BlockIs
  <2>3. QED
    BY <2>1, <2>2, BlockIs, PrevoutsAre
<1>2. \A j \in 1 .. n - 1 : j \in 1 .. N /\ j # n
  BY <1>1
<1>3. \A t \in p.mapTx : t \notin DOMAIN w
  BY <1>2 DEF Reopens
<1>4. u \notin p.mapTx
  <2>1. u \notin pool.mapTx
    BY DEF Reopens
  <2>2. \A j \in 1 .. n - 1 : vtx[j] # u
    BY <1>1, <1>2, BlockIs
  <2>3. QED
    BY <2>1, <2>2
<1>5. u \notin DOMAIN w
  BY DEF Reopens
<1>6. prevouts(u) \cap DOMAIN p.mapNextTx = {}
  <2> SUFFICES ASSUME NEW out \in prevouts(u), out \in DOMAIN p.mapNextTx PROVE FALSE
    OBVIOUS
  <2> DEFINE e == p.mapNextTx[out]
  <2>1. e \in p.mapTx /\ out \in prevouts(e) /\ e \in Tx
    BY DEF PoolInv
  <2> HIDE DEF e
  <2>2. e \notin CoinBase
    <3>1. e \in CoinBase => prevouts(e) = {Null}
      BY <2>1, PrevoutsAre
    <3>2. QED
      BY <1>1, <2>1, <3>1
  <2>3. /\ \A x \in pool.mapTx \ CoinBase : out \notin prevouts(x)
        /\ \A j \in 1 .. N : vtx[j] \notin CoinBase /\ out \in prevouts(vtx[j]) => j = n
    BY <1>1 DEF Reopens
  <2>4. e \notin pool.mapTx
    BY <2>1, <2>2, <2>3
  <2>5. PICK j \in 1 .. n - 1 : e = vtx[j]
    BY <2>1, <2>4
  <2>6. QED
    BY <1>2, <2>1, <2>2, <2>3, <2>5
<1> DEFINE Lacks(out) == ~IsAvailable(w, out) /\ (out[2] \in Spendable[out[1]] => out[1] \notin p.mapTx)
<1>7. ASSUME ~HaveInputs(Over(w, PoolCoins(p)), u)
      PROVE  \E out \in prevouts(u) : Lacks(out)
  <2>1. PICK l \in DOMAIN vin[u] : ~IsAvailable(Over(w, PoolCoins(p)), vin[u][l])
    BY <1>7 DEF HaveInputs
  <2> DEFINE o == vin[u][l]
  <2>2. o \in prevouts(u)
    BY <1>1 DEF prevouts, ToSet
  <2>3. o[2] \notin Get(Over(w, PoolCoins(p)), o[1]).vout
    BY <2>1 DEF IsAvailable
  <2> HIDE DEF o, u
  <2>4. Get(Over(w, PoolCoins(p)), o[1]) = IF o[1] \in DOMAIN w THEN w[o[1]] ELSE Get(PoolCoins(p), o[1])
    BY OverShows
  <2>5. ~IsAvailable(w, o)
    BY <2>3, <2>4 DEF IsAvailable, Get, Empty
  <2>6. o[2] \in Spendable[o[1]] => o[1] \notin p.mapTx
    <3>1. SUFFICES ASSUME o[2] \in Spendable[o[1]], o[1] \in p.mapTx PROVE FALSE
      OBVIOUS
    <3>2. o[1] \notin DOMAIN w
      BY <1>3, <3>1
    <3>3. DOMAIN PoolCoins(p) = p.mapTx /\ \A x \in p.mapTx : PoolCoins(p)[x].vout = Spendable[x]
      BY DEF PoolCoins, Coins
    <3>4. QED
      BY <2>3, <2>4, <3>1, <3>2, <3>3 DEF Get
  <2>7. QED
    BY <2>2, <2>5, <2>6
<1>8. ASSUME ~SpendsMature(w, u)
      PROVE  \E out \in prevouts(u) : Lacks(out)
  <2>1. PICK out \in prevouts(u) : out[1] \in CoinBase /\ out[1] \notin DOMAIN w
    BY <1>8 DEF SpendsMature
  <2>2. out[1] \notin pool.mapTx
    BY <1>1 DEF Reopens
  <2>3. out[1] \notin p.mapTx
    BY <2>1, <2>2
  <2>4. ~IsAvailable(w, out)
    BY <2>1 DEF IsAvailable, Get, Empty
  <2>5. QED
    BY <2>3, <2>4
<1>9. \E out \in prevouts(u) : Lacks(out)
  BY <1>4, <1>5, <1>6, <1>7, <1>8 DEF Acceptable
<1> HIDE DEF u
<1>10. PICK out \in prevouts(u) : Lacks(out)
  BY <1>9
<1>11. \A j \in n + 1 .. N : vtx[j] # out[1]
  <2>1. \A j \in n .. N : vtx[j] # out[1]
    BY <1>1, <1>10 DEF Reopens, u
  <2>2. \A j \in n + 1 .. N : j \in n .. N
    BY <1>1
  <2>3. QED
    BY <2>1, <2>2
<1>12. Orphan(r, w, vtx, n, u)
  BY <1>1, <1>10, <1>11 DEF Orphan
<1>13. QED
  BY <1>12 DEF u

(* What is in the pool or was offered to it, and is not there, is such.      *)
KeptOrOrphan(p, w, vtx, n) ==
    \A t \in pool.mapTx \cup Returning(vtx, n) : t \in p.mapTx \/ Orphan(p, w, vtx, n, t)

(* It stays so when the next transaction of the block is offered: if it is   *)
(* refused, what goes with it has lost an input with it.                     *)
LEMMA ResurrectLeaves ==
    ASSUME PoolInv(pool), NEW vtx, NEW w, Reopens(vtx, w), NEW n \in 1 .. Len(vtx), NEW p, PoolInv(p),
           \A t \in p.mapTx : t \in pool.mapTx \/ (t \notin CoinBase /\ \E j \in 1 .. n - 1 : t = vtx[j]),
           KeptOrOrphan(p, w, vtx, n - 1)
    PROVE  KeptOrOrphan(Resurrect(p, w, vtx[n]), w, vtx, n)
<1> DEFINE u == vtx[n]
           N == Len(vtx)
           r == Resurrect(p, w, u)
<1>1. vtx \in Blocks /\ N \in Nat /\ u \in Tx
  <2>1. vtx \in Blocks
    BY DEF Reopens
  <2>2. QED
    BY <2>1, BlockIs
<1>2. \A j \in 1 .. n : j \in 1 .. n - 1 \/ j = n
  BY <1>1
<1>3. \A t \in Returning(vtx, n) : t \in Returning(vtx, n - 1) \/ (t = u /\ u \notin CoinBase /\ Admissible(u))
  BY <1>2 DEF Returning
<1>4. r.mapTx \subseteq p.mapTx \cup {u}
  BY ResurrectGrows
<1>5. ASSUME NEW t, Orphan(p, w, vtx, n - 1, t) PROVE Orphan(r, w, vtx, n, t)
  <2> HIDE DEF r
  <2>1. QED
    BY <1>1, <1>4, <1>5, OrphansStay
<1>6. \A t \in pool.mapTx \cup Returning(vtx, n) :
         t \in p.mapTx \/ Orphan(r, w, vtx, n, t) \/ (t = u /\ u \notin CoinBase /\ Admissible(u))
  <2> HIDE DEF r, u
  <2>1. QED
    BY <1>3, <1>5 DEF KeptOrOrphan
<1>7. CASE u \in CoinBase
  <2>1. r = p
    BY <1>7 DEF Resurrect
  <2> HIDE DEF r, u
  <2>2. QED
    BY <1>6, <1>7, <2>1 DEF KeptOrOrphan, r, u
<1>8. CASE u \notin CoinBase /\ Acceptable(p, w, u)
  <2>1. r.mapTx = p.mapTx \cup {u}
    BY <1>8 DEF Resurrect, addUnchecked
  <2> HIDE DEF r, u
  <2>2. KeptOrOrphan(r, w, vtx, n)
    BY <1>6, <2>1 DEF KeptOrOrphan
  <2>3. QED
    BY <2>2 DEF r, u
<1>9. CASE u \notin CoinBase /\ ~Acceptable(p, w, u)
  <2> DEFINE D == WithDescendants(p, {u})
  <2>1. r = remove(p, D)
    BY <1>9 DEF Resurrect
  <2>2. u \in D /\ D \subseteq p.mapTx \cup {u}
    <3>1. {u} \subseteq D
      BY DescendantsHold
    <3>2. D \subseteq p.mapTx \cup {u}
      BY DEF WithDescendants
    <3>3. QED
      BY <3>1, <3>2
  <2>3. r.mapTx = p.mapTx \ D
    <3> HIDE DEF D
    <3>1. QED
      BY <2>1, RemovedOnly
  <2> HIDE DEF r
  <2>4. Admissible(u) => Orphan(r, w, vtx, n, u)
    BY <1>9, <2>3, RefusedIsOrphan
  <2>5. ASSUME NEW t \in D, t # u PROVE Orphan(r, w, vtx, n, t)
    <3>1. PICK c \in D : t \in Spenders(p, c)
      BY <2>5, DescendantIsAChild
    <3>2. PICK out \in DOMAIN p.mapNextTx : out # Null /\ out[1] = c /\ t = p.mapNextTx[out]
      BY <3>1 DEF Spenders
    <3>3. t \in p.mapTx /\ out \in prevouts(t) /\ t \in Tx
      BY <3>2 DEF PoolInv
    <3>4. t \notin CoinBase
      <4>1. t \in CoinBase => prevouts(t) = {Null}
        BY <3>3, PrevoutsAre
      <4>2. QED
        BY <3>2, <3>3, <4>1
    <3> HIDE DEF D
    <3>5. c \in pool.mapTx \/ \E j \in 1 .. n : c = vtx[j]
      <4>1. c \in p.mapTx \/ c = u
        BY <2>2
      <4>2. n \in 1 .. n /\ \A j \in 1 .. n - 1 : j \in 1 .. n
        BY <1>1
      <4>3. QED
        BY <4>1, <4>2
    <3>6. c \notin DOMAIN w /\ \A j \in n + 1 .. N : vtx[j] # c
      <4>1. \A j \in 1 .. n : j \in 1 .. N /\ \A l \in n + 1 .. N : l # j
        BY <1>1
      <4>2. \A l \in n + 1 .. N : l \in 1 .. N
        BY <1>1
      <4>3. CASE c \in pool.mapTx
        BY <4>2, <4>3 DEF Reopens
      <4>4. CASE c \notin pool.mapTx
        <5>1. PICK j \in 1 .. n : c = vtx[j]
          BY <3>5, <4>4
        <5>2. c \notin DOMAIN w
          BY <4>1, <5>1 DEF Reopens
        <5>3. QED
          BY <1>1, <4>1, <4>2, <5>1, <5>2, BlockIs
      <4>5. QED
        BY <4>3, <4>4
    <3>7. ~IsAvailable(w, out)
      BY <3>2, <3>6 DEF IsAvailable, Get, Empty
    <3>8. out[1] \notin r.mapTx
      BY <2>3, <3>1, <3>2
    <3>9. QED
      BY <3>2, <3>3, <3>4, <3>6, <3>7, <3>8 DEF Orphan
  <2> HIDE DEF D, u
  <2>6. KeptOrOrphan(r, w, vtx, n)
    <3>1. ASSUME NEW t \in pool.mapTx \cup Returning(vtx, n), t \notin r.mapTx PROVE Orphan(r, w, vtx, n, t)
      <4>1. CASE t = u
        <5>1. t \in p.mapTx \/ Orphan(r, w, vtx, n, t) \/ Admissible(u)
          BY <1>6
        <5>2. t \notin p.mapTx
          <6>1. u \notin pool.mapTx /\ \A j \in 1 .. n - 1 : j \in 1 .. N /\ j # n
            BY <1>1 DEF Reopens, u
          <6>2. \A j \in 1 .. n - 1 : vtx[j] # u
            BY <1>1, <6>1, BlockIs DEF u
          <6>3. QED
            BY <4>1, <6>1, <6>2
        <5>3. QED
          BY <2>4, <4>1, <5>1, <5>2
      <4>2. CASE t # u
        <5>1. t \in p.mapTx \/ Orphan(r, w, vtx, n, t)
          BY <1>6, <4>2
        <5>2. t \in p.mapTx => t \in D
          BY <2>3, <3>1
        <5>3. QED
          BY <2>5, <4>2, <5>1, <5>2
      <4>3. QED
        BY <4>1, <4>2
    <3>2. QED
      BY <3>1 DEF KeptOrOrphan
  <2>7. QED
    BY <2>6 DEF r, u
<1>10. QED
  BY <1>7, <1>8, <1>9

(* So it is when all have been offered. *)
LEMMA ResurrectingLeaves ==
    ASSUME PoolInv(pool), NEW vtx, NEW w, Reopens(vtx, w)
    PROVE  KeptOrOrphan(PoolDisconnected(w, vtx), w, vtx, Len(vtx))
<1> DEFINE N == Len(vtx)
           k == Resurrecting(w, vtx)
           S == {n \in 0 .. N : /\ PoolInv(k[n]) /\ KeptOrOrphan(k[n], w, vtx, n)
                               /\ k[n].mapTx \cap CoinBase \subseteq pool.mapTx}
<1>1. vtx \in Blocks /\ N \in Nat /\ \A i \in 1 .. N : vtx[i] \in Tx
  <2>1. vtx \in Blocks
    BY DEF Reopens
  <2>2. QED
    BY <2>1, BlockIs
<1>2. k[0] = pool /\ \A n \in 1 .. N : k[n] = Resurrect(k[n - 1], w, vtx[n])
  BY <1>1, ResurrectingIs
<1>3. \A n \in 0 .. N : \A u \in k[n].mapTx : u \in pool.mapTx \/ \E j \in 1 .. n : u = vtx[j]
  BY <1>1, ResurrectingGrows
<1> HIDE DEF k
<1>4. 0 \in S
  <2>1. Returning(vtx, 0) = {}
    BY DEF Returning
  <2>2. KeptOrOrphan(k[0], w, vtx, 0)
    BY <1>2, <2>1 DEF KeptOrOrphan
  <2>3. QED
    BY <1>1, <1>2, <2>2
<1>5. ASSUME NEW n \in 1 .. N, n - 1 \in S PROVE n \in S
  <2> DEFINE p == k[n - 1]
  <2>1. PoolInv(p) /\ KeptOrOrphan(p, w, vtx, n - 1) /\ n - 1 \in 0 .. N /\ p.mapTx \cap CoinBase \subseteq pool.mapTx
    BY <1>5
  <2>2. \A u \in p.mapTx : u \in pool.mapTx \/ (u \notin CoinBase /\ \E j \in 1 .. n - 1 : u = vtx[j])
    BY <1>3, <2>1
  <2>3. k[n] = Resurrect(p, w, vtx[n]) /\ vtx[n] \in Tx
    BY <1>1, <1>2
  <2> HIDE DEF p
  <2>4. PoolInv(Resurrect(p, w, vtx[n]))
    BY <2>1, <2>3, ResurrectKeeps
  <2>5. KeptOrOrphan(Resurrect(p, w, vtx[n]), w, vtx, n)
    BY <2>1, <2>2, ResurrectLeaves
  <2>6. Resurrect(p, w, vtx[n]).mapTx \cap CoinBase \subseteq pool.mapTx
    <3>1. vtx[n] \in CoinBase => Resurrect(p, w, vtx[n]) = p
      BY DEF Resurrect
    <3>2. Resurrect(p, w, vtx[n]).mapTx \subseteq p.mapTx \cup {vtx[n]}
      BY ResurrectGrows
    <3>3. QED
      BY <2>1, <3>1, <3>2
  <2>7. QED
    BY <1>1, <2>3, <2>4, <2>5, <2>6
<1>6. \A n \in 0 .. N : n \in S
  <2> HIDE DEF S, N
  <2>1. QED
    BY <1>1, <1>4, <1>5, Upward
<1>7. N \in 0 .. N
  BY <1>1
<1>8. QED
  BY <1>6, <1>7 DEF PoolDisconnected, k

(* The block that is disconnected, and the coins below it on the disk, are   *)
(* so.                                                                       *)
LEMMA TipReopens ==
    ASSUME NInv, SeenOnce, chain # <<>>
    PROVE  LET w == Showing(Disconnected.view, TRUE) IN
           /\ Reopens(chain[Height].vtx, w)
           /\ \A out \in Tx \X Nat : IsAvailable(Disconnected.view, out) => IsAvailable(w, out)
<1> DEFINE c == chain
           h == Len(c)
           d == SubSeq(c, 1, h - 1)
           b == c[h]
           vtx == b.vtx
           N == Len(vtx)
           view == Disconnected.view
           w == Showing(view, TRUE)
           m == Merge(view)
<1>1. /\ LInv /\ ChainInv(c) /\ ChainOK(c) /\ Single(c) /\ pool.mapTx \cap InChain(c) = {}
      /\ Shows(pcoinsTip, c) /\ HaveAll(pool, pcoinsTip, InChain(c)) /\ PoolInv(pool)
  BY NotInChain, TipIsOK DEF NInv, HInv, PInv, LInv, ChainInv
<1>2. /\ ChainOK(d) /\ vtx \in Blocks /\ Append(d, b) = c /\ InChain(d) \subseteq InChain(c)
      /\ \A i \in 1 .. N : vtx[i] \in InChain(c)
  BY <1>1, InChainPrefix
<1>3. h \in 1 .. Len(c) /\ DOMAIN c = 1 .. h /\ Height = h
  BY <1>1, ChainIs DEF ChainOK, Height
<1>4. N \in Nat /\ DOMAIN vtx = 1 .. N /\ \A i \in 1 .. N : vtx[i] \in Tx
  BY <1>2, BlockIs
<1>5. \A i \in 1 .. N : <<h, i>> \in Places(c) /\ TxAt(c, <<h, i>>) = vtx[i]
  <2>1. \A i \in 1 .. N : <<h, i>> \in Places(c)
    BY <1>3, <1>4, PlacesAre
  <2>2. QED
    BY <2>1 DEF TxAt
<1>6. /\ Shows(view, d) /\ ViewOK(view) /\ DOMAIN pcoinsTip \subseteq DOMAIN view
      /\ ViewOK(cacheCoins) /\ ViewOK(coinsdb)
  BY <1>1, <1>3, DisconnectedIs DEF LInv, CoinsInv
<1> HIDE DEF view
<1>7. ViewOK(w) /\ Alike(view, w)
  BY <1>6, ShowingIs
<1>8. w = Written(m) /\ \A t \in DOMAIN w : ~IsPruned(w[t])
  <2>1. ViewOK(m)
    BY <1>6, MergeIs
  <2> HIDE DEF m
  <2>2. w = Written(m)
    BY DEF Showing, m
  <2>3. \A t \in DOMAIN Written(m) : ~IsPruned(Written(m)[t])
    BY <1>6, <2>1, WrittenIs
  <2>4. QED
    BY <2>2, <2>3
<1> HIDE DEF w
<1>9. \A t \in Tx : Get(w, t).vout = Get(view, t).vout
  BY <1>7 DEF Alike, Same, IsPruned
<1> HIDE DEF d
<1>10. ASSUME NEW t \in DOMAIN w PROVE t \in InChain(d)
  <2>1. t \in Tx /\ Get(w, t).vout # {}
    BY <1>7, <1>8 DEF ViewOK, IsPruned, Get
  <2>2. Unspent(d, t) # {}
    BY <1>6, <1>9, <2>1 DEF Shows, IsLeft
  <2>3. QED
    BY <2>2, UnseenIsNone
<1>11. ASSUME NEW i \in 1 .. N PROVE vtx[i] \notin InChain(d)
  <2>1. SUFFICES ASSUME NEW p \in Places(d), TxAt(d, p) = vtx[i] PROVE FALSE
    BY DEF InChain
  <2>2. /\ Places(Append(d, b)) = Places(d) \cup {<<Len(d) + 1, k>> : k \in 1 .. Len(b.vtx)}
        /\ \A q \in Places(d) : TxAt(Append(d, b), q) = TxAt(d, q)
    BY <1>2, PlacesAppend
  <2>3. p \in Places(c) /\ TxAt(c, p) = vtx[i]
    BY <1>2, <2>1, <2>2
  <2>4. p = <<h, i>>
    BY <1>1, <1>5, <2>3 DEF Single
  <2>5. p[1] \in 1 .. Len(d) /\ Len(d) \in Nat
    BY <1>2, ChainIs
  <2>6. Len(d) = h - 1
    BY <1>3 DEF d
  <2>7. h \in Nat
    BY <1>3
  <2>8. QED
    BY <2>4, <2>5, <2>6, <2>7
<1> HIDE DEF b
<1>12. ASSUME NEW i \in 1 .. N, vtx[i] \notin CoinBase, NEW out \in prevouts(vtx[i])
       PROVE  /\ out[1] \notin pool.mapTx /\ \A j \in i .. N : vtx[j] # out[1]
              /\ \A e \in pool.mapTx \ CoinBase : out \notin prevouts(e)
              /\ \A j \in 1 .. N : vtx[j] \notin CoinBase /\ out \in prevouts(vtx[j]) => j = i
  <2> DEFINE p == <<h, i>>
  <2>1. p \in Places(c) /\ TxAt(c, p) = vtx[i]
    BY <1>5
  <2> HIDE DEF p
  <2>2. out[2] \notin Unspent(c, out[1]) /\ out[1] \in InChain(c)
    BY <1>1, <1>12, <2>1, SpentIsGone
  <2>3. ASSUME NEW j \in i .. N, vtx[j] = out[1] PROVE FALSE
    <3>1. PICK q \in Places(c) : Before(q, p) /\ TxAt(c, q) = out[1]
      BY <1>1, <1>12, <2>1, SpentBefore
    <3>2. j \in 1 .. N /\ ~(j < i)
      BY <1>4
    <3>3. q = <<h, j>>
      BY <1>1, <1>5, <2>3, <3>1, <3>2 DEF Single
    <3>4. h \in Nat
      BY <1>3
    <3>5. QED
      BY <3>1, <3>2, <3>3, <3>4 DEF Before, p
  <2>4. ASSUME NEW e \in pool.mapTx \ CoinBase, out \in prevouts(e) PROVE FALSE
    <3>1. HasInput(pool, pcoinsTip, InChain(c), out)
      BY <1>1, <2>4 DEF HaveAll
    <3>2. out[1] \in Tx
      BY <1>1, <2>2, InChainIs
    <3>3. ~IsAvailable(pcoinsTip, out)
      BY <1>1, <2>2, <3>2 DEF IsAvailable, Shows, IsLeft
    <3>4. QED
      BY <1>1, <2>2, <3>1, <3>3 DEF HasInput
  <2>5. ASSUME NEW j \in 1 .. N, vtx[j] \notin CoinBase, out \in prevouts(vtx[j]) PROVE j = i
    <3> DEFINE q == <<h, j>>
    <3>1. q \in Places(c) /\ TxAt(c, q) = vtx[j]
      BY <1>5
    <3> HIDE DEF q
    <3>2. q = p
      BY <1>1, <1>12, <2>1, <2>5, <3>1, OneSpender
    <3>3. QED
      BY <3>2 DEF p, q
  <2>6. QED
    BY <1>1, <2>2, <2>3, <2>4, <2>5
<1>13. \A t \in pool.mapTx : t \notin DOMAIN w
  BY <1>1, <1>2, <1>10
<1>14. \A i \in 1 .. N : vtx[i] \notin DOMAIN w /\ vtx[i] \notin pool.mapTx
  BY <1>1, <1>2, <1>10, <1>11
<1> HIDE DEF vtx
<1>15. Reopens(vtx, w)
  BY <1>2, <1>12, <1>13, <1>14 DEF Reopens
<1>16. \A out \in Tx \X Nat : IsAvailable(view, out) => IsAvailable(w, out)
  BY <1>9 DEF IsAvailable
<1>17. QED
  BY <1>3, <1>15, <1>16 DEF vtx, b, w, view

(* So the pool has all that can still be mined.                              *)
LEMMA NoneIsLost ==
    ASSUME NInv, SeenOnce
    PROVE  FlushedBlocksAreResurrected
<1> DEFINE vtx == chain[Height].vtx
           view == Disconnected.view
           live == [t \in {u \in DOMAIN view : ~IsPruned(view[u])} |-> view[t]]
           w == Showing(view, TRUE)
           after == PoolDisconnected(w, vtx)
           returning == {t \in ToSet(vtx) \ CoinBase : Admissible(t)}
<1>1. SUFFICES ASSUME chain # <<>>, NEW t, t \in Lost(pool.mapTx \cup returning, after, live) PROVE FALSE
  BY DEF FlushedBlocksAreResurrected, Resurrects
<1>2. PoolInv(pool)
  BY DEF NInv, HInv, PInv
<1>3. Reopens(vtx, w) /\ \A out \in Tx \X Nat : IsAvailable(view, out) => IsAvailable(w, out)
  BY <1>1, TipReopens
<1> HIDE DEF vtx, view, w
<1>4. DOMAIN vtx = 1 .. Len(vtx)
  BY <1>3, BlockIs DEF Reopens
<1>5. t \in pool.mapTx \cup Returning(vtx, Len(vtx)) /\ t \notin after.mapTx /\ HaveInputs(Over(live, PoolCoins(after)), t)
  BY <1>1, <1>4 DEF Lost, Returning, ToSet
<1>6. Orphan(after, w, vtx, Len(vtx), t)
  BY <1>2, <1>3, <1>5, ResurrectingLeaves DEF KeptOrOrphan
<1>7. t \in Tx \ CoinBase
  BY <1>6 DEF Orphan
<1>8. PICK out \in prevouts(t) : ~IsAvailable(w, out) /\ (out[2] \in Spendable[out[1]] => out[1] \notin after.mapTx)
  BY <1>6 DEF Orphan
<1>9. out \in Tx \X Nat
  BY <1>7, PrevoutsAre
<1>10. IsAvailable(live, out) => IsAvailable(view, out)
  BY DEF IsAvailable, Get, Empty
<1> HIDE DEF live, after
<1>11. IsAvailable(live, out) \/ (out[1] \in after.mapTx /\ out[2] \in Spendable[out[1]])
  BY <1>5, <1>7, <1>8, OfferedHas
<1>12. QED
  BY <1>3, <1>8, <1>9, <1>10, <1>11

(* As long as no coinbase is repeated, after a block is disconnected and its *)
(* coins are flushed the pool has all of the block's transactions that can   *)
(* still be mined and are admissible, and has lost none of its own:          *)
(* "Resurrect mempool transactions from the disconnected block".             *)
THEOREM FlushedBlocksAreResurrectedAlways ==
    Spec /\ []SeenOnce /\ [][NotSeenBefore]_vars => []FlushedBlocksAreResurrected
<1>1. NInv /\ SeenOnce => FlushedBlocksAreResurrected
  BY NoneIsLost
<1>2. QED
  BY <1>1, UnseenInvariant, PTL

-----------------------------------------------------------------------------
(* What the wallet is told *)

(* An entry of mapWallet. *)
IsEntry(e) == e = [hashBlock |-> e.hashBlock, credit |-> e.credit]

(* Transactions with their entries. *)
IsWallet(w) == w = [t \in DOMAIN w |-> w[t]] /\ \A t \in DOMAIN w : IsEntry(w[t])

(* A transaction that pays the wallet or spends what is its own. *)
Ours(t) == t \in Tx /\ ((\E out \in Mine : out[1] = t) \/ \E out \in prevouts(t) : out \in Mine)

(* A transaction of S spends an output of u that is the wallet's. *)
Touches(S, u) == \E s \in S : \E out \in prevouts(s) : out \in Mine /\ out[1] = u

(* The hashBlock of u in w once the wallet was told of the transactions of S *)
(* in the block.                                                             *)
HashAfter(w, S, hashBlock, u) ==
    IF u \in S /\ hashBlock # None THEN hashBlock
    ELSE IF u \in DOMAIN w THEN w[u].hashBlock ELSE None

(* What is in the cache of u was there before, and nothing of S changes it. *)
CreditStays(w, S, e, u) == u \in DOMAIN w /\ e.credit = w[u].credit /\ ~Touches(S, u)

(* The wallet w has become r when it was told of the transactions of S: no   *)
(* transaction was forgotten, what is new is the wallet's, and what they     *)
(* spend is not in a cache.                                                  *)
Told(w, S, hashBlock, r) ==
    /\ IsWallet(r) /\ DOMAIN w \subseteq DOMAIN r /\ DOMAIN r \subseteq DOMAIN w \cup {s \in S : Ours(s)}
    /\ \A u \in DOMAIN r : r[u].hashBlock = HashAfter(w, S, hashBlock, u)
    /\ \A u \in DOMAIN r : r[u].credit = None \/ CreditStays(w, S, r[u], u)

(* AddToWallet replaces the entry and empties the caches of what is spent. *)
LEMMA AddedIs ==
    ASSUME NEW w, IsWallet(w), NEW t \in Tx, t \in DOMAIN w \/ Ours(t), NEW hashBlock
    PROVE  Told(w, {t}, hashBlock, AddToWallet(w, t, hashBlock)) /\ t \in DOMAIN AddToWallet(w, t, hashBlock)
<1> DEFINE r == AddToWallet(w, t, hashBlock)
           hash == IF hashBlock = None /\ t \in DOMAIN w THEN w[t].hashBlock ELSE hashBlock
           Spent(u) == \E out \in prevouts(t) \ {Null} : out[1] = u
<1>1. /\ DOMAIN r = DOMAIN w \cup {t} /\ r = [u \in DOMAIN r |-> r[u]]
      /\ r[t] = [hashBlock |-> hash, credit |-> None]
      /\ \A u \in DOMAIN w \ {t} : r[u] = IF Spent(u) THEN [w[u] EXCEPT !.credit = None] ELSE w[u]
  BY DEF AddToWallet
<1>2. \A out \in Mine : out # Null
  BY WalletAssumption, PoolAssumption
<1>3. \A u : Touches({t}, u) => Spent(u)
  BY <1>2 DEF Touches
<1> HIDE DEF r, Spent
<1>4. ASSUME NEW u \in DOMAIN w \ {t}
      PROVE  /\ IsEntry(r[u]) /\ r[u].hashBlock = w[u].hashBlock
             /\ r[u].credit = None \/ (r[u].credit = w[u].credit /\ ~Spent(u))
  <2>1. w[u] = [hashBlock |-> w[u].hashBlock, credit |-> w[u].credit]
    BY DEF IsWallet, IsEntry
  <2>2. CASE Spent(u)
    <3>1. r[u] = [w[u] EXCEPT !.credit = None]
      BY <1>1, <2>2
    <3>2. r[u] = [hashBlock |-> w[u].hashBlock, credit |-> None]
      BY <2>1, <3>1
    <3>3. QED
      BY <3>2 DEF IsEntry
  <2>3. CASE ~Spent(u)
    BY <1>1, <2>1, <2>3 DEF IsEntry
  <2>4. QED
    BY <2>2, <2>3
<1>5. IsEntry(r[t]) /\ r[t].hashBlock = hash /\ r[t].credit = None
  BY <1>1 DEF IsEntry
<1>6. IsWallet(r)
  BY <1>1, <1>4, <1>5 DEF IsWallet
<1>7. \A u \in DOMAIN r : r[u].hashBlock = HashAfter(w, {t}, hashBlock, u)
  BY <1>1, <1>4, <1>5 DEF HashAfter
<1>8. \A u \in DOMAIN r : r[u].credit = None \/ CreditStays(w, {t}, r[u], u)
  BY <1>1, <1>3, <1>4, <1>5 DEF CreditStays
<1>9. DOMAIN w \subseteq DOMAIN r /\ DOMAIN r \subseteq DOMAIN w \cup {s \in {t} : Ours(s)}
  BY <1>1
<1>10. QED
  BY <1>1, <1>6, <1>7, <1>8, <1>9 DEF Told, r

(* A wallet that is told of nothing stays. *)
LEMMA ToldOfNone == ASSUME NEW w, IsWallet(w), NEW hashBlock PROVE Told(w, {}, hashBlock, w)
BY DEF Told, HashAfter, CreditStays, Touches

(* SyncTransaction tells it, and the transaction is in the wallet if it      *)
(* involves it.                                                              *)
LEMMA SyncIs ==
    ASSUME NEW w, IsWallet(w), NEW t \in Tx, NEW hashBlock
    PROVE  /\ Told(w, {t}, hashBlock, SyncTransaction(w, t, hashBlock))
           /\ t \in DOMAIN SyncTransaction(w, t, hashBlock) <=> InvolvesMe(w, t)
<1> DEFINE r == SyncTransaction(w, t, hashBlock)
<1>1. CASE InvolvesMe(w, t)
  <2>1. t \in DOMAIN w \/ Ours(t)
    BY <1>1 DEF InvolvesMe, IsFromMe, Ours
  <2>2. QED
    BY <1>1, <2>1, AddedIs DEF SyncTransaction
<1>2. CASE ~InvolvesMe(w, t)
  <2>1. r = w /\ t \notin DOMAIN w
    BY <1>2 DEF SyncTransaction, InvolvesMe
  <2>2. \A u \in DOMAIN w : ~Touches({t}, u)
    BY <1>2 DEF InvolvesMe, IsFromMe, Touches
  <2>3. Told(w, {t}, hashBlock, w)
    <3>1. \A u \in DOMAIN w : w[u].hashBlock = HashAfter(w, {t}, hashBlock, u)
      BY <2>1 DEF HashAfter
    <3>2. QED
      BY <2>2, <3>1 DEF Told, CreditStays
  <2>4. QED
    BY <1>2, <2>1, <2>3
<1>3. QED
  BY <1>1, <1>2

(* What was told in two parts, of the same block, was told. *)
LEMMA ToldTwice ==
    ASSUME NEW w, NEW S, NEW hashBlock, NEW x, Told(w, S, hashBlock, x),
           NEW T, NEW y, Told(x, T, hashBlock, y)
    PROVE  Told(w, S \cup T, hashBlock, y)
<1>1. ASSUME NEW u \in DOMAIN y
      PROVE  y[u].hashBlock = HashAfter(w, S \cup T, hashBlock, u)
  <2>1. y[u].hashBlock = HashAfter(x, T, hashBlock, u)
    BY DEF Told
  <2>2. u \in DOMAIN x => x[u].hashBlock = HashAfter(w, S, hashBlock, u)
    BY DEF Told
  <2>3. u \in DOMAIN w => u \in DOMAIN x
    BY DEF Told
  <2>4. u \in DOMAIN x => u \in DOMAIN w \/ u \in S
    BY DEF Told
  <2>5. u \in DOMAIN y => u \in DOMAIN x \/ u \in T
    BY DEF Told
  <2>6. QED
    BY <2>1, <2>2, <2>3, <2>4, <2>5 DEF HashAfter
<1>2. ASSUME NEW u \in DOMAIN y, y[u].credit # None
      PROVE  CreditStays(w, S \cup T, y[u], u)
  <2>1. u \in DOMAIN x /\ y[u].credit = x[u].credit /\ ~Touches(T, u)
    BY <1>2 DEF Told, CreditStays
  <2>2. u \in DOMAIN w /\ x[u].credit = w[u].credit /\ ~Touches(S, u)
    BY <1>2, <2>1 DEF Told, CreditStays
  <2>3. QED
    BY <2>1, <2>2 DEF CreditStays, Touches
<1>3. IsWallet(y) /\ DOMAIN w \subseteq DOMAIN y /\ DOMAIN y \subseteq DOMAIN w \cup {s \in S \cup T : Ours(s)}
  BY DEF Told
<1>4. QED
  BY <1>1, <1>2, <1>3 DEF Told

(* The wallet is told of the transactions in order. *)
LEMMA SyncingIs ==
    ASSUME NEW w, NEW txs, Len(txs) \in Nat, NEW hashBlock
    PROVE  /\ Syncing(w, txs, hashBlock)[0] = w
           /\ \A n \in 1 .. Len(txs) : Syncing(w, txs, hashBlock)[n] = SyncTransaction(Syncing(w, txs, hashBlock)[n - 1], txs[n], hashBlock)
<1> DEFINE N == Len(txs)
           base == w
           Is(g, m) == g = [n \in 0 .. m |-> IF n = 0 THEN base ELSE SyncTransaction(g[n - 1], txs[n], hashBlock)]
           f == CHOOSE g : Is(g, N)
<1>1. N \in Nat
  OBVIOUS
<1>2. Syncing(w, txs, hashBlock) = f
  BY DEF Syncing
<1> HIDE DEF N, base
<1>3. ASSUME NEW m \in Nat, NEW g, Is(g, m) PROVE \E e : Is(e, m + 1)
  <2> DEFINE e == [n \in 0 .. m + 1 |-> IF n = 0 THEN base ELSE SyncTransaction(g[n - 1], txs[n], hashBlock)]
  <2>1. \A n \in 0 .. m : e[n] = g[n]
    BY <1>3
  <2>2. \A n \in 1 .. m + 1 : n - 1 \in 0 .. m
    OBVIOUS
  <2>3. \A n \in 0 .. m + 1 : (IF n = 0 THEN base ELSE SyncTransaction(e[n - 1], txs[n], hashBlock)) = (IF n = 0 THEN base ELSE SyncTransaction(g[n - 1], txs[n], hashBlock))
    <3> HIDE DEF e
    <3>1. \A n \in 1 .. m + 1 : e[n - 1] = g[n - 1]
      BY <2>1, <2>2
    <3>2. \A n \in 0 .. m + 1 : n = 0 \/ n \in 1 .. m + 1
      OBVIOUS
    <3>3. QED
      BY <3>1, <3>2
  <2>4. e = [n \in 0 .. m + 1 |-> IF n = 0 THEN base ELSE SyncTransaction(e[n - 1], txs[n], hashBlock)]
    BY <2>3, Zenon
  <2>5. QED
    BY <2>4
<1>4. \E e : Is(e, 0)
  <2> DEFINE e == [n \in 0 .. 0 |-> base]
  <2>1. e = [n \in 0 .. 0 |-> IF n = 0 THEN base ELSE SyncTransaction(e[n - 1], txs[n], hashBlock)]
    OBVIOUS
  <2>2. QED
    BY <2>1
<1>5. \E g : Is(g, N)
  <2> DEFINE S == {m \in 0 .. N : \E g : Is(g, m)}
  <2>1. 0 \in S
    BY <1>1, <1>4
  <2>2. ASSUME NEW n \in 1 .. N, n - 1 \in S PROVE n \in S
    <3> DEFINE l == n - 1
    <3>1. l \in Nat /\ l + 1 = n /\ n \in 0 .. N /\ \E g : Is(g, l)
      BY <1>1, <2>2
    <3> HIDE DEF l, Is
    <3>2. \E g : Is(g, l + 1)
      BY <1>3, <3>1
    <3>3. QED
      BY <3>1, <3>2
  <2> HIDE DEF S
  <2>3. N \in 0 .. N /\ \A n \in 0 .. N : n \in S
    BY <1>1, <2>1, <2>2, Upward
  <2>4. QED
    BY <2>3 DEF S
<1>6. Is(f, N)
  BY <1>5
<1> HIDE DEF f
<1>7. f[0] = base /\ \A n \in 1 .. N : f[n] = SyncTransaction(f[n - 1], txs[n], hashBlock)
  BY <1>1, <1>6
<1>8. QED
  BY <1>2, <1>7 DEF N, base

(* What is told in order was told of all. *)
LEMMA SyncAllIs ==
    ASSUME NEW w, IsWallet(w), NEW txs, Len(txs) \in Nat, \A n \in 1 .. Len(txs) : txs[n] \in Tx, NEW hashBlock
    PROVE  \A n \in 0 .. Len(txs) : Told(w, {txs[j] : j \in 1 .. n}, hashBlock, Syncing(w, txs, hashBlock)[n])
<1> DEFINE N == Len(txs)
           k == Syncing(w, txs, hashBlock)
           First(n) == {txs[j] : j \in 1 .. n}
           S == {n \in 0 .. N : Told(w, First(n), hashBlock, k[n])}
<1>1. N \in Nat
  OBVIOUS
<1>2. k[0] = w /\ \A n \in 1 .. N : k[n] = SyncTransaction(k[n - 1], txs[n], hashBlock)
  BY SyncingIs
<1> HIDE DEF k
<1>3. 0 \in S
  <2>1. First(0) = {}
    OBVIOUS
  <2>2. Told(w, First(0), hashBlock, k[0])
    BY <1>2, <2>1, ToldOfNone
  <2>3. QED
    BY <1>1, <2>2
<1>4. ASSUME NEW n \in 1 .. N, n - 1 \in S PROVE n \in S
  <2>1. Told(w, First(n - 1), hashBlock, k[n - 1])
    BY <1>4
  <2>2. First(n) = First(n - 1) \cup {txs[n]}
    <3>1. \A j : j \in 1 .. n <=> j \in 1 .. n - 1 \/ j = n
      BY <1>1
    <3>2. QED
      BY <3>1
  <2>3. IsWallet(k[n - 1]) /\ txs[n] \in Tx
    BY <2>1 DEF Told
  <2>4. Told(k[n - 1], {txs[n]}, hashBlock, k[n])
    BY <1>2, <2>3, SyncIs
  <2> HIDE DEF First
  <2>5. Told(w, First(n), hashBlock, k[n])
    BY <2>1, <2>2, <2>4, ToldTwice
  <2>6. QED
    BY <1>1, <2>5 DEF S
<1>5. \A n \in 0 .. N : n \in S
  <2> HIDE DEF S, N
  <2>1. QED
    BY <1>1, <1>3, <1>4, Upward
<1>6. QED
  BY <1>5 DEF k

(* Each of a sequence that is the wallet's is known to it when it is told of *)
(* the sequence, if what it spends of the wallet's is known or comes before. *)
LEMMA SyncAllKnows ==
    ASSUME NEW w, IsWallet(w), NEW txs, Len(txs) \in Nat, \A n \in 1 .. Len(txs) : txs[n] \in Tx, NEW hashBlock,
           \A n \in 1 .. Len(txs) : \A out \in prevouts(txs[n]) :
              out \in Mine => out[1] \in DOMAIN w \/ \E j \in 1 .. n - 1 : out[1] = txs[j]
    PROVE  \A n \in 1 .. Len(txs) : Ours(txs[n]) => txs[n] \in DOMAIN SyncAll(w, txs, hashBlock)
<1> DEFINE N == Len(txs)
           k == Syncing(w, txs, hashBlock)
           S == {n \in 0 .. N : \A j \in 1 .. n : Ours(txs[j]) => txs[j] \in DOMAIN k[n]}
<1>1. N \in Nat
  OBVIOUS
<1>2. k[0] = w /\ \A n \in 1 .. N : k[n] = SyncTransaction(k[n - 1], txs[n], hashBlock)
  BY SyncingIs
<1>3. \A n \in 0 .. N : IsWallet(k[n]) /\ DOMAIN w \subseteq DOMAIN k[n]
  BY SyncAllIs DEF Told
<1> HIDE DEF k
<1>4. 0 \in S
  BY <1>1
<1>5. ASSUME NEW n \in 1 .. N, n - 1 \in S PROVE n \in S
  <2>1. n - 1 \in 0 .. N /\ \A j \in 1 .. n - 1 : Ours(txs[j]) => txs[j] \in DOMAIN k[n - 1]
    BY <1>1, <1>5
  <2>2. /\ Told(k[n - 1], {txs[n]}, hashBlock, k[n])
        /\ InvolvesMe(k[n - 1], txs[n]) => txs[n] \in DOMAIN k[n]
    BY <1>2, <1>3, <2>1, SyncIs
  <2>3. DOMAIN k[n - 1] \subseteq DOMAIN k[n]
    BY <2>2 DEF Told
  <2>4. Ours(txs[n]) => InvolvesMe(k[n - 1], txs[n])
    <3>1. ASSUME NEW out \in prevouts(txs[n]), out \in Mine
          PROVE  out[1] \in DOMAIN k[n - 1]
      <4>1. CASE out[1] \in DOMAIN w
        BY <1>3, <2>1, <4>1
      <4>2. ASSUME NEW j \in 1 .. n - 1, out[1] = txs[j] PROVE out[1] \in DOMAIN k[n - 1]
        <5>1. j \in 1 .. Len(txs)
          BY <1>1
        <5>2. Ours(txs[j])
          BY <3>1, <4>2, <5>1 DEF Ours
        <5>3. QED
          BY <2>1, <4>2, <5>2
      <4>3. QED
        BY <3>1, <4>1, <4>2
    <3>2. QED
      BY <3>1 DEF Ours, InvolvesMe, IsFromMe
  <2>5. ASSUME NEW j \in 1 .. n, Ours(txs[j]) PROVE txs[j] \in DOMAIN k[n]
    <3>1. CASE j = n
      BY <2>2, <2>4, <2>5, <3>1
    <3>2. CASE j # n
      <4>1. j \in 1 .. n - 1
        BY <1>1, <3>2
      <4>2. QED
        BY <2>1, <2>3, <2>5, <4>1
    <3>3. QED
      BY <3>1, <3>2
  <2>6. QED
    BY <1>1, <2>5
<1>6. \A n \in 0 .. N : n \in S
  <2> HIDE DEF S, N
  <2>1. QED
    BY <1>1, <1>4, <1>5, Upward
<1>7. N \in 0 .. N
  BY <1>1
<1>8. QED
  BY <1>6, <1>7 DEF SyncAll, k

(* The transactions of a finite set can be put in order. *)
LEMMA SetToSeqIs ==
    ASSUME NEW S, IsFiniteSet(S)
    PROVE  /\ Len(SetToSeq(S)) \in Nat /\ DOMAIN SetToSeq(S) = 1 .. Len(SetToSeq(S))
           /\ {SetToSeq(S)[j] : j \in 1 .. Len(SetToSeq(S))} = S
<1> DEFINE n == Cardinality(S)
           f == SetToSeq(S)
<1>1. n \in Nat /\ ExistsBijection(1 .. n, S)
  BY FS_CardinalityType
<1>2. \E g \in [1 .. n -> S] : IsInjective(g)
  BY <1>1 DEF ExistsBijection, Bijection, Injection, IsInjective
<1>3. f \in [1 .. n -> S] /\ IsInjective(f)
  BY <1>2 DEF SetToSeq
<1> HIDE DEF f
<1>4. f \in Injection(1 .. n, S)
  BY <1>3 DEF Injection, IsInjective
<1>5. IsFiniteSet(1 .. n) /\ Cardinality(1 .. n) = n
  BY <1>1, FS_Interval
<1>6. f \in Surjection(1 .. n, S)
  BY <1>4, <1>5, FS_Injection
<1>7. Len(f) = n /\ DOMAIN f = 1 .. n
  BY <1>1, <1>3
<1>8. {f[j] : j \in 1 .. n} = S
  BY <1>3, <1>6 DEF Surjection
<1>9. QED
  BY <1>1, <1>7, <1>8 DEF f

-----------------------------------------------------------------------------
(* Blocks and depths *)

(* A block is named by the blocks up to it. *)
LEMMA BlockOfIs ==
    ASSUME NEW c, ChainOK(c)
    PROVE  /\ BlockOf(c) \in Seq(Blocks) /\ Len(BlockOf(c)) = Len(c) /\ Len(c) \in Nat
           /\ \A i \in 1 .. Len(c) : BlockOf(c)[i] = c[i].vtx
<1>1. Len(c) \in Nat /\ DOMAIN c = 1 .. Len(c) /\ \A h \in 1 .. Len(c) : c[h].vtx \in Blocks
  BY ChainIs
<1>2. QED
  BY <1>1 DEF BlockOf

(* It is in the active chain if the chain begins with it. *)
LEMMA PrefixIs ==
    ASSUME NEW c, ChainOK(c), NEW b \in Seq(Blocks)
    PROVE  IsPrefix(b, BlockOf(c)) <=> Len(b) <= Len(c) /\ \A i \in 1 .. Len(b) : b[i] = c[i].vtx
<1>1. /\ BlockOf(c) \in Seq(Blocks) /\ Len(BlockOf(c)) = Len(c) /\ Len(c) \in Nat
      /\ \A i \in 1 .. Len(c) : BlockOf(c)[i] = c[i].vtx
  BY BlockOfIs
<1>2. Len(b) \in Nat /\ SubSeq(b, 1, Len(b)) = b
  BY WholeIs
<1>3. ASSUME Len(b) <= Len(c)
      PROVE  b = SubSeq(BlockOf(c), 1, Len(b)) <=> \A i \in 1 .. Len(b) : b[i] = c[i].vtx
  <2> DEFINE d == SubSeq(BlockOf(c), 1, Len(b))
  <2>1. Len(b) \in 0 .. Len(BlockOf(c))
    BY <1>1, <1>2, <1>3
  <2>2. d \in Seq(Blocks) /\ Len(d) = Len(b) /\ \A i \in 1 .. Len(b) : d[i] = BlockOf(c)[i]
    BY <1>1, <2>1, Prefix
  <2>3. \A i \in 1 .. Len(b) : i \in 1 .. Len(c)
    BY <1>1, <1>2, <1>3
  <2> HIDE DEF d
  <2>4. b = d <=> \A i \in 1 .. Len(b) : b[i] = d[i]
    BY <1>2, <2>2
  <2>5. QED
    BY <1>1, <2>2, <2>3, <2>4 DEF d
<1>4. QED
  BY <1>1, <1>2, <1>3 DEF IsPrefix

(* A hashBlock of t that is right for the chain c: it is a block that has t, *)
(* and one of the chain if t is there.                                       *)
GoodHash(t, hashBlock, c) ==
    /\ hashBlock # None => /\ hashBlock \in Seq(Blocks) /\ Len(hashBlock) > 0
                           /\ t \in ToSet(hashBlock[Len(hashBlock)])
    /\ t \in InChain(c) => hashBlock # None /\ IsPrefix(hashBlock, BlockOf(c))

(* The transactions of a chain are those of its blocks. *)
LEMMA InChainIn ==
    ASSUME NEW c, ChainOK(c)
    PROVE  \A t : t \in InChain(c) <=> \E h \in 1 .. Len(c) : t \in ToSet(c[h].vtx)
<1>1. DOMAIN c = 1 .. Len(c)
  BY ChainIs
<1>2. \A p : p \in Places(c) <=> \E h \in DOMAIN c : \E i \in DOMAIN c[h].vtx : p = <<h, i>>
  BY PlacesAre
<1>3. \A h, i : TxAt(c, <<h, i>>) = c[h].vtx[i]
  BY DEF TxAt
<1>4. ASSUME NEW t \in InChain(c) PROVE \E h \in 1 .. Len(c) : t \in ToSet(c[h].vtx)
  <2>1. PICK p \in Places(c) : t = TxAt(c, p)
    BY DEF InChain
  <2>2. PICK h \in DOMAIN c : \E i \in DOMAIN c[h].vtx : p = <<h, i>>
    BY <1>2, <2>1
  <2>3. PICK i \in DOMAIN c[h].vtx : p = <<h, i>>
    BY <2>2
  <2>4. t = c[h].vtx[i]
    BY <1>3, <2>1, <2>3
  <2>5. QED
    BY <1>1, <2>4 DEF ToSet
<1>5. ASSUME NEW h \in 1 .. Len(c), NEW t \in ToSet(c[h].vtx) PROVE t \in InChain(c)
  <2>1. PICK i \in DOMAIN c[h].vtx : t = c[h].vtx[i]
    BY DEF ToSet
  <2>2. <<h, i>> \in Places(c)
    BY <1>1, <1>2
  <2>3. t = TxAt(c, <<h, i>>)
    BY <1>3, <2>1
  <2>4. QED
    BY <2>2, <2>3 DEF InChain
<1>6. QED
  BY <1>4, <1>5

LEMMA ConfirmedIs == ChainOK(chain) => Confirmed = InChain(chain)
<1>1. SUFFICES ASSUME ChainOK(chain) PROVE Confirmed = InChain(chain)
  OBVIOUS
<1>2. DOMAIN chain = 1 .. Len(chain)
  BY <1>1, ChainIs
<1>3. \A t : t \in InChain(chain) <=> \E h \in 1 .. Len(chain) : t \in ToSet(chain[h].vtx)
  BY <1>1, InChainIn
<1>4. QED
  BY <1>2, <1>3 DEF Confirmed

(* A block that has t has it at its height, if it is of the active chain. *)
LEMMA BlockHasIt ==
    ASSUME NEW c, ChainOK(c), NEW t, NEW b, b # None, GoodHash(t, b, c), IsPrefix(b, BlockOf(c))
    PROVE  Len(b) \in 1 .. Len(c) /\ t \in ToSet(c[Len(b)].vtx)
<1>1. b \in Seq(Blocks) /\ Len(b) > 0 /\ t \in ToSet(b[Len(b)])
  BY DEF GoodHash
<1>2. Len(b) <= Len(c) /\ \A i \in 1 .. Len(b) : b[i] = c[i].vtx
  BY <1>1, PrefixIs
<1>3. Len(b) \in 1 .. Len(b) /\ Len(b) \in 1 .. Len(c)
  BY <1>1, <1>2, ChainIs
<1>4. QED
  BY <1>1, <1>2, <1>3

(* The depth of a transaction with a right hashBlock is that of its block if *)
(* it is in the chain, 0 if it is in the pool only, and else -1.             *)
LEMMA DepthIs ==
    ASSUME ChainOK(chain), NEW t, NEW b, GoodHash(t, b, chain)
    PROVE  /\ t \in InChain(chain) =>
                /\ GetDepthInMainChain(t, b) >= 1
                /\ \E h \in 1 .. Len(chain) : t \in ToSet(chain[h].vtx) /\ GetDepthInMainChain(t, b) = Height - h + 1
           /\ t \notin InChain(chain) => GetDepthInMainChain(t, b) = IF t \in pool.mapTx THEN 0 ELSE -1
<1>1. CASE b # None /\ IsPrefix(b, BlockOf(chain))
  <2>1. Len(b) \in 1 .. Len(chain) /\ t \in ToSet(chain[Len(b)].vtx)
    BY <1>1, BlockHasIt
  <2>2. GetDepthInMainChain(t, b) = Height - Len(b) + 1
    BY <1>1 DEF GetDepthInMainChain
  <2>3. Len(chain) \in Nat
    BY ChainIs
  <2>4. t \in InChain(chain)
    BY <2>1, InChainIn
  <2>5. QED
    BY <2>1, <2>2, <2>3, <2>4 DEF Height
<1>2. CASE ~(b # None /\ IsPrefix(b, BlockOf(chain)))
  <2>1. t \notin InChain(chain)
    BY <1>2 DEF GoodHash
  <2>2. QED
    BY <1>2, <2>1 DEF GetDepthInMainChain
<1>3. QED
  BY <1>1, <1>2

(* No block is None. *)
LEMMA BlockIsSome == ASSUME NEW b \in Seq(Blocks) PROVE b # None
BY WalletAssumption

(* The block at height i is right for each transaction it has. *)
LEMMA OwnBlockIsGood ==
    ASSUME NEW c, ChainOK(c), NEW i \in 1 .. Len(c), NEW t \in ToSet(c[i].vtx)
    PROVE  GoodHash(t, BlockOf(SubSeq(c, 1, i)), c) /\ BlockOf(SubSeq(c, 1, i)) # None
<1> DEFINE d == SubSeq(c, 1, i)
           b == BlockOf(d)
<1>1. Len(c) \in Nat
  BY ChainIs
<1>2. ChainOK(d) /\ Len(d) = i /\ \A j \in 1 .. i : d[j] = c[j]
  <2>1. i \in 0 .. Len(c)
    BY <1>1
  <2>2. QED
    BY <2>1, Prefix DEF ChainOK
<1> HIDE DEF d
<1>3. b \in Seq(Blocks) /\ Len(b) = i /\ \A j \in 1 .. i : b[j] = c[j].vtx
  BY <1>2, BlockOfIs
<1> HIDE DEF b
<1>4. b # None
  BY <1>3, BlockIsSome
<1>5. IsPrefix(b, BlockOf(c))
  BY <1>1, <1>3, PrefixIs
<1>6. i \in 1 .. i /\ i > 0
  BY <1>1
<1>7. GoodHash(t, b, c)
  BY <1>3, <1>4, <1>5, <1>6 DEF GoodHash
<1>8. QED
  BY <1>4, <1>7 DEF b, d

(* A block that is right stays so when one without the transaction is        *)
(* connected.                                                                *)
LEMMA GoodHashConnected ==
    ASSUME NEW c, ChainOK(c), NEW b, NEW e, e = Append(c, b), ChainOK(e), b.vtx \in Blocks,
           NEW t, t \notin ToSet(b.vtx), NEW hashBlock, GoodHash(t, hashBlock, c)
    PROVE  GoodHash(t, hashBlock, e)
<1>1. InChain(e) = InChain(c) \cup {b.vtx[i] : i \in 1 .. Len(b.vtx)}
  BY InChainAppend
<1>2. t \in InChain(e) => t \in InChain(c)
  BY <1>1, BlockIs DEF ToSet
<1>3. ASSUME hashBlock \in Seq(Blocks), IsPrefix(hashBlock, BlockOf(c)) PROVE IsPrefix(hashBlock, BlockOf(e))
  <2>1. Len(e) = Len(c) + 1 /\ Len(c) \in Nat /\ \A i \in 1 .. Len(c) : e[i] = c[i]
    <3>1. Len(c) \in Nat /\ DOMAIN c = 1 .. Len(c) /\ c \in Seq([vtx : Blocks, vtxundo : Seq(Seq(Nat))])
      BY ChainIs DEF ChainOK
    <3>2. QED
      BY <3>1
  <2>2. Len(hashBlock) <= Len(c) /\ Len(hashBlock) \in Nat /\ \A i \in 1 .. Len(hashBlock) : hashBlock[i] = c[i].vtx
    BY <1>3, PrefixIs
  <2>3. Len(hashBlock) <= Len(e) /\ \A i \in 1 .. Len(hashBlock) : hashBlock[i] = e[i].vtx
    <3>1. \A i \in 1 .. Len(hashBlock) : i \in 1 .. Len(c)
      BY <2>1, <2>2
    <3>2. QED
      BY <2>1, <2>2, <3>1
  <2>4. QED
    BY <1>3, <2>3, PrefixIs
<1>4. QED
  BY <1>2, <1>3 DEF GoodHash

(* It stays so when the last block is disconnected, as no transaction is     *)
(* twice in the chain.                                                       *)
LEMMA GoodHashDisconnected ==
    ASSUME NEW c, ChainOK(c), c # <<>>, Single(c), NEW t, NEW hashBlock, GoodHash(t, hashBlock, c)
    PROVE  GoodHash(t, hashBlock, SubSeq(c, 1, Len(c) - 1))
<1> DEFINE h == Len(c)
           d == SubSeq(c, 1, h - 1)
<1>1. ChainOK(d) /\ InChain(c) = InChain(d) \cup {c[h].vtx[i] : i \in 1 .. Len(c[h].vtx)}
  BY InChainPrefix
<1>2. h \in Nat /\ h # 0 /\ DOMAIN c = 1 .. h
  BY ChainIs DEF ChainOK
<1>3. Len(d) = h - 1 /\ \A i \in 1 .. h - 1 : d[i] = c[i]
  <2>1. h - 1 \in 0 .. h
    BY <1>2
  <2>2. QED
    BY <2>1, Prefix DEF ChainOK
<1> HIDE DEF d
<1>4. ASSUME t \in InChain(d) PROVE hashBlock # None /\ IsPrefix(hashBlock, BlockOf(d))
  <2>1. t \in InChain(c)
    BY <1>1, <1>4
  <2>2. hashBlock # None /\ IsPrefix(hashBlock, BlockOf(c)) /\ hashBlock \in Seq(Blocks)
    BY <2>1 DEF GoodHash
  <2>3. Len(hashBlock) \in 1 .. h /\ t \in ToSet(c[Len(hashBlock)].vtx)
    BY <2>2, BlockHasIt
  <2>4. PICK k \in 1 .. h - 1 : t \in ToSet(c[k].vtx)
    <3>1. PICK k \in 1 .. Len(d) : t \in ToSet(d[k].vtx)
      BY <1>1, <1>4, InChainIn
    <3>2. QED
      BY <1>3, <3>1
  <2>5. k = Len(hashBlock)
    <3> DEFINE l == Len(hashBlock)
    <3>1. PICK i \in DOMAIN c[k].vtx : t = c[k].vtx[i]
      BY <2>4 DEF ToSet
    <3>2. PICK j \in DOMAIN c[l].vtx : t = c[l].vtx[j]
      BY <2>3 DEF ToSet
    <3>3. k \in DOMAIN c /\ l \in DOMAIN c
      BY <1>2, <2>3
    <3> HIDE DEF l
    <3>4. <<k, i>> \in Places(c) /\ <<l, j>> \in Places(c)
      BY <3>3, PlacesAre
    <3>5. TxAt(c, <<k, i>>) = t /\ TxAt(c, <<l, j>>) = t
      BY <3>1, <3>2 DEF TxAt
    <3>6. <<k, i>> = <<l, j>>
      BY <3>4, <3>5 DEF Single
    <3>7. QED
      BY <3>6 DEF l
  <2>6. Len(hashBlock) <= h - 1
    BY <1>2, <2>4, <2>5
  <2>7. \A i \in 1 .. Len(hashBlock) : hashBlock[i] = d[i].vtx
    <3>1. \A i \in 1 .. Len(hashBlock) : hashBlock[i] = c[i].vtx
      BY <2>2, PrefixIs
    <3>2. \A i \in 1 .. Len(hashBlock) : i \in 1 .. h - 1
      BY <1>2, <2>3, <2>6
    <3>3. QED
      BY <1>3, <3>1, <3>2
  <2>8. QED
    BY <1>1, <1>3, <2>2, <2>6, <2>7, PrefixIs
<1>5. GoodHash(t, hashBlock, d)
  BY <1>4 DEF GoodHash
<1>6. QED
  BY <1>5 DEF d

(* A block that was not connected is right for its transactions, if they are *)
(* not in the chain.                                                         *)
LEMMA UnconnectedIsGood ==
    ASSUME NEW c, ChainOK(c), NEW vtx \in Blocks, NEW t \in ToSet(vtx), t \notin InChain(c)
    PROVE  GoodHash(t, Append(BlockOf(c), vtx), c) /\ Append(BlockOf(c), vtx) # None
<1> DEFINE b == Append(BlockOf(c), vtx)
<1>1. BlockOf(c) \in Seq(Blocks) /\ Len(BlockOf(c)) \in Nat
  BY BlockOfIs
<1>2. b \in Seq(Blocks) /\ Len(b) > 0 /\ b[Len(b)] = vtx
  BY <1>1
<1> HIDE DEF b
<1>3. GoodHash(t, b, c)
  BY <1>2 DEF GoodHash
<1>4. QED
  BY <1>2, <1>3, BlockIsSome DEF b

(* No block is right for what is not in the chain. *)
LEMMA NoneIsGood == ASSUME NEW c, NEW t, t \notin InChain(c) PROVE GoodHash(t, None, c)
BY DEF GoodHash

(* All of a sequence was told. *)
LEMMA SyncAllTold ==
    ASSUME NEW w, IsWallet(w), NEW txs, Len(txs) \in Nat, DOMAIN txs = 1 .. Len(txs),
           \A n \in 1 .. Len(txs) : txs[n] \in Tx, NEW hashBlock
    PROVE  Told(w, ToSet(txs), hashBlock, SyncAll(w, txs, hashBlock))
<1>1. Len(txs) \in 0 .. Len(txs)
  OBVIOUS
<1>2. Told(w, {txs[j] : j \in 1 .. Len(txs)}, hashBlock, Syncing(w, txs, hashBlock)[Len(txs)])
  BY <1>1, SyncAllIs
<1>3. QED
  BY <1>2 DEF ToSet, SyncAll

(* A block's transactions are in order. *)
LEMMA BlockTold ==
    ASSUME NEW w, IsWallet(w), NEW vtx \in Blocks, NEW hashBlock
    PROVE  Told(w, ToSet(vtx), hashBlock, SyncAll(w, vtx, hashBlock)) /\ ToSet(vtx) \subseteq Tx
<1>1. Len(vtx) \in Nat /\ DOMAIN vtx = 1 .. Len(vtx) /\ \A n \in 1 .. Len(vtx) : vtx[n] \in Tx
  BY BlockIs
<1>2. QED
  BY <1>1, SyncAllTold DEF ToSet

-----------------------------------------------------------------------------
(* Starting *)

(* ScanForWalletTransactions goes through the blocks in order. *)
LEMMA RescanningIs ==
    ASSUME NEW w, NEW c, NEW h, Len(c) - h \in Nat
    PROVE  /\ Rescanning(w, c, h)[0] = w
           /\ \A n \in 1 .. Len(c) - h : Rescanning(w, c, h)[n] = SyncAll(Rescanning(w, c, h)[n - 1], c[h + n].vtx, BlockOf(SubSeq(c, 1, h + n)))
<1> DEFINE N == Len(c) - h
           base == w
           Is(g, m) == g = [n \in 0 .. m |-> IF n = 0 THEN base ELSE SyncAll(g[n - 1], c[h + n].vtx, BlockOf(SubSeq(c, 1, h + n)))]
           f == CHOOSE g : Is(g, N)
<1>1. N \in Nat
  OBVIOUS
<1>2. Rescanning(w, c, h) = f
  BY DEF Rescanning
<1> HIDE DEF N, base
<1>3. ASSUME NEW m \in Nat, NEW g, Is(g, m) PROVE \E e : Is(e, m + 1)
  <2> DEFINE e == [n \in 0 .. m + 1 |-> IF n = 0 THEN base ELSE SyncAll(g[n - 1], c[h + n].vtx, BlockOf(SubSeq(c, 1, h + n)))]
  <2>1. \A n \in 0 .. m : e[n] = g[n]
    BY <1>3
  <2>2. \A n \in 1 .. m + 1 : n - 1 \in 0 .. m
    OBVIOUS
  <2>3. \A n \in 0 .. m + 1 : (IF n = 0 THEN base ELSE SyncAll(e[n - 1], c[h + n].vtx, BlockOf(SubSeq(c, 1, h + n)))) = (IF n = 0 THEN base ELSE SyncAll(g[n - 1], c[h + n].vtx, BlockOf(SubSeq(c, 1, h + n))))
    <3> HIDE DEF e
    <3>1. \A n \in 1 .. m + 1 : e[n - 1] = g[n - 1]
      BY <2>1, <2>2
    <3>2. \A n \in 0 .. m + 1 : n = 0 \/ n \in 1 .. m + 1
      OBVIOUS
    <3>3. QED
      BY <3>1, <3>2
  <2>4. e = [n \in 0 .. m + 1 |-> IF n = 0 THEN base ELSE SyncAll(e[n - 1], c[h + n].vtx, BlockOf(SubSeq(c, 1, h + n)))]
    BY <2>3, Zenon
  <2>5. QED
    BY <2>4
<1>4. \E e : Is(e, 0)
  <2> DEFINE e == [n \in 0 .. 0 |-> base]
  <2>1. e = [n \in 0 .. 0 |-> IF n = 0 THEN base ELSE SyncAll(e[n - 1], c[h + n].vtx, BlockOf(SubSeq(c, 1, h + n)))]
    OBVIOUS
  <2>2. QED
    BY <2>1
<1>5. \E g : Is(g, N)
  <2> DEFINE S == {m \in 0 .. N : \E g : Is(g, m)}
  <2>1. 0 \in S
    BY <1>1, <1>4
  <2>2. ASSUME NEW n \in 1 .. N, n - 1 \in S PROVE n \in S
    <3> DEFINE l == n - 1
    <3>1. l \in Nat /\ l + 1 = n /\ n \in 0 .. N /\ \E g : Is(g, l)
      BY <1>1, <2>2
    <3> HIDE DEF l, Is
    <3>2. \E g : Is(g, l + 1)
      BY <1>3, <3>1
    <3>3. QED
      BY <3>1, <3>2
  <2> HIDE DEF S
  <2>3. \A n \in 1 .. N : n - 1 \in S => n \in S
    BY <2>2
  <2>4. \A n \in 0 .. N : n \in S
    BY ONLY <1>1, <2>1, <2>3, Upward
  <2>5. N \in 0 .. N
    BY <1>1
  <2>6. QED
    BY <2>4, <2>5 DEF S
<1>6. Is(f, N)
  BY <1>5
<1> HIDE DEF f
<1>7. f[0] = base /\ \A n \in 1 .. N : f[n] = SyncAll(f[n - 1], c[h + n].vtx, BlockOf(SubSeq(c, 1, h + n)))
  BY <1>1, <1>6
<1>8. QED
  BY <1>2, <1>7 DEF N, base

(* A wallet whose blocks are right for the chain and whose caches are empty. *)
Fresh(w, c) ==
    /\ IsWallet(w) /\ DOMAIN w \subseteq Tx
    /\ \A t \in DOMAIN w : GoodHash(t, w[t].hashBlock, c) /\ w[t].credit = None

(* LoadWallet leaves the caches out. *)
LEMMA LoadedIs ==
    ASSUME NEW w, IsWallet(w), NEW c, DOMAIN w \subseteq Tx, \A t \in DOMAIN w : GoodHash(t, w[t].hashBlock, c)
    PROVE  Fresh(Loaded(w), c) /\ DOMAIN Loaded(w) = DOMAIN w
<1> DEFINE r == Loaded(w)
<1>1. DOMAIN r = DOMAIN w /\ r = [t \in DOMAIN r |-> r[t]] /\ \A t \in DOMAIN w : r[t] = [w[t] EXCEPT !.credit = None]
  BY DEF Loaded
<1> HIDE DEF r
<1>2. ASSUME NEW t \in DOMAIN w PROVE r[t] = [hashBlock |-> w[t].hashBlock, credit |-> None]
  <2>1. w[t] = [hashBlock |-> w[t].hashBlock, credit |-> w[t].credit]
    BY DEF IsWallet, IsEntry
  <2>2. QED
    BY <1>1, <2>1
<1>3. ASSUME NEW t \in DOMAIN w PROVE IsEntry(r[t]) /\ r[t].hashBlock = w[t].hashBlock /\ r[t].credit = None
  <2>1. r[t] = [hashBlock |-> w[t].hashBlock, credit |-> None]
    BY <1>2
  <2>2. QED
    BY <2>1 DEF IsEntry
<1>4. QED
  BY <1>1, <1>3 DEF Fresh, IsWallet, r

(* A block of the chain keeps it so. *)
LEMMA FreshStep ==
    ASSUME NEW c, ChainOK(c), NEW w, Fresh(w, c), NEW i \in 1 .. Len(c),
           NEW r, r = SyncAll(w, c[i].vtx, BlockOf(SubSeq(c, 1, i)))
    PROVE  Fresh(r, c) /\ DOMAIN w \subseteq DOMAIN r
<1> DEFINE b == BlockOf(SubSeq(c, 1, i))
           S == ToSet(c[i].vtx)
<1>1. c[i].vtx \in Blocks
  BY ChainIs
<1>2. Told(w, S, b, r) /\ S \subseteq Tx
  BY <1>1, BlockTold DEF Fresh
<1>3. \A t \in S : GoodHash(t, b, c) /\ b # None
  BY OwnBlockIsGood
<1> HIDE DEF b, S
<1>4. ASSUME NEW t \in DOMAIN r PROVE GoodHash(t, r[t].hashBlock, c) /\ r[t].credit = None
  <2>1. r[t].hashBlock = HashAfter(w, S, b, t) /\ (t \in DOMAIN w \/ t \in S)
    BY <1>2 DEF Told
  <2>2. GoodHash(t, r[t].hashBlock, c)
    BY <1>3, <2>1 DEF HashAfter, Fresh
  <2>3. r[t].credit = None
    BY <1>2 DEF Told, CreditStays, Fresh
  <2>4. QED
    BY <2>2, <2>3
<1>5. QED
  BY <1>2, <1>4 DEF Fresh, Told

(* A rescan keeps it so, wherever it begins, and forgets nothing. *)
LEMMA RescannedIs ==
    ASSUME NEW c, ChainOK(c), NEW w, Fresh(w, c), NEW h \in 0 .. Len(c)
    PROVE  Fresh(Rescanned(w, c, h), c) /\ DOMAIN w \subseteq DOMAIN Rescanned(w, c, h)
<1> DEFINE N == Len(c) - h
           k == Rescanning(w, c, h)
           S == {n \in 0 .. N : Fresh(k[n], c) /\ DOMAIN w \subseteq DOMAIN k[n]}
<1>1. N \in Nat /\ Len(c) \in Nat
  BY ChainIs
<1>2. k[0] = w /\ \A n \in 1 .. N : k[n] = SyncAll(k[n - 1], c[h + n].vtx, BlockOf(SubSeq(c, 1, h + n)))
  BY <1>1, RescanningIs
<1> HIDE DEF k
<1>3. 0 \in S
  BY <1>1, <1>2
<1>4. ASSUME NEW n \in 1 .. N, n - 1 \in S PROVE n \in S
  <2>1. Fresh(k[n - 1], c) /\ DOMAIN w \subseteq DOMAIN k[n - 1]
    BY <1>4
  <2>2. h + n \in 1 .. Len(c)
    BY <1>1
  <2>3. Fresh(k[n], c) /\ DOMAIN k[n - 1] \subseteq DOMAIN k[n]
    BY <1>2, <2>1, <2>2, FreshStep
  <2>4. QED
    BY <1>1, <2>1, <2>3
<1>5. \A n \in 0 .. N : n \in S
  <2> HIDE DEF S, N
  <2>1. QED
    BY <1>1, <1>3, <1>4, Upward
<1>6. N \in 0 .. N
  BY <1>1
<1>7. QED
  BY <1>5, <1>6 DEF Rescanned, k

-----------------------------------------------------------------------------
(* Reaccepting *)

(* ReacceptWalletTransactions goes through the transactions in order. *)
LEMMA ReacceptingIs ==
    ASSUME Len(HashOrder) \in Nat
    PROVE  /\ Reaccepting[0] = [pool |-> pool, wallet |-> mapWallet]
           /\ \A n \in 1 .. Len(HashOrder) : Reaccepting[n] = Reaccept(Reaccepting[n - 1], HashOrder[n])
<1> DEFINE N == Len(HashOrder)
           base == [pool |-> pool, wallet |-> mapWallet]
           Is(g, m) == g = [n \in 0 .. m |-> IF n = 0 THEN base ELSE Reaccept(g[n - 1], HashOrder[n])]
           f == CHOOSE g : Is(g, N)
<1>1. N \in Nat
  OBVIOUS
<1>2. Reaccepting = f
  BY DEF Reaccepting
<1> HIDE DEF N, base
<1>3. ASSUME NEW m \in Nat, NEW g, Is(g, m) PROVE \E e : Is(e, m + 1)
  <2> DEFINE e == [n \in 0 .. m + 1 |-> IF n = 0 THEN base ELSE Reaccept(g[n - 1], HashOrder[n])]
  <2>1. \A n \in 0 .. m : e[n] = g[n]
    BY <1>3
  <2>2. \A n \in 1 .. m + 1 : n - 1 \in 0 .. m
    OBVIOUS
  <2>3. \A n \in 0 .. m + 1 : (IF n = 0 THEN base ELSE Reaccept(e[n - 1], HashOrder[n])) = (IF n = 0 THEN base ELSE Reaccept(g[n - 1], HashOrder[n]))
    <3> HIDE DEF e
    <3>1. \A n \in 1 .. m + 1 : e[n - 1] = g[n - 1]
      BY <2>1, <2>2
    <3>2. \A n \in 0 .. m + 1 : n = 0 \/ n \in 1 .. m + 1
      OBVIOUS
    <3>3. QED
      BY <3>1, <3>2
  <2>4. e = [n \in 0 .. m + 1 |-> IF n = 0 THEN base ELSE Reaccept(e[n - 1], HashOrder[n])]
    BY <2>3, Zenon
  <2>5. QED
    BY <2>4
<1>4. \E e : Is(e, 0)
  <2> DEFINE e == [n \in 0 .. 0 |-> base]
  <2>1. e = [n \in 0 .. 0 |-> IF n = 0 THEN base ELSE Reaccept(e[n - 1], HashOrder[n])]
    OBVIOUS
  <2>2. QED
    BY <2>1
<1>5. \E g : Is(g, N)
  <2> DEFINE S == {m \in 0 .. N : \E g : Is(g, m)}
  <2>1. 0 \in S
    BY <1>1, <1>4
  <2>2. ASSUME NEW n \in 1 .. N, n - 1 \in S PROVE n \in S
    <3> DEFINE l == n - 1
    <3>1. l \in Nat /\ l + 1 = n /\ n \in 0 .. N /\ \E g : Is(g, l)
      BY <1>1, <2>2
    <3> HIDE DEF l, Is
    <3>2. \E g : Is(g, l + 1)
      BY <1>3, <3>1
    <3>3. QED
      BY <3>1, <3>2
  <2> HIDE DEF S
  <2>3. N \in 0 .. N /\ \A n \in 0 .. N : n \in S
    BY <1>1, <2>1, <2>2, Upward
  <2>4. QED
    BY <2>3 DEF S
<1>6. Is(f, N)
  BY <1>5
<1> HIDE DEF f
<1>7. f[0] = base /\ \A n \in 1 .. N : f[n] = Reaccept(f[n - 1], HashOrder[n])
  BY <1>1, <1>6
<1>8. QED
  BY <1>2, <1>7 DEF N, base

-----------------------------------------------------------------------------
(* Blocks bring new transactions *)

(* No block that could be connected has a coinbase of the chain. *)
NewCoinBases ==
    \A vtx \in Blocks :
        Height < MaxHeight /\ Connected(vtx).ok =>
            \A i \in 1 .. Len(vtx) : vtx[i] \in CoinBase => vtx[i] \notin InChain(chain)

(* Then no transaction is in the chain twice, and none of the block's is in  *)
(* the chain.                                                                *)
LEMMA NewBlock ==
    ASSUME LInv, CoinBasesOnce(chain), NewCoinBases, NEW vtx \in Blocks, Height < MaxHeight, Connected(vtx).ok,
           NEW e, e = Append(chain, [vtx |-> vtx, vtxundo |-> Connected(vtx).vtxundo])
    PROVE  /\ ChainInv(e) /\ CoinBasesOnce(e) /\ InChain(e) = InChain(chain) \cup ToSet(vtx)
           /\ \A t \in ToSet(vtx) : t \notin InChain(chain)
<1> DEFINE b == [vtx |-> vtx, vtxundo |-> Connected(vtx).vtxundo]
           l == Len(chain) + 1
<1>1. ChainInv(e) /\ ChainOK(chain) /\ e = Append(chain, b) /\ b.vtx = vtx
  BY ConnectedIs DEF LInv, ChainInv
<1> HIDE DEF b
<1>2. /\ Places(e) = Places(chain) \cup {<<l, i>> : i \in 1 .. Len(vtx)}
      /\ \A p \in Places(chain) : TxAt(e, p) = TxAt(chain, p) /\ p[1] < l
      /\ \A i \in 1 .. Len(vtx) : TxAt(e, <<l, i>>) = vtx[i]
  BY <1>1, PlacesAppend
<1> HIDE DEF l
<1>3. /\ DOMAIN vtx = 1 .. Len(vtx) /\ \A i, j \in 1 .. Len(vtx) : vtx[i] = vtx[j] => i = j
  BY BlockIs
<1>4. \A i \in 1 .. Len(vtx) : vtx[i] \in CoinBase => vtx[i] \notin InChain(chain)
  BY DEF NewCoinBases
<1>5. CoinBasesOnce(e)
  <2> SUFFICES ASSUME NEW p \in Places(e), NEW q \in Places(e), TxAt(e, p) \in CoinBase, TxAt(e, p) = TxAt(e, q)
               PROVE  p = q
    BY DEF CoinBasesOnce
  <2>1. \A r \in Places(chain) : TxAt(e, r) \in InChain(chain)
    BY <1>2 DEF InChain
  <2>2. CASE p \in Places(chain) /\ q \in Places(chain)
    BY <1>2, <2>2 DEF CoinBasesOnce
  <2>3. CASE p \notin Places(chain) /\ q \in Places(chain)
    BY <1>2, <1>4, <2>1, <2>3
  <2>4. CASE p \in Places(chain) /\ q \notin Places(chain)
    BY <1>2, <1>4, <2>1, <2>4
  <2>5. CASE p \notin Places(chain) /\ q \notin Places(chain)
    BY <1>2, <1>3, <2>5
  <2>6. QED
    BY <2>2, <2>3, <2>4, <2>5
<1>6. Single(e)
  BY <1>1, <1>5, OnceEach
<1>7. ASSUME NEW t \in ToSet(vtx), t \in InChain(chain) PROVE FALSE
  <2>1. PICK i \in 1 .. Len(vtx) : t = vtx[i]
    BY <1>3 DEF ToSet
  <2>2. PICK p \in Places(chain) : t = TxAt(chain, p)
    BY <1>7 DEF InChain
  <2>3. p = <<l, i>>
    <3>1. p \in Places(e) /\ TxAt(e, p) = t
      BY <1>2, <2>2
    <3>2. <<l, i>> \in Places(e) /\ TxAt(e, <<l, i>>) = t
      BY <1>2, <2>1
    <3>3. QED
      BY <1>6, <3>1, <3>2 DEF Single
  <2>4. p[1] < l /\ p[1] = l /\ l \in Nat
    BY <1>1, <1>2, <2>3, ChainIs DEF l
  <2>5. QED
    BY <2>4
<1>8. InChain(e) = InChain(chain) \cup ToSet(vtx)
  BY <1>1, <1>3, InChainAppend DEF ToSet
<1>9. QED
  BY <1>1, <1>5, <1>7, <1>8

(* What is left of a chain has its coinbases once too. *)
LEMMA OncePrefix ==
    ASSUME NEW c, ChainOK(c), c # <<>>, CoinBasesOnce(c)
    PROVE  CoinBasesOnce(SubSeq(c, 1, Len(c) - 1))
<1> DEFINE d == SubSeq(c, 1, Len(c) - 1)
           b == c[Len(c)]
<1>1. ChainOK(d) /\ b.vtx \in Blocks /\ Append(d, b) = c
  BY InChainPrefix
<1> HIDE DEF d, b
<1>2. /\ Places(d) \subseteq Places(c)
      /\ \A p \in Places(d) : TxAt(c, p) = TxAt(d, p)
  BY <1>1, PlacesAppend
<1>3. CoinBasesOnce(d)
  BY <1>2 DEF CoinBasesOnce
<1>4. QED
  BY <1>3 DEF d

-----------------------------------------------------------------------------
(* The invariant of the wallet *)

(* What is in a cache are outputs of t that are the wallet's, and that no    *)
(* transaction of X spends.                                                  *)
CreditOK(credit, t, X) ==
    credit = None \/
    /\ credit \subseteq Mine
    /\ \A out \in credit : out[1] = t /\ \A s \in X : out \notin prevouts(s)

(* The wallet w knows the transactions of X that are its own; where they are *)
(* in the chain c, and what they leave in the caches.                        *)
WalletIs(w, c, X) ==
    /\ IsWallet(w) /\ DOMAIN w \subseteq Tx
    /\ \A t \in DOMAIN w : GoodHash(t, w[t].hashBlock, c)
    /\ \A t \in X : Ours(t) => t \in DOMAIN w
    /\ \A t \in DOMAIN w : CreditOK(w[t].credit, t, X)

(* What is told leaves only right credits in the caches. *)
LEMMA ToldCredits ==
    ASSUME NEW w, NEW X, \A t \in DOMAIN w : CreditOK(w[t].credit, t, X),
           NEW S, NEW hashBlock, NEW r, Told(w, S, hashBlock, r), NEW Y, Y \subseteq X \cup S
    PROVE  \A t \in DOMAIN r : CreditOK(r[t].credit, t, Y)
<1>1. ASSUME NEW t \in DOMAIN r, r[t].credit # None PROVE CreditOK(r[t].credit, t, Y)
  <2>1. t \in DOMAIN w /\ r[t].credit = w[t].credit /\ ~Touches(S, t)
    BY <1>1 DEF Told, CreditStays
  <2>2. CreditOK(w[t].credit, t, X)
    BY <2>1
  <2> DEFINE e == r[t].credit
  <2>3. e \subseteq Mine /\ \A out \in e : out[1] = t /\ \A s \in X : out \notin prevouts(s)
    BY <1>1, <2>1, <2>2 DEF CreditOK
  <2> HIDE DEF e
  <2>4. ASSUME NEW out \in e, NEW s \in Y PROVE out \notin prevouts(s)
    BY <2>1, <2>3 DEF Touches
  <2>5. CreditOK(e, t, Y)
    BY <2>3, <2>4 DEF CreditOK
  <2>6. QED
    BY <2>5 DEF e
<1>2. QED
  BY <1>1 DEF CreditOK

(* Once the wallet was told of a set of transactions of no block, it is      *)
(* right for what is left of the chain, if it knows all that is its own.     *)
LEMMA ToldStep ==
    ASSUME NEW w, NEW c, NEW X, WalletIs(w, c, X), InChain(c) \subseteq X,
           NEW S \in SUBSET Tx, NEW r, Told(w, S, None, r),
           NEW d, InChain(d) \subseteq InChain(c), \A t, b : GoodHash(t, b, c) => GoodHash(t, b, d),
           NEW Y, Y \subseteq X \cup S, \A t \in Y \ X : Ours(t) => t \in DOMAIN r
    PROVE  WalletIs(r, d, Y)
<1>1. IsWallet(r) /\ DOMAIN w \subseteq DOMAIN r /\ DOMAIN r \subseteq DOMAIN w \cup {s \in S : Ours(s)}
  BY DEF Told
<1>2. DOMAIN r \subseteq Tx
  BY <1>1 DEF WalletIs
<1>3. \A t \in Y : Ours(t) => t \in DOMAIN r
  BY <1>1 DEF WalletIs
<1>4. ASSUME NEW t \in DOMAIN r PROVE GoodHash(t, r[t].hashBlock, d)
  <2>1. r[t].hashBlock = IF t \in DOMAIN w THEN w[t].hashBlock ELSE None
    BY DEF Told, HashAfter
  <2>2. CASE t \in DOMAIN w
    BY <2>1, <2>2 DEF WalletIs
  <2>3. CASE t \notin DOMAIN w
    <3>1. Ours(t)
      BY <1>1, <2>3
    <3>2. t \notin X
      BY <2>3, <3>1 DEF WalletIs
    <3>3. QED
      BY <2>1, <2>3, <3>2, NoneIsGood
  <2>4. QED
    BY <2>2, <2>3
<1>5. \A t \in DOMAIN r : CreditOK(r[t].credit, t, Y)
  BY ToldCredits DEF WalletIs
<1>6. QED
  BY <1>1, <1>2, <1>3, <1>4, <1>5 DEF WalletIs

(* The transactions of the chain and of the pool. *)
Live == InChain(chain) \cup pool.mapTx

(* The node that the wallet belongs to: the coins are on disk, no coinbase   *)
(* is twice in the chain, and the pool is finite.                            *)
NodeInv ==
    /\ PInv /\ cacheCoins = NoCoins /\ flushed = chain
    /\ CoinBasesOnce(chain) /\ IsFiniteSet(pool.mapTx)

WInv ==
    /\ NodeInv /\ WalletIs(mapWallet, chain, Live)
    /\ prepared \subseteq {t \in Own : Ours(t)} /\ fReaccept \in BOOLEAN

(* What a wallet knows of an output of its own: whether the chain or the     *)
(* pool spends it.                                                           *)
LEMMA SpentIsKnown ==
    ASSUME WInv, NEW out \in Mine
    PROVE  IsSpent(out) <=> \E s \in Live : out \in prevouts(s)
<1>1. /\ ChainOK(chain) /\ Len(chain) \in Nat /\ InChain(chain) \subseteq Tx /\ pool.mapTx \subseteq Tx
      /\ \A t \in DOMAIN mapWallet : t \in Tx /\ GoodHash(t, mapWallet[t].hashBlock, chain)
      /\ \A t \in Live : Ours(t) => t \in DOMAIN mapWallet
  BY ChainIs, InChainIs DEF WInv, NodeInv, PInv, LInv, ChainInv, WalletIs, PoolInv
<1>2. out \in Tx \X Nat /\ out # Null
  BY WalletAssumption, PoolAssumption
<1>3. ASSUME NEW t \in DOMAIN mapWallet PROVE Depth(t) >= 0 <=> t \in Live
  <2>1. CASE t \in InChain(chain)
    <3>1. PICK h \in 1 .. Len(chain) : Depth(t) = Height - h + 1
      BY <1>1, <2>1, DepthIs DEF Depth
    <3>2. Depth(t) >= 0
      BY <1>1, <3>1 DEF Height
    <3>3. QED
      BY <2>1, <3>2 DEF Live
  <2>2. CASE t \notin InChain(chain)
    <3>1. Depth(t) = IF t \in pool.mapTx THEN 0 ELSE -1
      BY <1>1, <2>2, DepthIs DEF Depth
    <3>2. QED
      BY <2>2, <3>1 DEF Live
  <2>3. QED
    BY <2>1, <2>2
<1>4. ASSUME NEW s \in Live, out \in prevouts(s) PROVE IsSpent(out)
  <2>1. s \in Tx
    BY <1>1 DEF Live
  <2>2. s \notin CoinBase
    BY <1>2, <1>4, <2>1, PrevoutsAre
  <2>3. s \in DOMAIN mapWallet
    BY <1>1, <1>4, <2>1 DEF Ours
  <2>4. QED
    BY <1>3, <1>4, <2>2, <2>3 DEF IsSpent
<1>5. ASSUME IsSpent(out) PROVE \E s \in Live : out \in prevouts(s)
  BY <1>3, <1>5 DEF IsSpent
<1>6. QED
  BY <1>4, <1>5

(* So what is available of a transaction is what no one spends. *)
LEMMA AvailableIs ==
    ASSUME WInv, NEW t
    PROVE  AvailableCredit(t) = {out \in Mine : out[1] = t /\ \A s \in Live : out \notin prevouts(s)}
BY SpentIsKnown DEF AvailableCredit

(* What the invariant says of the node. *)
LEMMA NodeIs ==
    ASSUME WInv
    PROVE  /\ ChainOK(chain) /\ ChainInv(chain) /\ Len(chain) \in Nat /\ DOMAIN chain = 1 .. Len(chain)
           /\ InChain(chain) \subseteq Tx /\ pool.mapTx \subseteq Tx /\ Live \subseteq Tx /\ Confirmed = InChain(chain)
<1>1. ChainOK(chain) /\ ChainInv(chain) /\ pool.mapTx \subseteq Tx
  BY DEF WInv, NodeInv, PInv, LInv, ChainInv, PoolInv
<1>2. QED
  BY <1>1, ChainIs, InChainIs, ConfirmedIs DEF Live

(* The wallet's view is the chain's and the pool's. *)
LEMMA ExactIs == ASSUME WInv PROVE WalletIsExact
<1>1. /\ ChainOK(chain) /\ Len(chain) \in Nat /\ DOMAIN chain = 1 .. Len(chain)
      /\ Live \subseteq Tx /\ Confirmed = InChain(chain)
  BY NodeIs
<1>2. /\ DOMAIN mapWallet \subseteq Tx
      /\ \A t \in DOMAIN mapWallet : GoodHash(t, mapWallet[t].hashBlock, chain) /\ CreditOK(mapWallet[t].credit, t, Live)
      /\ \A t \in Live : Ours(t) => t \in DOMAIN mapWallet
  BY DEF WInv, WalletIs
<1>3. WalletTypeOK
  <2>1. ASSUME NEW t \in DOMAIN mapWallet
        PROVE  /\ mapWallet[t].hashBlock = None \/ t \in ToSet(Last(mapWallet[t].hashBlock))
               /\ mapWallet[t].credit = None \/ mapWallet[t].credit \subseteq Mine
    BY <1>2 DEF GoodHash, CreditOK, Last
  <2>2. prepared \subseteq Own /\ fReaccept \in BOOLEAN
    BY DEF WInv
  <2>3. QED
    BY <1>2, <2>1, <2>2 DEF WalletTypeOK
<1>4. OwnAreKnown
  <2> SUFFICES ASSUME NEW t \in Live, InvolvesMe(mapWallet, t) PROVE t \in DOMAIN mapWallet
    BY <1>1 DEF OwnAreKnown, Live
  <2>1. t \in DOMAIN mapWallet \/ Ours(t)
    BY <1>1 DEF InvolvesMe, IsFromMe, Ours
  <2>2. QED
    BY <1>2, <2>1
<1>5. DepthsAreExact
  <2> SUFFICES ASSUME NEW t \in DOMAIN mapWallet
               PROVE  IF t \in Confirmed
                      THEN \E h \in DOMAIN chain : t \in ToSet(chain[h].vtx) /\ Depth(t) = Height - h + 1
                      ELSE Depth(t) <= 0
    BY DEF DepthsAreExact
  <2>1. CASE t \in Confirmed
    <3>1. t \in InChain(chain)
      BY <1>1, <2>1
    <3>2. \E h \in 1 .. Len(chain) : t \in ToSet(chain[h].vtx) /\ Depth(t) = Height - h + 1
      BY <1>1, <1>2, <3>1, DepthIs DEF Depth
    <3>3. QED
      BY <1>1, <2>1, <3>2
  <2>2. CASE t \notin Confirmed
    <3>1. Depth(t) = IF t \in pool.mapTx THEN 0 ELSE -1
      BY <1>1, <1>2, <2>2, DepthIs DEF Depth
    <3>2. Depth(t) <= 0
      BY <3>1
    <3>3. QED
      BY <2>2, <3>2
  <2>3. QED
    BY <2>1, <2>2
<1>6. QED
  BY <1>3, <1>4, <1>5 DEF WalletIsExact

(* What is counted is unspent. *)
LEMMA BalanceIs == ASSUME WInv PROVE BalanceIsUnspent
<1>1. Confirmed \cup pool.mapTx = Live
  BY NodeIs DEF Live
<1> SUFFICES ASSUME NEW t \in DOMAIN mapWallet, NEW out \in Counted(t), NEW s \in Live, out \in prevouts(s)
             PROVE  FALSE
  BY <1>1 DEF BalanceIsUnspent, SpentOutputs
<1>2. CASE mapWallet[t].credit = None
  <2>1. out \in AvailableCredit(t)
    BY <1>2 DEF Counted
  <2>2. QED
    BY <2>1, AvailableIs
<1>3. CASE mapWallet[t].credit # None
  <2>1. out \in mapWallet[t].credit
    BY <1>3 DEF Counted
  <2>2. CreditOK(mapWallet[t].credit, t, Live)
    BY DEF WInv, WalletIs
  <2>3. QED
    BY <1>3, <2>1, <2>2 DEF CreditOK
<1>4. QED
  BY <1>2, <1>3

(* An output of the wallet's that is of the chain and that nothing spends is *)
(* among the coins.                                                          *)
LEMMA UnspentIsThere ==
    ASSUME WInv, NEW out \in Mine, out[1] \in InChain(chain), \A s \in Live : out \notin prevouts(s)
    PROVE  IsAvailable(pcoinsTip, out)
<1>1. out \in Tx \X Nat /\ out[2] \in Spendable[out[1]] /\ <<out[1], out[2]>> = out
  BY WalletAssumption
<1>2. LInv /\ ChainOK(chain) /\ ChainInv(chain) /\ CoinBasesOnce(chain)
  BY DEF WInv, NodeInv, PInv, LInv, ChainInv
<1>3. Single(chain)
  BY <1>2, OnceEach
<1>4. PICK p \in Places(chain) : TxAt(chain, p) = out[1]
  BY DEF InChain
<1>5. \A q \in Places(chain) : TxAt(chain, q) = out[1] => q = p
  BY <1>3, <1>4 DEF Single
<1>6. ~Before(p, p)
  <2>1. p \in Nat \X Nat
    BY <1>2, InChainIs
  <2>2. QED
    BY <2>1, PlacesAreOrdered
<1>7. p \in LastPlaces(chain, out[1])
  BY <1>4, <1>5, <1>6 DEF LastPlaces
<1>8. \A q \in Places(chain) : ~Spends(TxAt(chain, q), out)
  <2>1. ASSUME NEW q \in Places(chain), Spends(TxAt(chain, q), out) PROVE FALSE
    <3>1. TxAt(chain, q) \in Live
      BY DEF Live, InChain
    <3>2. out \in prevouts(TxAt(chain, q))
      BY <2>1 DEF Spends, prevouts
    <3>3. QED
      BY <3>1, <3>2
  <2>2. QED
    BY <2>1
<1>9. out[2] \in Unspent(chain, out[1])
  BY <1>1, <1>7, <1>8 DEF Unspent
<1>10. Shows(pcoinsTip, chain)
  BY <1>2, TipIsOK
<1>11. QED
  BY <1>1, <1>9, <1>10 DEF Shows, IsLeft, IsAvailable

(* The cache being empty, what has an entry has unspent outputs in the       *)
(* chain.                                                                    *)
LEMMA EntryIsInChain ==
    ASSUME WInv, NEW t \in DOMAIN pcoinsTip
    PROVE  t \in InChain(chain)
<1>1. LInv /\ cacheCoins = NoCoins /\ ViewOK(pcoinsTip) /\ Shows(pcoinsTip, chain)
  BY TipIsOK DEF WInv, NodeInv, PInv
<1>2. DOMAIN pcoinsTip = DOMAIN coinsdb /\ \A u \in DOMAIN coinsdb : pcoinsTip[u] = coinsdb[u]
  BY <1>1 DEF pcoinsTip, Over, NoCoins
<1>3. ~IsPruned(coinsdb[t])
  BY <1>1, <1>2 DEF LInv, CoinsInv
<1>4. Get(pcoinsTip, t).vout # {} /\ t \in Tx
  BY <1>1, <1>2, <1>3 DEF Get, IsPruned, ViewOK
<1>5. QED
  BY <1>1, <1>4, UnseenIsNone DEF Shows, IsLeft

(* What the wallet offers can be spent. *)
LEMMA OffersAre == ASSUME WInv PROVE OffersAreAcceptable
<1> SUFFICES ASSUME NEW t \in Own \ DOMAIN mapWallet, prevouts(t) \subseteq AvailableCoins, Admissible(t)
             PROVE  Acceptable(pool, pcoinsTip, t)
  BY DEF OffersAreAcceptable
<1>1. /\ PoolInv(pool) /\ t \in Tx
      /\ \A u \in DOMAIN mapWallet : u \in Tx /\ GoodHash(u, mapWallet[u].hashBlock, chain)
      /\ \A u \in Live : Ours(u) => u \in DOMAIN mapWallet
  BY WalletAssumption DEF WInv, NodeInv, PInv, WalletIs
<1>2. ASSUME NEW out \in prevouts(t)
      PROVE  /\ out \in Mine /\ out \in Tx \X Nat /\ out # Null /\ \A s \in Live : out \notin prevouts(s)
             /\ out[1] \in DOMAIN mapWallet /\ IsTrusted(out[1])
  <2>1. PICK u \in DOMAIN mapWallet : IsTrusted(u) /\ out \in AvailableCredit(u)
    BY DEF AvailableCoins
  <2>2. out \in Mine /\ out[1] = u /\ \A s \in Live : out \notin prevouts(s)
    BY <2>1, AvailableIs
  <2>3. QED
    BY <2>1, <2>2, WalletAssumption, PoolAssumption
<1>3. t \notin CoinBase
  BY <1>1, <1>2, PrevoutsAre
<1>4. Ours(t) /\ t \notin Live
  <2>1. \E out : out \in prevouts(t)
    BY <1>1, <1>3, HasPrevouts
  <2>2. Ours(t)
    BY <1>1, <1>2, <2>1 DEF Ours
  <2>3. QED
    BY <1>1, <2>2
<1>5. t \notin pool.mapTx /\ t \notin DOMAIN pcoinsTip
  BY <1>4, EntryIsInChain DEF Live
<1>6. prevouts(t) \cap DOMAIN pool.mapNextTx = {}
  <2>1. ASSUME NEW out \in prevouts(t), out \in DOMAIN pool.mapNextTx PROVE FALSE
    <3>1. pool.mapNextTx[out] \in pool.mapTx /\ out \in prevouts(pool.mapNextTx[out])
      BY <1>1, <2>1 DEF PoolInv
    <3>2. QED
      BY <1>2, <3>1 DEF Live
  <2>2. QED
    BY <2>1
<1>7. ASSUME NEW out \in prevouts(t) PROVE IsAvailable(Over(pcoinsTip, PoolCoins(pool)), out)
  <2> DEFINE u == out[1]
  <2>1. out \in Mine /\ \A s \in Live : out \notin prevouts(s)
    BY <1>2
  <2>2. u \in DOMAIN mapWallet /\ IsTrusted(u) /\ GoodHash(u, mapWallet[u].hashBlock, chain) /\ out[2] \in Spendable[u]
    BY <1>1, <1>2, WalletAssumption
  <2> HIDE DEF u
  <2>3. CASE u \in InChain(chain)
    <3>1. IsAvailable(pcoinsTip, out)
      BY <2>1, <2>3, UnspentIsThere DEF u
    <3>2. u \in DOMAIN pcoinsTip
      BY <3>1 DEF IsAvailable, Get, Empty, u
    <3>3. QED
      BY <3>1, <3>2, OverShows DEF IsAvailable, Get, u
  <2>4. CASE u \notin InChain(chain)
    <3>1. Depth(u) = IF u \in pool.mapTx THEN 0 ELSE -1
      BY <2>2, <2>4, NodeIs, DepthIs DEF Depth
    <3>2. u \in pool.mapTx
      BY <2>2, <3>1 DEF IsTrusted
    <3>3. u \notin DOMAIN pcoinsTip
      BY <2>4, EntryIsInChain
    <3>4. Get(Over(pcoinsTip, PoolCoins(pool)), u) = PoolCoins(pool)[u] /\ PoolCoins(pool)[u].vout = Spendable[u]
      BY <3>2, <3>3, OverShows DEF PoolCoins, Get, Coins
    <3>5. QED
      BY <2>2, <3>4 DEF IsAvailable, u
  <2>5. QED
    BY <2>3, <2>4
<1>8. HaveInputs(Over(pcoinsTip, PoolCoins(pool)), t)
  BY <1>3, <1>7 DEF HaveInputs, prevouts, ToSet
<1>9. SpendsMature(pcoinsTip, t)
  <2>1. SUFFICES ASSUME NEW out \in prevouts(t), out[1] \in CoinBase PROVE out[1] \in DOMAIN pcoinsTip
    BY DEF SpendsMature
  <2> DEFINE u == out[1]
  <2>2. out \in Mine /\ \A s \in Live : out \notin prevouts(s)
    BY <1>2
  <2>3. u \in DOMAIN mapWallet /\ IsTrusted(u) /\ GoodHash(u, mapWallet[u].hashBlock, chain)
    BY <1>1, <1>2
  <2> HIDE DEF u
  <2>4. u \in InChain(chain)
    <3>1. SUFFICES ASSUME u \notin InChain(chain) PROVE FALSE
      OBVIOUS
    <3>2. Depth(u) = IF u \in pool.mapTx THEN 0 ELSE -1
      BY <2>3, <3>1, NodeIs, DepthIs DEF Depth
    <3>3. QED
      BY <2>1, <2>3, <3>2 DEF IsTrusted, u
  <2>5. IsAvailable(pcoinsTip, out)
    BY <2>2, <2>4, UnspentIsThere DEF u
  <2>6. QED
    BY <2>5 DEF IsAvailable, Get, Empty
<1>10. QED
  BY <1>5, <1>6, <1>8, <1>9 DEF Acceptable

-----------------------------------------------------------------------------
(* Steps of the wallet *)

(* What the step tells the wallet of is S: a credit that stays in a cache is *)
(* not one that a transaction of S spends from, and S has all that comes to  *)
(* the chain or the pool and, but for what DisconnectTip drops untold, all   *)
(* that leaves them.                                                         *)
Tells(S) ==
    /\ \A u \in DOMAIN mapWallet' :
          \/ mapWallet'[u].credit = None
          \/ CreditStays(mapWallet, S, mapWallet'[u], u)
          \/ mapWallet'[u].credit = AvailableCredit(u) /\ ~Touches(S, u)
    /\ Live' \subseteq Live \cup S
    /\ DropsUntold \/ Live \subseteq Live' \cup S

(* The step keeps the invariant, and tells the wallet of what it changes. *)
Kept == WInv' /\ \E S : Tells(S)

(* AvailableIs, as a formula of the present state. *)
LEMMA AvailableAll ==
    WInv => \A t : AvailableCredit(t) = {out \in Mine : out[1] = t /\ \A s \in Live : out \notin prevouts(s)}
BY AvailableIs

(* So a credit that was exact is exact after it. *)
LEMMA CreditsAfter ==
    ASSUME WInv, Kept, CreditsAreExact, ~DropsUntold
    PROVE  CreditsAreExact'
<1>1. PICK S : Tells(S)
  BY DEF Kept
<1>2. \A t : AvailableCredit(t) = {out \in Mine : out[1] = t /\ \A s \in Live : out \notin prevouts(s)}
  BY AvailableIs
<1>3. \A t : AvailableCredit(t)' = {out \in Mine : out[1] = t /\ \A s \in Live' : out \notin prevouts(s)}
  <2>1. (WInv => \A t : AvailableCredit(t) = {out \in Mine : out[1] = t /\ \A s \in Live : out \notin prevouts(s)})'
    BY AvailableAll, PTL
  <2>2. QED
    BY <2>1 DEF Kept
<1>4. Live' \subseteq Live \cup S /\ Live \subseteq Live' \cup S
  BY <1>1 DEF Tells
<1>5. ASSUME NEW u, ~Touches(S, u) PROVE AvailableCredit(u)' = AvailableCredit(u)
  <2>1. \A s \in S : \A out \in Mine : out[1] = u => out \notin prevouts(s)
    BY <1>5 DEF Touches
  <2>2. ASSUME NEW out \in Mine, out[1] = u
        PROVE  (\A s \in Live : out \notin prevouts(s)) <=> (\A s \in Live' : out \notin prevouts(s))
    BY <1>4, <2>1, <2>2
  <2>3. QED
    BY <1>2, <1>3, <2>2
<1>6. ASSUME NEW u \in DOMAIN mapWallet'
      PROVE  mapWallet'[u].credit = None \/ mapWallet'[u].credit = AvailableCredit(u)'
  <2>1. CASE CreditStays(mapWallet, S, mapWallet'[u], u)
    <3>1. u \in DOMAIN mapWallet /\ mapWallet'[u].credit = mapWallet[u].credit /\ ~Touches(S, u)
      BY <2>1 DEF CreditStays
    <3>2. mapWallet[u].credit = None \/ mapWallet[u].credit = AvailableCredit(u)
      BY <3>1 DEF CreditsAreExact
    <3>3. QED
      BY <1>5, <3>1, <3>2
  <2>2. CASE mapWallet'[u].credit = AvailableCredit(u) /\ ~Touches(S, u)
    BY <1>5, <2>2
  <2>3. QED
    BY <1>1, <2>1, <2>2 DEF Tells
<1>7. QED
  BY <1>6 DEF CreditsAreExact

(* An output of the wallet's that the coins or the pool have is of a         *)
(* transaction it knows.                                                     *)
LEMMA LiveIsKnown ==
    ASSUME WInv, NEW out \in Mine, out[1] \in DOMAIN pcoinsTip \/ out[1] \in pool.mapTx
    PROVE  out[1] \in DOMAIN mapWallet
<1>1. out[1] \in Live
  BY EntryIsInChain DEF Live
<1>2. Ours(out[1])
  BY WalletAssumption DEF Ours
<1>3. QED
  BY <1>1, <1>2 DEF WInv, WalletIs

(* What is taken into the pool and is the wallet's involves it. *)
LEMMA TakenInvolves ==
    ASSUME WInv, NEW t \in Tx, Acceptable(pool, pcoinsTip, t), Ours(t)
    PROVE  InvolvesMe(mapWallet, t)
<1>1. ASSUME NEW out \in prevouts(t), out \in Mine PROVE out[1] \in DOMAIN mapWallet
  <2>1. t \notin CoinBase
    BY <1>1, PrevoutsAre, WalletAssumption, PoolAssumption
  <2>2. IsAvailable(pcoinsTip, out) \/ out[1] \in pool.mapTx
    BY <1>1, <2>1, OfferedHas DEF Acceptable
  <2>3. out[1] \in DOMAIN pcoinsTip \/ out[1] \in pool.mapTx
    BY <2>2 DEF IsAvailable, Get, Empty
  <2>4. QED
    BY <1>1, <2>3, LiveIsKnown
<1>2. QED
  BY <1>1 DEF Ours, InvolvesMe, IsFromMe

(* Transactions came to the pool, and the wallet was told. *)
LEMMA GrownStep ==
    ASSUME WInv, chain' = chain, NEW S \in SUBSET Tx, Told(mapWallet, S, None, mapWallet'),
           pool.mapTx \subseteq pool'.mapTx, pool'.mapTx \subseteq pool.mapTx \cup S,
           \A t \in pool'.mapTx \ pool.mapTx : Ours(t) => t \in DOMAIN mapWallet'
    PROVE  WalletIs(mapWallet', chain', Live') /\ Tells(S)
<1> DEFINE c == chain
           X == Live
           Y == InChain(c) \cup pool'.mapTx
           w == mapWallet
           r == mapWallet'
<1>1. Live' = Y /\ X = InChain(c) \cup pool.mapTx /\ chain' = c
  BY DEF Live
<1>2. WalletIs(w, c, X)
  BY DEF WInv
<1>3. Told(w, S, None, r) /\ InChain(c) \subseteq X /\ Y \subseteq X \cup S /\ X \subseteq Y
  BY <1>1
<1>4. \A t \in Y \ X : Ours(t) => t \in DOMAIN r
  BY <1>1
<1> HIDE DEF c, X, Y, w, r
<1>5. WalletIs(r, c, Y)
  BY <1>2, <1>3, <1>4, ToldStep
<1>6. \A u \in DOMAIN r : r[u].credit = None \/ CreditStays(w, S, r[u], u)
  BY <1>3 DEF Told
<1>7. X \subseteq Y \cup S /\ Y \subseteq X \cup S
  BY <1>3
<1>8. QED
  BY <1>1, <1>5, <1>6, <1>7 DEF Tells, X, r, w

(* The node's part of the invariant. *)
LEMMA NodeKept ==
    ASSUME WInv, PInv', UNCHANGED ledger, IsFiniteSet(pool'.mapTx)
    PROVE  NodeInv'
BY DEF WInv, NodeInv, ledger

LEMMA NodeSteps == ASSUME WInv, [Next]_vars PROVE PInv'
BY PoolStep DEF WInv, NodeInv

(* A transaction is accepted to the pool. *)
LEMMA AcceptStep == ASSUME WInv, NEW t \in Tx, Accept(t) PROVE Kept
<1>1. /\ AcceptToMemoryPool(t) /\ Acceptable(pool, pcoinsTip, t) /\ UNCHANGED ledger /\ chain' = chain
      /\ pool'.mapTx = pool.mapTx \cup {t}
      /\ mapWallet' = SyncTransaction(mapWallet, t, None) /\ UNCHANGED <<prepared, fReaccept>>
  BY DEF Accept, AcceptToMemoryPool, addUnchecked, ledger
<1>2. Told(mapWallet, {t}, None, mapWallet') /\ (Ours(t) => t \in DOMAIN mapWallet')
  BY <1>1, SyncIs, TakenInvolves DEF WInv, WalletIs
<1>3. WalletIs(mapWallet', chain', Live') /\ Tells({t})
  BY <1>1, <1>2, GrownStep
<1>4. NodeInv'
  <2>1. IsFiniteSet(pool.mapTx \cup {t})
    BY FS_AddElement DEF WInv, NodeInv
  <2>2. PInv'
    BY <1>1, NodeSteps DEF Next
  <2>3. QED
    BY <1>1, <2>1, <2>2, NodeKept
<1>5. WInv'
  BY <1>1, <1>3, <1>4 DEF WInv
<1>6. QED
  BY <1>3, <1>5 DEF Kept

(* A transaction that the wallet made is recorded, and offered to the pool. *)
LEMMA CommitStep == ASSUME WInv, NEW t \in Own, CommitTransaction(t) PROVE Kept
<1>1. /\ t \in Tx /\ Ours(t) /\ prepared' \subseteq prepared /\ mapWallet' = AddToWallet(mapWallet, t, None)
      /\ UNCHANGED <<ledger, bShareMoney, fReaccept>> /\ chain' = chain
  BY WalletAssumption DEF WInv, CommitTransaction, ledger
<1>2. Told(mapWallet, {t}, None, mapWallet') /\ t \in DOMAIN mapWallet'
  BY <1>1, AddedIs DEF WInv, WalletIs
<1>3. [Next]_vars /\ pool'.mapTx \in {pool.mapTx, pool.mapTx \cup {t}}
  <2>1. CASE Acceptable(pool, pcoinsTip, t)
    <3>1. pool' = addUnchecked(pool, t)
      BY <2>1 DEF CommitTransaction
    <3>2. AcceptToMemoryPool(t)
      BY <1>1, <2>1, <3>1 DEF AcceptToMemoryPool
    <3>3. QED
      BY <1>1, <3>1, <3>2 DEF Next, addUnchecked
  <2>2. CASE ~Acceptable(pool, pcoinsTip, t)
    BY <1>1, <2>2 DEF CommitTransaction, vars
  <2>3. QED
    BY <2>1, <2>2
<1>4. WalletIs(mapWallet', chain', Live') /\ Tells({t})
  BY <1>1, <1>2, <1>3, GrownStep
<1>5. NodeInv'
  <2>1. IsFiniteSet(pool.mapTx \cup {t}) /\ IsFiniteSet(pool.mapTx)
    BY FS_AddElement DEF WInv, NodeInv
  <2>2. PInv'
    BY <1>3, NodeSteps
  <2>3. QED
    BY <1>1, <1>3, <2>1, <2>2, NodeKept
<1>6. WInv'
  BY <1>1, <1>4, <1>5 DEF WInv
<1>7. QED
  BY <1>4, <1>6 DEF Kept

(* The chain and the pool stay, and so does the wallet but for its caches,   *)
(* which are filled with what is available.                                  *)
LEMMA QuietStep ==
    ASSUME WInv, [Next]_vars, UNCHANGED <<ledger, pool>>,
           IsWallet(mapWallet'), DOMAIN mapWallet' = DOMAIN mapWallet,
           \A u \in DOMAIN mapWallet :
              /\ mapWallet'[u].hashBlock = mapWallet[u].hashBlock
              /\ mapWallet'[u].credit = mapWallet[u].credit \/ mapWallet'[u].credit = AvailableCredit(u),
           prepared' \subseteq {t \in Own : Ours(t)}, fReaccept' \in BOOLEAN
    PROVE  Kept
<1>1. chain' = chain /\ Live' = Live
  BY DEF Live, ledger
<1>2. NodeInv'
  <2>1. PInv' /\ IsFiniteSet(pool'.mapTx)
    BY NodeSteps DEF WInv, NodeInv
  <2>2. QED
    BY <2>1, NodeKept
<1>3. ASSUME NEW u \in DOMAIN mapWallet PROVE CreditOK(mapWallet'[u].credit, u, Live)
  <2>1. CASE mapWallet'[u].credit = mapWallet[u].credit
    BY <2>1 DEF WInv, WalletIs
  <2>2. CASE mapWallet'[u].credit = AvailableCredit(u)
    <3>1. CreditOK(AvailableCredit(u), u, Live)
      BY AvailableIs DEF CreditOK
    <3>2. QED
      BY <2>2, <3>1
  <2>3. QED
    BY <2>1, <2>2
<1>4. WalletIs(mapWallet', chain, Live)
  BY <1>3 DEF WInv, WalletIs
<1>5. WInv'
  BY <1>1, <1>2, <1>4 DEF WInv
<1>6. Tells({})
  <2>1. \A u : ~Touches({}, u)
    BY DEF Touches
  <2>2. QED
    BY <1>1, <2>1 DEF Tells, CreditStays
<1>7. QED
  BY <1>5, <1>6 DEF Kept

(* A balance is computed. *)
LEMMA BalanceStep == ASSUME WInv, NEW fTrusted \in BOOLEAN, GetBalance(fTrusted) PROVE Kept
<1>1. PICK counted \in SUBSET DOMAIN mapWallet :
         mapWallet' = [t \in DOMAIN mapWallet |->
            IF t \in counted /\ mapWallet[t].credit = None
            THEN [mapWallet[t] EXCEPT !.credit = AvailableCredit(t)] ELSE mapWallet[t]]
  BY DEF GetBalance
<1>2. UNCHANGED <<vars, prepared, fReaccept>>
  BY DEF GetBalance
<1>3. \A u \in DOMAIN mapWallet : IsEntry(mapWallet[u])
  BY DEF WInv, WalletIs, IsWallet
<1>4. DOMAIN mapWallet' = DOMAIN mapWallet /\ mapWallet' = [t \in DOMAIN mapWallet' |-> mapWallet'[t]]
  BY <1>1
<1>5. ASSUME NEW u \in DOMAIN mapWallet
      PROVE  /\ IsEntry(mapWallet'[u]) /\ mapWallet'[u].hashBlock = mapWallet[u].hashBlock
             /\ mapWallet'[u].credit = mapWallet[u].credit \/ mapWallet'[u].credit = AvailableCredit(u)
  <2> DEFINE e == mapWallet[u]
             a == AvailableCredit(u)
  <2>1. mapWallet'[u] \in {e, [e EXCEPT !.credit = a]}
    BY <1>1
  <2>2. e = [hashBlock |-> e.hashBlock, credit |-> e.credit]
    BY <1>3 DEF IsEntry
  <2> HIDE DEF e, a
  <2>3. [e EXCEPT !.credit = a] = [hashBlock |-> e.hashBlock, credit |-> a]
    BY <2>2
  <2>4. mapWallet'[u] = e \/ mapWallet'[u] = [hashBlock |-> e.hashBlock, credit |-> a]
    BY <2>1, <2>3
  <2>5. IsEntry(mapWallet'[u]) /\ mapWallet'[u].hashBlock = e.hashBlock
        /\ (mapWallet'[u].credit = e.credit \/ mapWallet'[u].credit = a)
    <3>1. CASE mapWallet'[u] = e
      BY <2>2, <3>1 DEF IsEntry
    <3>2. CASE mapWallet'[u] = [hashBlock |-> e.hashBlock, credit |-> a]
      BY <3>2 DEF IsEntry
    <3>3. QED
      BY <2>4, <3>1, <3>2
  <2>6. QED
    BY <2>5 DEF e, a
<1>6. IsWallet(mapWallet')
  BY <1>4, <1>5 DEF IsWallet
<1>7. [Next]_vars /\ UNCHANGED <<ledger, pool>> /\ prepared' \subseteq {t \in Own : Ours(t)} /\ fReaccept' \in BOOLEAN
  BY <1>2 DEF WInv, vars
<1>8. QED
  BY <1>4, <1>5, <1>6, <1>7, QuietStep

(* A transaction is made of what is available, the calendar goes on, or      *)
(* nothing happens.                                                          *)
LEMMA SameWalletStep ==
    ASSUME WInv,
           \/ \E t \in Own : CreateTransaction(t)
           \/ ChangeSeason \/ UNCHANGED walletVars
    PROVE  Kept
<1>1. UNCHANGED <<ledger, pool, mapWallet, fReaccept>> /\ [Next]_vars
  BY DEF CreateTransaction, ChangeSeason, Calendar, walletVars, vars, Next
<1>2. prepared' \subseteq {t \in Own : Ours(t)}
  <2>1. ASSUME NEW t \in Own, CreateTransaction(t) PROVE Ours(t)
    <3>1. t \in Tx /\ prevouts(t) \subseteq AvailableCoins
      BY <2>1, WalletAssumption DEF CreateTransaction
    <3>2. \A out \in prevouts(t) : out \in Mine /\ out # Null
      BY <3>1, WalletAssumption, PoolAssumption DEF AvailableCoins, AvailableCredit
    <3>3. \E out : out \in prevouts(t)
      BY <3>1, <3>2, HasPrevouts, PrevoutsAre
    <3>4. QED
      BY <3>1, <3>2, <3>3 DEF Ours
  <2>2. ASSUME NEW t \in Own, CreateTransaction(t) PROVE prepared' = prepared \cup {t}
    BY <2>2 DEF CreateTransaction
  <2>3. ASSUME ChangeSeason \/ UNCHANGED walletVars PROVE prepared' = prepared
    BY <2>3 DEF ChangeSeason, walletVars
  <2>4. QED
    BY <2>1, <2>2, <2>3 DEF WInv
<1>3. QED
  BY <1>1, <1>2, QuietStep DEF WInv, WalletIs

(* A block is disconnected. *)
LEMMA DisconnectStepIs == ASSUME WInv, Disconnect PROVE Kept
<1> DEFINE vtx == chain[Height].vtx
           S == ToSet(vtx)
           d == SubSeq(chain, 1, Len(chain) - 1)
           view == Disconnected.view
           v == Showing(view, TRUE)
<1>1. /\ LInv /\ ChainInv(chain) /\ ChainOK(chain) /\ CoinBasesOnce(chain) /\ IsFiniteSet(pool.mapTx)
      /\ WalletIs(mapWallet, chain, Live)
  BY NodeIs DEF WInv, NodeInv, PInv
<1>2. DisconnectTip(TRUE) /\ mapWallet' = SyncAll(mapWallet, vtx, None) /\ UNCHANGED <<prepared, fReaccept>>
  BY DEF Disconnect
<1>3. /\ chain # <<>> /\ chain' = d /\ Apply(view, TRUE)
      /\ pool' = Resurrecting(v, vtx)[Len(vtx)]
  BY <1>2 DEF DisconnectTip, DisconnectCoins, PoolDisconnected, Height
<1>4. vtx \in Blocks /\ ChainOK(d) /\ InChain(chain) = InChain(d) \cup S
  <2>1. vtx \in Blocks
    BY <1>1, <1>3, TipIsABlock
  <2>2. ChainOK(d) /\ InChain(chain) = InChain(d) \cup {chain[Len(chain)].vtx[i] : i \in 1 .. Len(chain[Len(chain)].vtx)}
    BY <1>1, <1>3, InChainPrefix
  <2>3. S = {vtx[i] : i \in 1 .. Len(vtx)}
    BY <2>1, BlockIs DEF ToSet
  <2>4. QED
    BY <2>1, <2>2, <2>3 DEF Height
<1>5. CoinBasesOnce(d)
  BY <1>1, <1>3, OncePrefix
<1>6. Single(chain)
  BY <1>1, OnceEach
<1>7. \A t, b : GoodHash(t, b, chain) => GoodHash(t, b, d)
  BY <1>1, <1>3, <1>6, GoodHashDisconnected
<1>8. cacheCoins' = NoCoins /\ flushed' = chain'
  BY <1>3 DEF Apply
<1> HIDE DEF vtx, d, view, v
<1>9. pool'.mapTx \subseteq pool.mapTx \cup S
  <2>1. Len(vtx) \in 0 .. Len(vtx) /\ S = {vtx[i] : i \in 1 .. Len(vtx)}
    BY <1>4, BlockIs DEF ToSet
  <2>2. \A u \in pool'.mapTx : u \in pool.mapTx \/ \E j \in 1 .. Len(vtx) : u = vtx[j]
    BY <1>3, <1>4, <2>1, ResurrectingGrows
  <2>3. QED
    BY <2>1, <2>2
<1>10. IsFiniteSet(pool'.mapTx)
  <2>1. IsFiniteSet(S)
    BY <1>4, BlockIsFinite
  <2> HIDE DEF S
  <2>2. IsFiniteSet(pool.mapTx \cup S)
    BY <1>1, <2>1, FS_Union
  <2>3. QED
    BY <1>9, <2>2, FS_Subset
<1>11. Told(mapWallet, S, None, mapWallet') /\ S \subseteq Tx
  BY <1>1, <1>2, <1>4, BlockTold DEF WalletIs
<1> HIDE DEF S
<1>12. NodeInv'
  <2>1. PInv'
    BY <1>2, NodeSteps DEF Next
  <2>2. CoinBasesOnce(chain')
    BY <1>3, <1>5
  <2>3. QED
    BY <1>8, <1>10, <2>1, <2>2 DEF NodeInv
<1>13. InChain(chain') = InChain(d)
  BY <1>3
<1>14. Live' \subseteq Live /\ Live' = InChain(chain') \cup pool'.mapTx /\ Live = InChain(chain) \cup pool.mapTx
  BY <1>4, <1>9, <1>13 DEF Live
<1>15. WalletIs(mapWallet', chain', Live')
  <2> DEFINE X == Live
             Y == Live'
             w == mapWallet
             r == mapWallet'
             c == chain
  <2>1. WalletIs(w, c, X) /\ InChain(c) \subseteq X /\ InChain(d) \subseteq InChain(c) /\ Y \subseteq X
    BY <1>1, <1>4, <1>14
  <2>2. Told(w, S, None, r) /\ S \subseteq Tx /\ \A t, b : GoodHash(t, b, c) => GoodHash(t, b, d)
    BY <1>7, <1>11
  <2> HIDE DEF X, Y, w, r, c
  <2>3. WalletIs(r, d, Y)
    BY <2>1, <2>2, ToldStep
  <2>4. QED
    BY <1>3, <2>3 DEF r, Y
<1>16. WInv'
  BY <1>2, <1>12, <1>15 DEF WInv
<1>17. Tells(S)
  <2>1. \A u \in DOMAIN mapWallet' : mapWallet'[u].credit = None \/ CreditStays(mapWallet, S, mapWallet'[u], u)
    BY <1>11 DEF Told
  <2>2. DropsUntold \/ pool.mapTx \subseteq pool'.mapTx
    BY DEF DropsUntold
  <2>3. DropsUntold \/ Live \subseteq Live' \cup S
    BY <1>4, <1>13, <1>14, <2>2
  <2>4. QED
    BY <1>14, <2>1, <2>3 DEF Tells
<1>18. QED
  BY <1>16, <1>17 DEF Kept

(* Of what a block spends of the wallet's, the wallet knows the transaction, *)
(* or the block has it before.                                               *)
LEMMA BlockIsKnown ==
    ASSUME WInv, NEW vtx \in Blocks, Connected(vtx).ok, NEW n \in 1 .. Len(vtx),
           NEW out \in prevouts(vtx[n]), out \in Mine
    PROVE  out[1] \in DOMAIN mapWallet \/ \E j \in 1 .. n - 1 : out[1] = vtx[j]
<1> DEFINE u == out[1]
           m == n - 1
           t == vtx[n]
<1>1. LInv /\ Len(vtx) \in Nat /\ t \in Tx /\ out \in Tx \X Nat /\ out # Null
  BY BlockIs, WalletAssumption, PoolAssumption DEF WInv, NodeInv, PInv
<1>2. t \notin CoinBase
  BY <1>1, PrevoutsAre
<1>3. m \in 0 .. Len(vtx) /\ 0 \in 0 .. m
  BY <1>1
<1>4. /\ CoinsAfter(vtx, 0) = pcoinsTip
      /\ HaveInputs(CoinsAfter(vtx, m), t)
      /\ (\A j \in 0 + 1 .. m : vtx[j] # u) => Get(CoinsAfter(vtx, m), u).vout \subseteq Get(CoinsAfter(vtx, 0), u).vout
  BY <1>1, <1>3, CoinsAfterAre
<1>5. IsAvailable(CoinsAfter(vtx, m), out)
  BY <1>2, <1>4 DEF HaveInputs, prevouts, ToSet
<1>6. SUFFICES ASSUME \A j \in 1 .. m : vtx[j] # u PROVE u \in DOMAIN mapWallet
  OBVIOUS
<1>7. IsAvailable(pcoinsTip, out)
  BY <1>4, <1>5, <1>6 DEF IsAvailable
<1>8. u \in DOMAIN pcoinsTip
  BY <1>7 DEF IsAvailable, Get, Empty
<1>9. QED
  BY <1>8, LiveIsKnown

(* ConnectBlock's signals leave the wallet right for the block.              *)
LEMMA BlockSignalled ==
    ASSUME WInv, NewCoinBases, NEW vtx \in Blocks, Height < MaxHeight, Connected(vtx).ok,
           NEW e, e = Append(chain, [vtx |-> vtx, vtxundo |-> Connected(vtx).vtxundo]),
           NEW x, x = SyncAll(mapWallet, vtx, BlockOf(e))
    PROVE  WalletIs(x, e, Live \cup ToSet(vtx)) /\ Told(mapWallet, ToSet(vtx), BlockOf(e), x)
<1> DEFINE S == ToSet(vtx)
           b == BlockOf(e)
           l == Len(e)
<1>1. /\ LInv /\ ChainOK(chain) /\ CoinBasesOnce(chain) /\ WalletIs(mapWallet, chain, Live)
  BY NodeIs DEF WInv, NodeInv, PInv
<1>2. ChainInv(e) /\ ChainOK(e) /\ InChain(e) = InChain(chain) \cup S /\ \A t \in S : t \notin InChain(chain)
  BY <1>1, NewBlock DEF ChainInv
<1>3. l \in 1 .. Len(e) /\ SubSeq(e, 1, l) = e /\ e[l].vtx = vtx
  <2> DEFINE R == [vtx : Blocks, vtxundo : Seq(Seq(Nat))]
             a == [vtx |-> vtx, vtxundo |-> Connected(vtx).vtxundo]
  <2>1. chain \in Seq(R) /\ e \in Seq(R) /\ e = Append(chain, a) /\ a.vtx = vtx
    BY <1>1, <1>2 DEF ChainOK
  <2> HIDE DEF R, a
  <2>2. l = Len(chain) + 1 /\ Len(chain) \in Nat /\ e[l] = a
    BY <2>1
  <2>3. SubSeq(e, 1, l) = e
    BY <2>1, WholeIs
  <2>4. QED
    BY <2>1, <2>2, <2>3
<1>4. Told(mapWallet, S, b, x) /\ S \subseteq Tx
  BY <1>1, BlockTold DEF WalletIs
<1>5. \A t \in S : GoodHash(t, b, e) /\ b # None
  BY <1>2, <1>3, OwnBlockIsGood
<1> HIDE DEF b, l
<1>6. ASSUME NEW t \in DOMAIN x PROVE GoodHash(t, x[t].hashBlock, e)
  <2>1. x[t].hashBlock = HashAfter(mapWallet, S, b, t) /\ (t \in DOMAIN mapWallet \/ t \in S)
    BY <1>4 DEF Told
  <2>2. CASE t \in S
    BY <1>5, <2>1, <2>2 DEF HashAfter
  <2>3. CASE t \notin S
    <3>1. t \in DOMAIN mapWallet /\ x[t].hashBlock = mapWallet[t].hashBlock
      BY <2>1, <2>3 DEF HashAfter
    <3>2. GoodHash(t, mapWallet[t].hashBlock, chain)
      BY <1>1, <3>1 DEF WalletIs
    <3> DEFINE a == [vtx |-> vtx, vtxundo |-> Connected(vtx).vtxundo]
    <3>3. e = Append(chain, a) /\ a.vtx = vtx
      OBVIOUS
    <3> HIDE DEF a
    <3>4. GoodHash(t, mapWallet[t].hashBlock, e)
      BY <1>1, <1>2, <2>3, <3>2, <3>3, GoodHashConnected
    <3>5. QED
      BY <3>1, <3>4
  <2>4. QED
    BY <2>2, <2>3
<1>7. ASSUME NEW t \in Live \cup S, Ours(t) PROVE t \in DOMAIN x
  <2>1. CASE t \in Live
    BY <1>1, <1>4, <1>7, <2>1 DEF WalletIs, Told
  <2>2. CASE t \in S
    <3>1. /\ Len(vtx) \in Nat /\ \A n \in 1 .. Len(vtx) : vtx[n] \in Tx
          /\ IsWallet(mapWallet) /\ \E n \in 1 .. Len(vtx) : t = vtx[n]
      BY <1>1, <2>2, BlockIs DEF WalletIs, ToSet
    <3>2. \A n \in 1 .. Len(vtx) : \A out \in prevouts(vtx[n]) :
             out \in Mine => out[1] \in DOMAIN mapWallet \/ \E j \in 1 .. n - 1 : out[1] = vtx[j]
      BY BlockIsKnown
    <3>3. \A n \in 1 .. Len(vtx) : Ours(vtx[n]) => vtx[n] \in DOMAIN x
      BY <3>1, <3>2, SyncAllKnows
    <3>4. QED
      BY <1>7, <3>1, <3>3
  <2>3. QED
    BY <2>1, <2>2
<1>8. \A t \in DOMAIN x : CreditOK(x[t].credit, t, Live \cup S)
  <2> DEFINE X == Live
             Y == Live \cup S
             w == mapWallet
  <2>1. (\A t \in DOMAIN w : CreditOK(w[t].credit, t, X)) /\ Told(w, S, b, x) /\ Y \subseteq X \cup S
    BY <1>1, <1>4 DEF WalletIs
  <2> HIDE DEF X, Y, w, S
  <2>2. \A t \in DOMAIN x : CreditOK(x[t].credit, t, Y)
    BY <2>1, ToldCredits
  <2>3. QED
    BY <2>2 DEF Y
<1>9. IsWallet(x) /\ DOMAIN x \subseteq Tx
  BY <1>1, <1>4 DEF Told, WalletIs
<1>10. WalletIs(x, e, Live \cup S)
  BY <1>6, <1>7, <1>8, <1>9 DEF WalletIs
<1>11. QED
  BY <1>4, <1>10 DEF b

(* A block is connected. *)
LEMMA ConnectStepIs == ASSUME WInv, NewCoinBases, NEW vtx \in Blocks, Connect(vtx) PROVE Kept
<1> DEFINE S == ToSet(vtx)
           C == (pool.mapTx \ pool'.mapTx) \ ToSet(vtx)
           b == BlockOf(chain')
           x == SyncAll(mapWallet, vtx, b)
<1>1. /\ LInv /\ CoinBasesOnce(chain) /\ IsFiniteSet(pool.mapTx) /\ pool.mapTx \subseteq Tx /\ IsWallet(mapWallet)
  BY NodeIs DEF WInv, NodeInv, PInv, WalletIs
<1>2. /\ ConnectTip(vtx, TRUE) /\ mapWallet' = SyncAll(x, SetToSeq(C), None)
      /\ UNCHANGED <<prepared, fReaccept>>
  BY DEF Connect, ConnectSignals
<1>3. /\ Height < MaxHeight /\ Connected(vtx).ok
      /\ chain' = Append(chain, [vtx |-> vtx, vtxundo |-> Connected(vtx).vtxundo])
      /\ Apply(Connected(vtx).view, TRUE) /\ pool' = Confirming(vtx)[Len(vtx)]
  BY <1>2 DEF ConnectTip, ConnectCoins, PoolConnected
<1>4. cacheCoins' = NoCoins /\ flushed' = chain'
  BY <1>3 DEF Apply
<1>5. /\ WalletIs(x, chain', Live \cup S) /\ Told(mapWallet, S, b, x)
  BY <1>3, BlockSignalled
<1>6. CoinBasesOnce(chain') /\ InChain(chain') = InChain(chain) \cup S
  BY <1>1, <1>3, NewBlock
<1>7. pool'.mapTx \subseteq pool.mapTx
  <2>1. Len(vtx) \in 0 .. Len(vtx)
    BY BlockIs
  <2>2. QED
    BY <1>3, <2>1, ConfirmingShrinks
<1>8. C \subseteq Tx /\ IsFiniteSet(C) /\ IsFiniteSet(pool'.mapTx)
  <2>1. C \subseteq pool.mapTx
    OBVIOUS
  <2>2. QED
    BY <1>1, <1>7, <2>1, FS_Subset
<1>9. Told(x, C, None, mapWallet')
  <2> DEFINE txs == SetToSeq(C)
  <2> HIDE DEF C, x
  <2>1. /\ Len(txs) \in Nat /\ DOMAIN txs = 1 .. Len(txs)
        /\ {txs[j] : j \in 1 .. Len(txs)} = C
    BY <1>8, SetToSeqIs
  <2> HIDE DEF txs
  <2>2. \A n \in 1 .. Len(txs) : txs[n] \in Tx
    BY <1>8, <2>1
  <2>3. IsWallet(x)
    BY <1>5 DEF WalletIs
  <2>4. ToSet(txs) = C
    BY <2>1 DEF ToSet
  <2>5. Told(x, ToSet(txs), None, SyncAll(x, txs, None))
    BY <2>1, <2>2, <2>3, SyncAllTold
  <2>6. QED
    BY <1>2, <2>4, <2>5 DEF txs
<1>10. NodeInv'
  <2>1. PInv'
    BY <1>2, NodeSteps DEF Next
  <2>2. QED
    BY <1>4, <1>6, <1>8, <2>1 DEF NodeInv
<1>11. Live' = InChain(chain') \cup pool'.mapTx /\ Live = InChain(chain) \cup pool.mapTx
  BY DEF Live
<1>12. /\ InChain(chain') \subseteq Live \cup S /\ Live' \subseteq Live \cup S
       /\ Live \subseteq Live' \cup (S \cup C)
  BY <1>6, <1>7, <1>11
<1> HIDE DEF S, C, b, x
<1>13. WalletIs(mapWallet', chain', Live')
  <2> DEFINE X == Live \cup S
             Y == Live'
             r == mapWallet'
             c == chain'
  <2>1. WalletIs(x, c, X) /\ InChain(c) \subseteq X /\ Y \subseteq X /\ Told(x, C, None, r)
    BY <1>5, <1>9, <1>12
  <2> HIDE DEF X, Y, r, c
  <2>2. WalletIs(r, c, Y)
    BY <1>8, <2>1, ToldStep
  <2>3. QED
    BY <2>2 DEF r, c, Y
<1>14. WInv'
  BY <1>2, <1>10, <1>13 DEF WInv
<1>15. Tells(S \cup C)
  <2>1. ASSUME NEW u \in DOMAIN mapWallet', mapWallet'[u].credit # None
        PROVE  CreditStays(mapWallet, S \cup C, mapWallet'[u], u)
    <3>1. u \in DOMAIN x /\ mapWallet'[u].credit = x[u].credit /\ ~Touches(C, u)
      BY <1>9, <2>1 DEF Told, CreditStays
    <3>2. u \in DOMAIN mapWallet /\ x[u].credit = mapWallet[u].credit /\ ~Touches(S, u)
      BY <1>5, <2>1, <3>1 DEF Told, CreditStays
    <3>3. QED
      BY <3>1, <3>2 DEF CreditStays, Touches
  <2>2. Live' \subseteq Live \cup (S \cup C)
    BY <1>12
  <2>3. QED
    BY <1>12, <2>1, <2>2 DEF Tells
<1>16. QED
  BY <1>14, <1>15 DEF Kept

(* The process starts, with a wallet that forgot nothing. *)
LEMMA StartStep ==
    ASSUME WInv, NEW w, IsWallet(w), DOMAIN w \subseteq Tx, DOMAIN mapWallet \subseteq DOMAIN w,
           \A t \in DOMAIN w : GoodHash(t, w[t].hashBlock, chain), Start(w)
    PROVE  Kept
<1>1. /\ PInv /\ ChainOK(chain) /\ CoinBasesOnce(chain) /\ flushed = chain
      /\ \A t \in Live : Ours(t) => t \in DOMAIN mapWallet
  BY NodeIs DEF WInv, NodeInv, WalletIs
<1>2. Restart /\ prepared' = {} /\ fReaccept' = TRUE
  BY DEF Start
<1>3. chain' = chain /\ cacheCoins' = NoCoins /\ flushed' = chain' /\ pool' = EmptyPool
  BY <1>1, <1>2 DEF Restart, RestartCoins, StopCoins
<1>4. NodeInv'
  <2>1. PInv'
    BY <1>2, NodeSteps DEF Next
  <2>2. IsFiniteSet(pool'.mapTx)
    BY <1>3, FS_EmptySet DEF EmptyPool
  <2>3. QED
    BY <1>1, <1>3, <2>1, <2>2 DEF NodeInv
<1>5. PICK h \in 0 .. Len(chain) : mapWallet' = Rescanned(Loaded(w), chain, h)
  BY <1>3 DEF Start
<1>6. Fresh(Loaded(w), chain) /\ DOMAIN Loaded(w) = DOMAIN w
  BY LoadedIs
<1>7. Fresh(mapWallet', chain) /\ DOMAIN w \subseteq DOMAIN mapWallet'
  <2> DEFINE v == Loaded(w)
  <2>1. Fresh(v, chain) /\ DOMAIN v = DOMAIN w /\ mapWallet' = Rescanned(v, chain, h)
    BY <1>5, <1>6
  <2> HIDE DEF v
  <2>2. QED
    BY <1>1, <2>1, RescannedIs
<1>8. Live' = InChain(chain) /\ Live' \subseteq Live
  BY <1>3 DEF Live, EmptyPool
<1>9. \A t \in DOMAIN mapWallet' : GoodHash(t, mapWallet'[t].hashBlock, chain) /\ mapWallet'[t].credit = None
  BY <1>7 DEF Fresh
<1>10. WalletIs(mapWallet', chain, Live')
  <2>1. \A t \in Live' : Ours(t) => t \in DOMAIN mapWallet'
    BY <1>1, <1>7, <1>8
  <2>2. \A t \in DOMAIN mapWallet' : CreditOK(mapWallet'[t].credit, t, Live')
    BY <1>9 DEF CreditOK
  <2>3. QED
    BY <1>7, <1>9, <2>1, <2>2 DEF WalletIs, Fresh
<1>11. WInv'
  BY <1>2, <1>3, <1>4, <1>10 DEF WInv
<1>12. Tells(Live)
  BY <1>8, <1>9 DEF Tells
<1>13. QED
  BY <1>11, <1>12 DEF Kept

(* The process is killed, in a block or not. *)
LEMMA KilledStep == ASSUME WInv, Killed PROVE Kept
BY StartStep DEF WInv, WalletIs, Killed

LEMMA KilledConnectingStep == ASSUME WInv, NewCoinBases, NEW vtx \in Blocks, KilledConnecting(vtx) PROVE Kept
<1> DEFINE b == Append(BlockOf(chain), vtx)
           S == ToSet(vtx)
           w == SyncAll(mapWallet, vtx, b)
           e == Append(chain, [vtx |-> vtx, vtxundo |-> Connected(vtx).vtxundo])
<1>1. /\ LInv /\ ChainOK(chain) /\ CoinBasesOnce(chain) /\ WalletIs(mapWallet, chain, Live)
  BY NodeIs DEF WInv, NodeInv, PInv
<1>2. Height < MaxHeight /\ Connected(vtx).ok /\ Start(w)
  BY DEF KilledConnecting
<1>3. \A t \in S : t \notin InChain(chain)
  <2>1. e = Append(chain, [vtx |-> vtx, vtxundo |-> Connected(vtx).vtxundo])
    OBVIOUS
  <2> HIDE DEF e
  <2>2. QED
    BY <1>1, <1>2, <2>1, NewBlock
<1>4. Told(mapWallet, S, b, w) /\ S \subseteq Tx
  BY <1>1, BlockTold DEF WalletIs
<1>5. \A t \in S : GoodHash(t, b, chain) /\ b # None
  BY <1>1, <1>3, UnconnectedIsGood
<1> HIDE DEF b, S, w
<1>6. ASSUME NEW t \in DOMAIN w PROVE GoodHash(t, w[t].hashBlock, chain)
  <2>1. w[t].hashBlock = HashAfter(mapWallet, S, b, t) /\ (t \in DOMAIN mapWallet \/ t \in S)
    BY <1>4 DEF Told
  <2>2. CASE t \in S
    BY <1>5, <2>1, <2>2 DEF HashAfter
  <2>3. CASE t \notin S
    BY <1>1, <2>1, <2>3 DEF HashAfter, WalletIs
  <2>4. QED
    BY <2>2, <2>3
<1>7. IsWallet(w) /\ DOMAIN w \subseteq Tx /\ DOMAIN mapWallet \subseteq DOMAIN w
  BY <1>1, <1>4 DEF Told, WalletIs
<1>8. QED
  BY <1>2, <1>6, <1>7, StartStep

(* After a number of the transactions was gone through, the pool and the     *)
(* wallet are right, and the wallet was told of what came to the pool.       *)
Reaccepted(acc) ==
    /\ PoolInv(acc.pool) /\ IsFiniteSet(acc.pool.mapTx)
    /\ pool.mapTx \subseteq acc.pool.mapTx /\ acc.pool.mapTx \subseteq pool.mapTx \cup DOMAIN mapWallet
    /\ Told(mapWallet, acc.pool.mapTx \ pool.mapTx, None, acc.wallet)

LEMMA ReacceptedStep ==
    ASSUME WInv, NEW acc, Reaccepted(acc), NEW t \in Tx
    PROVE  Reaccepted(Reaccept(acc, t))
<1> DEFINE P == acc.pool.mapTx
           e == Reaccept(acc, t)
           S == P \ pool.mapTx
<1>1. /\ PoolInv(acc.pool) /\ IsFiniteSet(P) /\ pool.mapTx \subseteq P /\ P \subseteq pool.mapTx \cup DOMAIN mapWallet
      /\ Told(mapWallet, S, None, acc.wallet)
  BY DEF Reaccepted
<1>2. CASE t \in DOMAIN mapWallet \ CoinBase /\ Acceptable(acc.pool, pcoinsTip, t) /\ Depth(t) < 0
  <2>1. e.pool = addUnchecked(acc.pool, t) /\ e.wallet = SyncTransaction(acc.wallet, t, None)
    BY <1>2 DEF Reaccept
  <2>2. PoolInv(e.pool) /\ e.pool.mapTx = P \cup {t} /\ t \notin P
    BY <1>1, <1>2, <2>1, AddedIsExact DEF Acceptable
  <2>3. IsFiniteSet(P \cup {t})
    BY <1>1, FS_AddElement
  <2>4. IsWallet(acc.wallet)
    BY <1>1 DEF Told
  <2>5. Told(acc.wallet, {t}, None, e.wallet)
    BY <2>1, <2>4, SyncIs
  <2>6. Told(mapWallet, S \cup {t}, None, e.wallet)
    <3> HIDE DEF S, e
    <3>1. QED
      BY <1>1, <2>5, ToldTwice
  <2>7. e.pool.mapTx \ pool.mapTx = S \cup {t}
    BY <1>1, <2>2
  <2>8. QED
    BY <1>1, <1>2, <2>2, <2>3, <2>6, <2>7 DEF Reaccepted
<1>3. CASE ~(t \in DOMAIN mapWallet \ CoinBase /\ Acceptable(acc.pool, pcoinsTip, t) /\ Depth(t) < 0)
  BY <1>3 DEF Reaccept
<1>4. QED
  BY <1>2, <1>3

(* ReacceptWalletTransactions gives the pool what it takes. *)
LEMMA ReacceptStep == ASSUME WInv, ReacceptWalletTransactions PROVE Kept
<1> DEFINE N == Len(HashOrder)
           k == Reaccepting
           D == {n \in 0 .. N : Reaccepted(k[n])}
<1>1. N \in Nat /\ \A n \in 1 .. N : HashOrder[n] \in Tx
  BY WalletAssumption
<1>2. k[0] = [pool |-> pool, wallet |-> mapWallet] /\ \A n \in 1 .. N : k[n] = Reaccept(k[n - 1], HashOrder[n])
  BY <1>1, ReacceptingIs
<1> HIDE DEF k
<1>3. 0 \in D
  <2>1. PoolInv(pool) /\ IsFiniteSet(pool.mapTx) /\ IsWallet(mapWallet)
    BY DEF WInv, NodeInv, PInv, WalletIs
  <2>2. pool.mapTx \ pool.mapTx = {} /\ k[0].pool = pool /\ k[0].wallet = mapWallet
    BY <1>2
  <2>3. Told(mapWallet, pool.mapTx \ pool.mapTx, None, mapWallet)
    BY <2>1, <2>2, ToldOfNone
  <2>4. Reaccepted(k[0])
    BY <2>1, <2>2, <2>3 DEF Reaccepted
  <2>5. QED
    BY <1>1, <2>4
<1>4. ASSUME NEW n \in 1 .. N, n - 1 \in D PROVE n \in D
  BY <1>1, <1>2, <1>4, ReacceptedStep
<1>5. \A n \in 0 .. N : n \in D
  <2> HIDE DEF D, N
  <2>1. QED
    BY <1>1, <1>3, <1>4, Upward
<1>6. Reaccepted(k[N])
  BY <1>1, <1>5
<1>7. pool' = k[N].pool /\ mapWallet' = k[N].wallet /\ fReaccept' = FALSE /\ UNCHANGED <<ledger, bShareMoney, prepared>>
  BY DEF ReacceptWalletTransactions, k
<1> HIDE DEF N
<1> DEFINE S == pool'.mapTx \ pool.mapTx
<1>8. /\ PoolInv(pool') /\ IsFiniteSet(pool'.mapTx) /\ pool.mapTx \subseteq pool'.mapTx /\ S \subseteq DOMAIN mapWallet
      /\ Told(mapWallet, S, None, mapWallet')
  BY <1>6, <1>7 DEF Reaccepted
<1>9. NodeInv'
  <2>1. LInv'
    BY <1>7, StepIs DEF WInv, NodeInv, PInv
  <2>2. PInv'
    BY <1>7, <1>8, <2>1 DEF WInv, NodeInv, PInv
  <2>3. QED
    BY <1>7, <1>8, <2>2, NodeKept
<1>10. WalletIs(mapWallet', chain', Live') /\ Tells(S)
  <2>1. S \subseteq Tx /\ DOMAIN mapWallet \subseteq DOMAIN mapWallet' /\ pool'.mapTx \subseteq pool.mapTx \cup S
    BY <1>8 DEF Told, WInv, WalletIs
  <2>2. chain' = chain
    BY <1>7 DEF ledger
  <2>3. QED
    BY <1>8, <2>1, <2>2, GrownStep
<1>11. WInv'
  BY <1>7, <1>9, <1>10 DEF WInv
<1>12. QED
  BY <1>10, <1>11 DEF Kept

-----------------------------------------------------------------------------
(* The wallet's view is exact *)

(* The invariant holds when the node starts for the first time. *)
LEMMA WalletStarts == WalletInit => WInv
<1> SUFFICES ASSUME WalletInit PROVE WInv
  OBVIOUS
<1>1. PInv /\ chain = <<>> /\ cacheCoins = NoCoins /\ flushed = <<>> /\ pool = EmptyPool
  BY PoolInit DEF WalletInit, Init, LedgerInit
<1>2. Places(chain) = {}
  BY <1>1 DEF Places
<1>3. NodeInv
  BY <1>1, <1>2, FS_EmptySet DEF NodeInv, CoinBasesOnce, EmptyPool
<1>4. Live = {}
  BY <1>1, <1>2 DEF Live, InChain, EmptyPool
<1>5. mapWallet = [t \in {} |-> None] /\ DOMAIN mapWallet = {} /\ prepared = {} /\ fReaccept = FALSE
  BY DEF WalletInit
<1>6. WalletIs(mapWallet, chain, Live)
  <2>1. IsWallet(mapWallet)
    BY <1>5 DEF IsWallet
  <2>2. QED
    BY <1>4, <1>5, <2>1 DEF WalletIs
<1>7. QED
  BY <1>3, <1>5, <1>6 DEF WInv

(* Every step keeps it, as long as no coinbase is repeated. *)
LEMMA WalletKept == WInv /\ NewCoinBases /\ [WalletNext]_walletVars => Kept
<1> SUFFICES ASSUME WInv, NewCoinBases, [WalletNext]_walletVars PROVE Kept
  OBVIOUS
<1>1. ASSUME NEW t \in Tx, Accept(t) PROVE Kept
  BY <1>1, AcceptStep
<1>2. ASSUME NEW vtx \in Blocks, Connect(vtx) PROVE Kept
  BY <1>2, ConnectStepIs
<1>3. ASSUME NEW vtx \in Blocks, KilledConnecting(vtx) PROVE Kept
  BY <1>3, KilledConnectingStep
<1>4. CASE Disconnect
  BY <1>4, DisconnectStepIs
<1>5. CASE Killed
  BY <1>5, KilledStep
<1>6. ASSUME NEW fTrusted \in BOOLEAN, GetBalance(fTrusted) PROVE Kept
  BY <1>6, BalanceStep
<1>7. ASSUME NEW t \in Own, CommitTransaction(t) PROVE Kept
  BY <1>7, CommitStep
<1>8. CASE ReacceptWalletTransactions
  BY <1>8, ReacceptStep
<1>9. CASE (\E t \in Own : CreateTransaction(t)) \/ ChangeSeason \/ UNCHANGED walletVars
  BY <1>9, SameWalletStep
<1>10. QED
  BY <1>1, <1>2, <1>3, <1>4, <1>5, <1>6, <1>7, <1>8, <1>9 DEF WalletNext

(* The invariant holds as long as no block brings a coinbase of the chain. *)
THEOREM WalletInvariant == WalletSpec /\ []NewCoinBases => []WInv
<1>1. WInv /\ NewCoinBases /\ [WalletNext]_walletVars => WInv'
  BY WalletKept DEF Kept
<1>2. QED
  BY <1>1, WalletStarts, PTL DEF WalletSpec

(* The wallet learns of every transaction of the chain and of the pool that  *)
(* pays it or spends what is its own, and its depth is that of its block,    *)
(* across reorganisations, restarts and kills.                               *)
THEOREM WalletIsExactAlways == WalletSpec /\ []NewCoinBases => []WalletIsExact
<1>1. WInv => WalletIsExact
  BY ExactIs
<1>2. QED
  BY <1>1, WalletInvariant, PTL

(* A balance read from the caches never counts an output that is spent in    *)
(* the chain or in the pool.                                                 *)
THEOREM BalanceIsUnspentAlways == WalletSpec /\ []NewCoinBases => []BalanceIsUnspent
<1>1. WInv => BalanceIsUnspent
  BY BalanceIs
<1>2. QED
  BY <1>1, WalletInvariant, PTL

(* What the wallet offers can be spent, in the season that admits it.        *)
THEOREM OffersAreAcceptableAlways == WalletSpec /\ []NewCoinBases => []OffersAreAcceptable
<1>1. WInv => OffersAreAcceptable
  BY OffersAre
<1>2. QED
  BY <1>1, WalletInvariant, PTL

(* No step makes a cached credit wrong, but DisconnectTip when it drops pool *)
(* transactions that are not the block's.                                    *)
THEOREM CreditsStayExactAlways == WalletSpec /\ []NewCoinBases => CreditsStayExact
<1>1. ASSUME WInv, NewCoinBases, WalletNext, CreditsAreExact, ~DropsUntold
      PROVE  CreditsAreExact'
  BY <1>1, WalletKept, CreditsAfter
<1>2. WInv /\ NewCoinBases /\ [WalletNext]_walletVars => [CreditsAreExact => CreditsAreExact' \/ DropsUntold]_walletVars
  BY <1>1
<1>3. QED
  BY <1>2, WalletInvariant, PTL DEF WalletSpec, CreditsStayExact
===============================================================================
