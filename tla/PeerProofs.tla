----------------------------- MODULE PeerProofs ----------------------------
(***************************************************************************)
(* Proofs about the peers: the nodes of the connections to them (module    *)
(* Nodes) and the addresses to connect to (module AddrMan).                *)
(*                                                                         *)
(* Of the nodes, for every number of heap addresses, openers and network   *)
(* addresses and every limit:                                              *)
(*                                                                         *)
(*   UsedNodesAreKeptAlways       no thread has a deleted node in its      *)
(*                                snapshot, in hand or in vNodes, and the  *)
(*                                references of a node are counted;        *)
(*   ConnectionsAreGrantedAlways  the units of the outbound semaphore are  *)
(*                                conserved, and the connections made      *)
(*                                under a grant, and the inbound ones,     *)
(*                                stay within their limits.                *)
(*                                                                         *)
(* Neither is inductive.  That a node is alive while it is used needs the  *)
(* count to cover every use, which is more than ReferencesAreCounted says: *)
(* the reference a list owns is there until HoldDisconnected, and the      *)
(* opener that made a node is covered by the reference the node is made    *)
(* with as long as fNetworkNode is not set, since it is not released       *)
(* before.  That no thread loses its connection to a deleted node needs,   *)
(* for the step between TryDelete and DeleteNode, that nobody has got hold *)
(* of the node in between.  The bound on the connections made under a      *)
(* grant needs each of them to have one, or an opener that is about to     *)
(* give it its own.  IInv is the conjunction of these parts; after a write *)
(* to freed memory ("undefined") nothing moves any more, and it only says  *)
(* what still holds.                                                       *)
(*                                                                         *)
(* Of the address manager, which comes first, for every number of          *)
(* addresses and buckets, every size of these and every way in which       *)
(* addresses fall into them:                                               *)
(*                                                                         *)
(*   CheckAlways         what Check_ tests holds after every operation;    *)
(*   TablesAreKeptAlways a tried entry is only ever exchanged for another, *)
(*                       and loading brings back what was saved.           *)
(*                                                                         *)
(* Check_ is nearly inductive: AddrManInv adds that success has every      *)
(* tried address once.  It speaks of the tables as one value (Sound), so   *)
(* that the steps within an operation can be followed one by one: between  *)
(* them one entry may be counted once more than it has places (Near,       *)
(* Ready).  Every change of the tables is described by what it makes of    *)
(* each field (the lemmas named "...Fields"); the counters follow from the *)
(* cardinalities of the sets of tried and of new entries.  The loops over  *)
(* random numbers are recursive functions; an invariant of the loop is     *)
(* proved for the least count at which it would fail.  Saving is a         *)
(* bijection from the ids in the file to those in memory (Renumbered).     *)
(***************************************************************************)
EXTENDS Nodes, AddrMan, Counting, SequenceTheorems

(* The address manager *)

(* The tables as records *)

Entry == [addr : NetAddr, source : Source, nRefCount : Nat, fInTried : BOOLEAN, nRandomPos : Nat]

TablesOf(info, addr, random, tried, new, vvT, vvN, ids) ==
    [info |-> info, addr |-> addr, random |-> random, tried |-> tried, new |-> new,
     vvTried |-> vvT, vvNew |-> vvN, ids |-> ids]

IsTables(t) == t = TablesOf(t.info, t.addr, t.random, t.tried, t.new, t.vvTried, t.vvNew, t.ids)

(* updates of an entry *)
Counting(i, id, n) == [i EXCEPT ![id].nRefCount = n]
Tabling(i, id, b) == [i EXCEPT ![id].fInTried = b]
Moving(i, id, p) == [i EXCEPT ![id].nRandomPos = p]

(* The fields of tables. *)
LEMMA TablesFields ==
    ASSUME NEW i, NEW a, NEW r, NEW m, NEW n, NEW v, NEW w, NEW c
    PROVE  LET t == TablesOf(i, a, r, m, n, v, w, c) IN
           /\ t.info = i /\ t.addr = a /\ t.random = r /\ t.tried = m /\ t.new = n
           /\ t.vvTried = v /\ t.vvNew = w /\ t.ids = c
           /\ IsTables(t)
BY DEF TablesOf, IsTables

(* The fields of an entry. *)
LEMMA EntryFields ==
    ASSUME NEW e \in Entry
    PROVE  /\ e.addr \in NetAddr /\ e.source \in Source /\ e.nRefCount \in Nat
           /\ e.fInTried \in BOOLEAN /\ e.nRandomPos \in Nat
           /\ e = [addr |-> e.addr, source |-> e.source, nRefCount |-> e.nRefCount,
                   fInTried |-> e.fInTried, nRandomPos |-> e.nRandomPos]
BY DEF Entry

(* Counting changes nRefCount of one entry. *)
LEMMA CountingIs ==
    ASSUME NEW D, NEW i \in [D -> Entry], NEW id \in D, NEW n \in Nat
    PROVE  LET j == Counting(i, id, n) IN
           /\ j \in [D -> Entry] /\ \A x \in D \ {id} : j[x] = i[x]
           /\ j[id].nRefCount = n /\ j[id].addr = i[id].addr /\ j[id].source = i[id].source
           /\ j[id].fInTried = i[id].fInTried /\ j[id].nRandomPos = i[id].nRandomPos
<1> DEFINE e == i[id]
           f == [e EXCEPT !.nRefCount = n]
<1>1. ASSUME NEW a, NEW b, NEW c, NEW d, NEW g, NEW y
      PROVE  [[addr |-> a, source |-> b, nRefCount |-> c, fInTried |-> d, nRandomPos |-> g] EXCEPT !.nRefCount = y]
             = [addr |-> a, source |-> b, nRefCount |-> y, fInTried |-> d, nRandomPos |-> g]
  OBVIOUS
<1>2. e \in Entry
  OBVIOUS
<1>3. Counting(i, id, n) = [i EXCEPT ![id] = f]
  BY DEF Counting
<1> HIDE DEF e
<1>4. f = [addr |-> e.addr, source |-> e.source, nRefCount |-> n, fInTried |-> e.fInTried, nRandomPos |-> e.nRandomPos]
  BY <1>1, <1>2, EntryFields
<1> HIDE DEF f
<1>5. f \in Entry /\ f.nRefCount = n /\ f.addr = e.addr /\ f.source = e.source /\ f.fInTried = e.fInTried /\ f.nRandomPos = e.nRandomPos
  BY <1>2, <1>4, EntryFields DEF Entry
<1>6. QED
  BY <1>3, <1>5 DEF e

(* Tabling changes fInTried of one entry. *)
LEMMA TablingIs ==
    ASSUME NEW D, NEW i \in [D -> Entry], NEW id \in D, NEW n \in BOOLEAN
    PROVE  LET j == Tabling(i, id, n) IN
           /\ j \in [D -> Entry] /\ \A x \in D \ {id} : j[x] = i[x]
           /\ j[id].fInTried = n /\ j[id].addr = i[id].addr /\ j[id].source = i[id].source
           /\ j[id].nRefCount = i[id].nRefCount /\ j[id].nRandomPos = i[id].nRandomPos
<1> DEFINE e == i[id]
           f == [e EXCEPT !.fInTried = n]
<1>1. ASSUME NEW a, NEW b, NEW c, NEW d, NEW g, NEW y
      PROVE  [[addr |-> a, source |-> b, nRefCount |-> c, fInTried |-> d, nRandomPos |-> g] EXCEPT !.fInTried = y]
             = [addr |-> a, source |-> b, nRefCount |-> c, fInTried |-> y, nRandomPos |-> g]
  OBVIOUS
<1>2. e \in Entry
  OBVIOUS
<1>3. Tabling(i, id, n) = [i EXCEPT ![id] = f]
  BY DEF Tabling
<1> HIDE DEF e
<1>4. f = [addr |-> e.addr, source |-> e.source, nRefCount |-> e.nRefCount, fInTried |-> n, nRandomPos |-> e.nRandomPos]
  BY <1>1, <1>2, EntryFields
<1> HIDE DEF f
<1>5. f \in Entry /\ f.fInTried = n /\ f.addr = e.addr /\ f.source = e.source /\ f.nRefCount = e.nRefCount /\ f.nRandomPos = e.nRandomPos
  BY <1>2, <1>4, EntryFields DEF Entry
<1>6. QED
  BY <1>3, <1>5 DEF e

(* Moving changes nRandomPos of one entry. *)
LEMMA MovingIs ==
    ASSUME NEW D, NEW i \in [D -> Entry], NEW id \in D, NEW n \in Nat
    PROVE  LET j == Moving(i, id, n) IN
           /\ j \in [D -> Entry] /\ \A x \in D \ {id} : j[x] = i[x]
           /\ j[id].nRandomPos = n /\ j[id].addr = i[id].addr /\ j[id].source = i[id].source
           /\ j[id].nRefCount = i[id].nRefCount /\ j[id].fInTried = i[id].fInTried
<1> DEFINE e == i[id]
           f == [e EXCEPT !.nRandomPos = n]
<1>1. ASSUME NEW a, NEW b, NEW c, NEW d, NEW g, NEW y
      PROVE  [[addr |-> a, source |-> b, nRefCount |-> c, fInTried |-> d, nRandomPos |-> g] EXCEPT !.nRandomPos = y]
             = [addr |-> a, source |-> b, nRefCount |-> c, fInTried |-> d, nRandomPos |-> y]
  OBVIOUS
<1>2. e \in Entry
  OBVIOUS
<1>3. Moving(i, id, n) = [i EXCEPT ![id] = f]
  BY DEF Moving
<1> HIDE DEF e
<1>4. f = [addr |-> e.addr, source |-> e.source, nRefCount |-> e.nRefCount, fInTried |-> e.fInTried, nRandomPos |-> n]
  BY <1>1, <1>2, EntryFields
<1> HIDE DEF f
<1>5. f \in Entry /\ f.nRandomPos = n /\ f.addr = e.addr /\ f.source = e.source /\ f.nRefCount = e.nRefCount /\ f.fInTried = e.fInTried
  BY <1>2, <1>4, EntryFields DEF Entry
<1>6. QED
  BY <1>3, <1>5 DEF e

-----------------------------------------------------------------------------
(* The operations, field by field *)

(* updates of one field *)
Infos(t, x) == [t EXCEPT !.info = x]
Addrs(t, x) == [t EXCEPT !.addr = x]
Randoms(t, x) == [t EXCEPT !.random = x]
TriedCounts(t, x) == [t EXCEPT !.tried = x]
NewCounts(t, x) == [t EXCEPT !.new = x]
VvTrieds(t, x) == [t EXCEPT !.vvTried = x]
VvNews(t, x) == [t EXCEPT !.vvNew = x]
NextIds(t, x) == [t EXCEPT !.ids = x]

(* Tables with another field, as an EXCEPT and as a record *)
LEMMA InfosIs ==
    ASSUME NEW i, NEW a, NEW r, NEW m, NEW n, NEW v, NEW w, NEW c, NEW x
    PROVE  Infos(TablesOf(i, a, r, m, n, v, w, c), x) = TablesOf(x, a, r, m, n, v, w, c)
BY DEF Infos, TablesOf

LEMMA AddrsIs ==
    ASSUME NEW i, NEW a, NEW r, NEW m, NEW n, NEW v, NEW w, NEW c, NEW x
    PROVE  Addrs(TablesOf(i, a, r, m, n, v, w, c), x) = TablesOf(i, x, r, m, n, v, w, c)
BY DEF Addrs, TablesOf

LEMMA RandomsIs ==
    ASSUME NEW i, NEW a, NEW r, NEW m, NEW n, NEW v, NEW w, NEW c, NEW x
    PROVE  Randoms(TablesOf(i, a, r, m, n, v, w, c), x) = TablesOf(i, a, x, m, n, v, w, c)
BY DEF Randoms, TablesOf

LEMMA TriedCountsIs ==
    ASSUME NEW i, NEW a, NEW r, NEW m, NEW n, NEW v, NEW w, NEW c, NEW x
    PROVE  TriedCounts(TablesOf(i, a, r, m, n, v, w, c), x) = TablesOf(i, a, r, x, n, v, w, c)
BY DEF TriedCounts, TablesOf

LEMMA NewCountsIs ==
    ASSUME NEW i, NEW a, NEW r, NEW m, NEW n, NEW v, NEW w, NEW c, NEW x
    PROVE  NewCounts(TablesOf(i, a, r, m, n, v, w, c), x) = TablesOf(i, a, r, m, x, v, w, c)
BY DEF NewCounts, TablesOf

LEMMA VvTriedsIs ==
    ASSUME NEW i, NEW a, NEW r, NEW m, NEW n, NEW v, NEW w, NEW c, NEW x
    PROVE  VvTrieds(TablesOf(i, a, r, m, n, v, w, c), x) = TablesOf(i, a, r, m, n, x, w, c)
BY DEF VvTrieds, TablesOf

LEMMA VvNewsIs ==
    ASSUME NEW i, NEW a, NEW r, NEW m, NEW n, NEW v, NEW w, NEW c, NEW x
    PROVE  VvNews(TablesOf(i, a, r, m, n, v, w, c), x) = TablesOf(i, a, r, m, n, v, x, c)
BY DEF VvNews, TablesOf

LEMMA NextIdsIs ==
    ASSUME NEW i, NEW a, NEW r, NEW m, NEW n, NEW v, NEW w, NEW c, NEW x
    PROVE  NextIds(TablesOf(i, a, r, m, n, v, w, c), x) = TablesOf(i, a, r, m, n, v, w, x)
BY DEF NextIds, TablesOf

(* What SwapRandom makes of each field *)
LEMMA SwapRandomFields ==
    ASSUME NEW t, IsTables(t), NEW p, NEW q
    PROVE  SwapRandom(t, p, q)
             = TablesOf(Moving(Moving(t.info, t.random[p], q), t.random[q], p), t.addr,
                        SwapTried(t.random, p, q), t.tried, t.new, t.vvTried, t.vvNew, t.ids)
<1> DEFINE i == Moving(Moving(t.info, t.random[p], q), t.random[q], p)
           r == SwapTried(t.random, p, q)
<1>1. SwapRandom(t, p, q) = [t EXCEPT !.info = i, !.random = r]
  BY DEF SwapRandom, Moving, SwapTried
<1> HIDE DEF i, r
<1>2. SwapRandom(t, p, q) = Randoms(Infos(t, i), r)
  BY <1>1 DEF Infos, Randoms
<1>3. QED
  BY <1>2, InfosIs, RandomsIs DEF IsTables, i, r

(* the entry that Create makes *)
Fresh(t, a, s) ==
    [addr |-> a, source |-> s, nRefCount |-> 0, fInTried |-> FALSE, nRandomPos |-> Len(t.random) + 1]

(* What Create does *)
LEMMA CreateFields ==
    ASSUME NEW t, IsTables(t), NEW a, NEW s
    PROVE  Create(t, a, s)
             = TablesOf(With(t.info, t.ids, Fresh(t, a, s)),
                        With(t.addr, a, t.ids), Append(t.random, t.ids), t.tried, t.new + 1, t.vvTried, t.vvNew, t.ids + 1)
<1> DEFINE i == With(t.info, t.ids, Fresh(t, a, s))
           b == With(t.addr, a, t.ids)
           r == Append(t.random, t.ids)
<1>1. Create(t, a, s) = [t EXCEPT !.info = i, !.addr = b, !.random = r, !.new = t.new + 1, !.ids = t.ids + 1]
  BY DEF Create, Fresh
<1> HIDE DEF i, b, r
<1>2. Create(t, a, s) = NextIds(NewCounts(Randoms(Addrs(Infos(t, i), b), r), t.new + 1), t.ids + 1)
  BY <1>1 DEF Infos, Addrs, Randoms, NewCounts, NextIds
<1>3. QED
  BY <1>2, InfosIs, AddrsIs, RandomsIs, NewCountsIs, NextIdsIs DEF IsTables, i, b, r

(* what Delete does after the swap *)
Dropping(t, id, a) ==
    [t EXCEPT !.random = Front(@), !.info = Without(@, id), !.addr = Without(@, a), !.new = @ - 1]

(* and what is left without the last entry of vRandom *)
LEMMA DroppingFields ==
    ASSUME NEW t, IsTables(t), NEW id, NEW a
    PROVE  Dropping(t, id, a)
             = TablesOf(Without(t.info, id), Without(t.addr, a), Front(t.random), t.tried, t.new - 1, t.vvTried, t.vvNew, t.ids)
<1> DEFINE i == Without(t.info, id)
           b == Without(t.addr, a)
           r == Front(t.random)
<1>1. Dropping(t, id, a) = [t EXCEPT !.random = r, !.info = i, !.addr = b, !.new = t.new - 1]
  BY DEF Dropping
<1> HIDE DEF i, b, r
<1>2. Dropping(t, id, a) = NewCounts(Addrs(Infos(Randoms(t, r), i), b), t.new - 1)
  BY <1>1 DEF Infos, Addrs, Randoms, NewCounts
<1>3. QED
  BY <1>2, InfosIs, AddrsIs, RandomsIs, NewCountsIs DEF IsTables, i, b, r

(* updates of a bucket of the new table *)
Leaving(w, u, id) == [w EXCEPT ![u] = @ \ {id}]
Joining(w, u, id) == [w EXCEPT ![u] = @ \cup {id}]

(* what ShrinkNew does first *)
Lessening(t, u, id) == [t EXCEPT !.info[id].nRefCount = @ - 1, !.vvNew[u] = @ \ {id}]

(* when a bucket lets an entry go *)
LEMMA LesseningFields ==
    ASSUME NEW t, IsTables(t), NEW u, NEW id
    PROVE  Lessening(t, u, id)
             = TablesOf(Counting(t.info, id, t.info[id].nRefCount - 1), t.addr, t.random, t.tried, t.new, t.vvTried,
                        Leaving(t.vvNew, u, id), t.ids)
<1> DEFINE x == Counting(t.info, id, t.info[id].nRefCount - 1)
           y == Leaving(t.vvNew, u, id)
<1>1. Lessening(t, u, id) = [t EXCEPT !.info = x, !.vvNew = y]
  BY DEF Lessening, Counting, Leaving
<1> HIDE DEF x, y
<1>2. Lessening(t, u, id) = VvNews(Infos(t, x), y)
  BY <1>1 DEF Infos, VvNews
<1>3. QED
  BY <1>2, InfosIs, VvNewsIs DEF IsTables, x, y

(* when an entry is counted once more *)
LEMMA ReferredFields ==
    ASSUME NEW t, IsTables(t), NEW u, NEW id, id \notin t.vvNew[u]
    PROVE  Referred(t, u, id)
             = TablesOf(Counting(t.info, id, t.info[id].nRefCount + 1), t.addr, t.random, t.tried, t.new, t.vvTried, t.vvNew, t.ids)
<1>1. Referred(t, u, id) = [t EXCEPT !.info[id].nRefCount = @ + 1]
  BY DEF Referred
<1>2. Referred(t, u, id) = Infos(t, Counting(t.info, id, t.info[id].nRefCount + 1))
  BY <1>1 DEF Infos, Counting
<1>3. QED
  BY <1>2, InfosIs DEF IsTables

(* what PutInNew does last *)
Putting(t, u, id) == [t EXCEPT !.vvNew[u] = @ \cup {id}]

(* when a bucket takes one in *)
LEMMA PuttingFields ==
    ASSUME NEW t, IsTables(t), NEW u, NEW id
    PROVE  Putting(t, u, id) = TablesOf(t.info, t.addr, t.random, t.tried, t.new, t.vvTried, Joining(t.vvNew, u, id), t.ids)
<1>1. Putting(t, u, id) = VvNews(t, Joining(t.vvNew, u, id))
  BY DEF Putting, VvNews, Joining
<1>2. QED
  BY <1>1, VvNewsIs DEF IsTables

-----------------------------------------------------------------------------
(* What holds of the tables *)

TriedOf(t) == {id \in DOMAIN t.info : t.info[id].fInTried}
NewOf(t) == {id \in DOMAIN t.info : ~t.info[id].fInTried}
BucketsOf(t, id) == {u \in NewBucket : id \in t.vvNew[u]}

Typed(t) ==
    /\ IsTables(t) /\ t.ids \in Nat /\ t.tried \in Nat /\ t.new \in Nat
    /\ t.info \in [DOMAIN t.info -> Entry] /\ \A id \in DOMAIN t.info : id \in Nat /\ id < t.ids
    /\ DOMAIN t.addr \subseteq NetAddr /\ t.addr = [a \in DOMAIN t.addr |-> t.addr[a]]
    /\ t.random \in Seq(DOMAIN t.info)
    /\ t.vvNew \in [NewBucket -> SUBSET DOMAIN t.info]
    /\ t.vvTried \in [TriedBucket -> Seq(DOMAIN t.info)]

(* mapAddr and vRandom have each entry once, where it says. *)
Indexed(t) ==
    /\ \A a \in DOMAIN t.addr : t.addr[a] \in DOMAIN t.info /\ t.info[t.addr[a]].addr = a
    /\ \A id \in DOMAIN t.info : t.info[id].addr \in DOMAIN t.addr /\ t.addr[t.info[id].addr] = id
    /\ \A id \in DOMAIN t.info : t.info[id].nRandomPos \in 1 .. Len(t.random) /\ t.random[t.info[id].nRandomPos] = id
    /\ \A p \in 1 .. Len(t.random) : t.info[t.random[p]].nRandomPos = p

CountsAgree(t) == t.tried = Cardinality(TriedOf(t)) /\ t.new = Cardinality(NewOf(t))

Placed(t) ==
    \A k \in TriedBucket : /\ IsInjective(t.vvTried[k])
                           /\ ToSet(t.vvTried[k]) = {id \in TriedOf(t) : GetTriedBucket[t.info[id].addr] = k}

Bounded(t) ==
    /\ \A u \in NewBucket : Cardinality(t.vvNew[u]) <= ADDRMAN_NEW_BUCKET_SIZE
    /\ \A k \in TriedBucket : Len(t.vvTried[k]) <= ADDRMAN_TRIED_BUCKET_SIZE

Base(t) == Typed(t) /\ Indexed(t) /\ CountsAgree(t) /\ Placed(t) /\ Bounded(t)

(* The entry counts its buckets; it has none just when it is tried. *)
RefersRight(t, id) ==
    /\ t.info[id].nRefCount = Cardinality(BucketsOf(t, id))
    /\ t.info[id].nRefCount <= ADDRMAN_NEW_BUCKETS_PER_ADDRESS
    /\ t.info[id].fInTried <=> BucketsOf(t, id) = {}

Sound(t) == Base(t) /\ \A id \in DOMAIN t.info : RefersRight(t, id)

(* Add_ has counted the bucket u before it puts the entry there. *)
Near(t, id, u) ==
    /\ Base(t) /\ id \in DOMAIN t.info /\ u \in NewBucket
    /\ \A x \in DOMAIN t.info \ {id} : RefersRight(t, x)
    /\ ~t.info[id].fInTried /\ id \notin t.vvNew[u]
    /\ t.info[id].nRefCount = Cardinality(BucketsOf(t, id)) + 1
    /\ t.info[id].nRefCount <= ADDRMAN_NEW_BUCKETS_PER_ADDRESS

(* The sets that are counted are finite. *)
LEMMA TablesAreFinite ==
    ASSUME NEW t, Typed(t)
    PROVE  /\ IsFiniteSet(DOMAIN t.info) /\ Cardinality(DOMAIN t.info) <= t.ids
           /\ IsFiniteSet(TriedOf(t)) /\ IsFiniteSet(NewOf(t))
           /\ \A u \in NewBucket : IsFiniteSet(t.vvNew[u]) /\ Cardinality(t.vvNew[u]) \in Nat
           /\ \A id : IsFiniteSet(BucketsOf(t, id)) /\ Cardinality(BucketsOf(t, id)) \in Nat
<1>1. IsFiniteSet(1 .. t.ids) /\ Cardinality(1 .. t.ids) = t.ids
  <2>1. t.ids \in Nat
    BY DEF Typed
  <2> DEFINE n == t.ids
  <2> HIDE DEF n
  <2>2. IsFiniteSet(1 .. n) /\ Cardinality(1 .. n) = IF 1 > n THEN 0 ELSE n - 1 + 1
    <3>1. 1 \in Int /\ n \in Int
      BY <2>1 DEF n
    <3>2. QED
      BY <3>1, FS_Interval, Zenon
  <2>3. n \in Nat
    BY <2>1 DEF n
  <2>4. IsFiniteSet(1 .. n) /\ Cardinality(1 .. n) = n
    BY <2>2, <2>3
  <2>5. QED
    BY <2>4 DEF n
<1> DEFINE f == [id \in DOMAIN t.info |-> id + 1]
<1>2. f \in Injection(DOMAIN t.info, 1 .. t.ids)
  <2>1. f \in [DOMAIN t.info -> 1 .. t.ids]
    BY DEF Typed
  <2>2. \A x, y \in DOMAIN t.info : f[x] = f[y] => x = y
    BY DEF Typed
  <2>3. QED
    BY <2>1, <2>2 DEF Injection, IsInjective
<1>3. IsFiniteSet(DOMAIN t.info) /\ Cardinality(DOMAIN t.info) <= t.ids
  BY <1>1, <1>2, FS_Injection
<1>4. \A S : S \subseteq DOMAIN t.info => IsFiniteSet(S) /\ Cardinality(S) \in Nat
  BY <1>3, FS_Subset, FS_CardinalityType
<1>5. \A id : BucketsOf(t, id) \subseteq NewBucket
  BY DEF BucketsOf
<1>6. \A id : IsFiniteSet(BucketsOf(t, id)) /\ Cardinality(BucketsOf(t, id)) \in Nat
  BY <1>5, BucketsAssumption, FS_Subset, FS_CardinalityType
<1>7. TriedOf(t) \subseteq DOMAIN t.info /\ NewOf(t) \subseteq DOMAIN t.info
  BY DEF TriedOf, NewOf
<1>8. \A u \in NewBucket : t.vvNew[u] \subseteq DOMAIN t.info
  BY DEF Typed
<1>9. QED
  BY <1>3, <1>4, <1>6, <1>7, <1>8

(* What stays when entries keep their addresses and their tables. *)
Staying(r, t) ==
    /\ IsTables(r) /\ DOMAIN r.info = DOMAIN t.info /\ r.info \in [DOMAIN t.info -> Entry]
    /\ \A x \in DOMAIN t.info : r.info[x].addr = t.info[x].addr /\ r.info[x].fInTried = t.info[x].fInTried
    /\ r.addr = t.addr /\ r.tried = t.tried /\ r.new = t.new /\ r.vvTried = t.vvTried /\ r.ids = t.ids
    /\ r.vvNew \in [NewBucket -> SUBSET DOMAIN t.info]
    /\ \A u \in NewBucket : Cardinality(r.vvNew[u]) <= ADDRMAN_NEW_BUCKET_SIZE
    /\ r.random \in Seq(DOMAIN t.info)
    /\ \A x \in DOMAIN t.info : r.info[x].nRandomPos \in 1 .. Len(r.random) /\ r.random[r.info[x].nRandomPos] = x
    /\ \A p \in 1 .. Len(r.random) : r.info[r.random[p]].nRandomPos = p

(* Such tables keep the base, and the same entries are tried and new. *)
LEMMA BaseStays ==
    ASSUME NEW t, Base(t), NEW r, Staying(r, t)
    PROVE  Base(r) /\ TriedOf(r) = TriedOf(t) /\ NewOf(r) = NewOf(t)
<1> USE DEF Staying
<1>1. TriedOf(r) = TriedOf(t) /\ NewOf(r) = NewOf(t)
  BY DEF TriedOf, NewOf
<1>2. Typed(r)
  BY DEF Base, Typed
<1>3. Indexed(r)
  <2>1. Indexed(t) /\ \A p \in 1 .. Len(r.random) : r.random[p] \in DOMAIN t.info
    BY DEF Base
  <2>2. \A a \in DOMAIN t.addr : t.addr[a] \in DOMAIN t.info /\ r.info[t.addr[a]].addr = a
    BY <2>1 DEF Indexed
  <2>3. \A x \in DOMAIN t.info : r.info[x].addr \in DOMAIN t.addr /\ t.addr[r.info[x].addr] = x
    BY <2>1 DEF Indexed
  <2>4. QED
    BY <2>2, <2>3 DEF Indexed
<1>4. CountsAgree(r) /\ Bounded(r)
  BY <1>1 DEF Base, CountsAgree, Bounded
<1>5. Placed(r)
  <2>1. \A x \in TriedOf(t) : r.info[x].addr = t.info[x].addr
    BY DEF TriedOf
  <2>2. QED
    BY <1>1, <2>1 DEF Base, Placed
<1>6. QED
  BY <1>1, <1>2, <1>3, <1>4, <1>5 DEF Base

(* nRefCount of one entry, and the buckets of the new table *)
LEMMA CountStays ==
    ASSUME NEW t, Base(t), NEW id \in DOMAIN t.info, NEW n \in Nat,
           NEW w \in [NewBucket -> SUBSET DOMAIN t.info], \A u \in NewBucket : Cardinality(w[u]) <= ADDRMAN_NEW_BUCKET_SIZE,
           NEW r, r = TablesOf(Counting(t.info, id, n), t.addr, t.random, t.tried, t.new, t.vvTried, w, t.ids)
    PROVE  /\ Base(r) /\ DOMAIN r.info = DOMAIN t.info /\ r.vvNew = w /\ r.vvTried = t.vvTried /\ r.addr = t.addr
           /\ r.random = t.random /\ r.ids = t.ids /\ r.tried = t.tried /\ r.new = t.new
           /\ r.info[id].nRefCount = n /\ r.info[id].fInTried = t.info[id].fInTried
           /\ r.info[id].addr = t.info[id].addr /\ r.info[id].source = t.info[id].source
           /\ \A x \in DOMAIN t.info \ {id} : r.info[x] = t.info[x]
           /\ TriedOf(r) = TriedOf(t) /\ NewOf(r) = NewOf(t)
<1> DEFINE i == Counting(t.info, id, n)
<1>1. t.info \in [DOMAIN t.info -> Entry] /\ IsTables(t)
  BY DEF Base, Typed
<1>2. /\ i \in [DOMAIN t.info -> Entry] /\ \A x \in DOMAIN t.info \ {id} : i[x] = t.info[x]
      /\ i[id].nRefCount = n /\ i[id].addr = t.info[id].addr /\ i[id].source = t.info[id].source
      /\ i[id].fInTried = t.info[id].fInTried /\ i[id].nRandomPos = t.info[id].nRandomPos
  BY <1>1, CountingIs
<1> HIDE DEF i
<1>3. /\ IsTables(r) /\ r.info = i /\ r.addr = t.addr /\ r.random = t.random
      /\ r.tried = t.tried /\ r.new = t.new /\ r.vvTried = t.vvTried /\ r.vvNew = w /\ r.ids = t.ids
  BY TablesFields DEF i
<1>4. DOMAIN r.info = DOMAIN t.info /\ r.info \in [DOMAIN t.info -> Entry]
  BY <1>2, <1>3
<1>5. \A x \in DOMAIN t.info : /\ r.info[x] \in Entry /\ r.info[x].addr = t.info[x].addr
                               /\ r.info[x].fInTried = t.info[x].fInTried /\ r.info[x].nRandomPos = t.info[x].nRandomPos
  BY <1>2, <1>3
<1>6. Base(r) /\ TriedOf(r) = TriedOf(t) /\ NewOf(r) = NewOf(t)
  <2>1. /\ r.random \in Seq(DOMAIN t.info)
        /\ r.vvNew \in [NewBucket -> SUBSET DOMAIN t.info]
        /\ \A u \in NewBucket : Cardinality(r.vvNew[u]) <= ADDRMAN_NEW_BUCKET_SIZE
    BY <1>3 DEF Base, Typed
  <2>2. \A x \in DOMAIN t.info : r.info[x].nRandomPos \in 1 .. Len(r.random) /\ r.random[r.info[x].nRandomPos] = x
    BY <1>3, <1>5 DEF Base, Indexed
  <2>3. \A p \in 1 .. Len(r.random) : r.random[p] \in DOMAIN t.info
    BY <2>1
  <2>4. \A p \in 1 .. Len(r.random) : r.info[r.random[p]].nRandomPos = p
    BY <1>3, <1>5, <2>3 DEF Base, Indexed
  <2>5. Staying(r, t)
    BY <1>3, <1>4, <1>5, <2>1, <2>2, <2>4 DEF Staying
  <2>6. QED
    BY <2>5, BaseStays
<1>7. QED
  BY <1>2, <1>3, <1>4, <1>6

(* Tables that differ in the order of vRandom only. *)
Alike(r, t) ==
    /\ DOMAIN r.info = DOMAIN t.info
    /\ \A x \in DOMAIN t.info : /\ r.info[x].addr = t.info[x].addr /\ r.info[x].source = t.info[x].source
                                /\ r.info[x].nRefCount = t.info[x].nRefCount /\ r.info[x].fInTried = t.info[x].fInTried
    /\ r.addr = t.addr /\ r.tried = t.tried /\ r.new = t.new /\ r.vvTried = t.vvTried /\ r.vvNew = t.vvNew
    /\ r.ids = t.ids /\ Len(r.random) = Len(t.random)

(* SwapRandom keeps the indexes. *)
LEMMA SwapRandomKeeps ==
    ASSUME NEW t, Base(t), NEW p \in 1 .. Len(t.random), NEW q \in 1 .. Len(t.random), NEW r, r = SwapRandom(t, p, q)
    PROVE  Base(r) /\ Alike(r, t) /\ r.random[q] = t.random[p]
<1> DEFINE D == DOMAIN t.info
           x == t.random[p]
           y == t.random[q]
           j == Moving(t.info, x, q)
           k == Moving(j, y, p)
           s == SwapTried(t.random, p, q)
<1>1. /\ IsTables(t) /\ t.info \in [D -> Entry] /\ t.random \in Seq(D) /\ x \in D /\ y \in D
      /\ Len(t.random) \in Nat /\ p \in Nat /\ q \in Nat
  BY DEF Base, Typed
<1>2. /\ \A z \in D : t.info[z].nRandomPos \in 1 .. Len(t.random) /\ t.random[t.info[z].nRandomPos] = z
      /\ \A n \in 1 .. Len(t.random) : t.info[t.random[n]].nRandomPos = n
  BY DEF Base, Indexed
<1>3. /\ r.info = k /\ r.random = s /\ r.addr = t.addr /\ r.tried = t.tried /\ r.new = t.new
      /\ r.vvTried = t.vvTried /\ r.vvNew = t.vvNew /\ r.ids = t.ids /\ IsTables(r)
  BY <1>1, SwapRandomFields, TablesFields
<1>4. /\ j \in [D -> Entry] /\ \A z \in D \ {x} : j[z] = t.info[z]
      /\ j[x].nRandomPos = q /\ j[x].addr = t.info[x].addr /\ j[x].source = t.info[x].source
      /\ j[x].nRefCount = t.info[x].nRefCount /\ j[x].fInTried = t.info[x].fInTried
  BY <1>1, MovingIs
<1> HIDE DEF j
<1>5. /\ k \in [D -> Entry] /\ \A z \in D \ {y} : k[z] = j[z]
      /\ k[y].nRandomPos = p /\ k[y].addr = j[y].addr /\ k[y].source = j[y].source
      /\ k[y].nRefCount = j[y].nRefCount /\ k[y].fInTried = j[y].fInTried
  <2>1. j \in [D -> Entry] /\ y \in D /\ p \in Nat
    BY <1>1, <1>4
  <2> HIDE DEF y, D
  <2>2. QED
    BY <2>1, MovingIs
<1> HIDE DEF k
<1>6. s \in Seq(D) /\ Len(s) = Len(t.random) /\ s[q] = x /\ s[p] = y
      /\ \A n \in 1 .. Len(t.random) : n # p /\ n # q => s[n] = t.random[n]
  <2> DEFINE v == t.random
  <2>1. v \in Seq(D) /\ x = v[p] /\ y = v[q] /\ s = [v EXCEPT ![p] = v[q], ![q] = v[p]]
    BY <1>1 DEF SwapTried
  <2>2. Len(v) \in Nat /\ p \in 1 .. Len(v) /\ q \in 1 .. Len(v) /\ x \in D /\ y \in D /\ v \in [1 .. Len(v) -> D]
    BY <1>1
  <2> HIDE DEF v, x, y, s, D
  <2>3. s \in [1 .. Len(v) -> D] /\ s[q] = x /\ s[p] = y /\ \A n \in 1 .. Len(v) : n # p /\ n # q => s[n] = v[n]
    BY <2>1, <2>2
  <2>4. s \in Seq(D) /\ Len(s) = Len(v)
    BY <2>2, <2>3
  <2>5. QED
    BY <2>3, <2>4 DEF v
<1>7. x = y => p = q
  BY <1>2
<1> HIDE DEF x, y, s
<1>8. \A z \in D : /\ k[z].addr = t.info[z].addr /\ k[z].source = t.info[z].source
                   /\ k[z].nRefCount = t.info[z].nRefCount /\ k[z].fInTried = t.info[z].fInTried
                   /\ z # x /\ z # y => k[z].nRandomPos = t.info[z].nRandomPos
  BY <1>1, <1>4, <1>5
<1>9. k[x].nRandomPos = q /\ k[y].nRandomPos = p
  BY <1>1, <1>4, <1>5, <1>7
<1>10. \A z \in D : k[z].nRandomPos \in 1 .. Len(s) /\ s[k[z].nRandomPos] = z
  <2> SUFFICES ASSUME NEW z \in D PROVE k[z].nRandomPos \in 1 .. Len(s) /\ s[k[z].nRandomPos] = z
    OBVIOUS
  <2>1. CASE z = x \/ z = y
    BY <2>1, <1>6, <1>9
  <2>2. CASE z # x /\ z # y
    <3>1. t.info[z].nRandomPos \in 1 .. Len(t.random) /\ t.random[t.info[z].nRandomPos] = z
      BY <1>2
    <3>2. t.info[z].nRandomPos # p /\ t.info[z].nRandomPos # q
      BY <2>2, <3>1 DEF x, y
    <3>3. QED
      BY <2>2, <3>1, <3>2, <1>6, <1>8
  <2>3. QED
    BY <2>1, <2>2
<1>11. \A n \in 1 .. Len(s) : k[s[n]].nRandomPos = n
  <2> SUFFICES ASSUME NEW n \in 1 .. Len(s) PROVE k[s[n]].nRandomPos = n
    OBVIOUS
  <2>1. CASE n = p \/ n = q
    BY <2>1, <1>6, <1>9
  <2>2. CASE n # p /\ n # q
    <3>1. s[n] = t.random[n] /\ t.info[t.random[n]].nRandomPos = n /\ t.random[n] \in D
      BY <2>2, <1>1, <1>2, <1>6
    <3>2. t.random[n] # x /\ t.random[n] # y
      BY <2>2, <3>1, <1>2 DEF x, y
    <3>3. QED
      BY <3>1, <3>2, <1>8
  <2>3. QED
    BY <2>1, <2>2
<1>12. Alike(r, t) /\ r.random[q] = t.random[p]
  <2>1. DOMAIN r.info = D
    BY <1>3, <1>5
  <2>2. QED
    BY <2>1, <1>3, <1>6, <1>8 DEF Alike, x
<1>13. Base(r)
  <2>1. DOMAIN r.info = DOMAIN t.info /\ r.info \in [DOMAIN t.info -> Entry]
    BY <1>3, <1>5
  <2>2. t.vvNew \in [NewBucket -> SUBSET DOMAIN t.info] /\ \A u \in NewBucket : Cardinality(t.vvNew[u]) <= ADDRMAN_NEW_BUCKET_SIZE
    BY DEF Base, Typed, Bounded
  <2>3. \A z \in DOMAIN t.info : r.info[z].addr = t.info[z].addr /\ r.info[z].fInTried = t.info[z].fInTried
    BY <1>3, <1>8
  <2>4. /\ r.random \in Seq(DOMAIN t.info)
        /\ \A z \in DOMAIN t.info : r.info[z].nRandomPos \in 1 .. Len(r.random) /\ r.random[r.info[z].nRandomPos] = z
        /\ \A n \in 1 .. Len(r.random) : r.info[r.random[n]].nRandomPos = n
    BY <1>3, <1>6, <1>10, <1>11
  <2>5. r.addr = t.addr /\ r.tried = t.tried /\ r.new = t.new /\ r.vvTried = t.vvTried /\ r.vvNew = t.vvNew /\ r.ids = t.ids /\ IsTables(r)
    BY <1>3
  <2> HIDE DEF D
  <2>6. Staying(r, t)
    BY <2>1, <2>2, <2>3, <2>4, <2>5 DEF Staying
  <2>7. QED
    BY <2>6, BaseStays
<1>14. QED
  BY <1>12, <1>13

(* What is alike is as sound. *)
LEMMA AlikeIsSound ==
    ASSUME NEW t, NEW r, Alike(r, t), NEW id \in DOMAIN t.info
    PROVE  BucketsOf(r, id) = BucketsOf(t, id) /\ (RefersRight(t, id) => RefersRight(r, id))
<1>1. BucketsOf(r, id) = BucketsOf(t, id)
  BY DEF BucketsOf, Alike
<1>2. QED
  BY <1>1 DEF RefersRight, Alike

(* the addresses of the entries tell them apart *)
LEMMA AddressesDiffer ==
    ASSUME NEW t, Base(t), NEW x \in DOMAIN t.info, NEW y \in DOMAIN t.info, t.info[x].addr = t.info[y].addr
    PROVE  x = y
BY DEF Base, Indexed

(* Delete removes an entry that is in no bucket. *)
LEMMA DeleteKeeps ==
    ASSUME NEW t, Base(t), NEW id \in DOMAIN t.info, ~t.info[id].fInTried, BucketsOf(t, id) = {}, NEW r, r = Delete(t, id)
    PROVE  /\ Base(r) /\ DOMAIN r.info = DOMAIN t.info \ {id} /\ r.vvNew = t.vvNew /\ r.vvTried = t.vvTried
           /\ \A x \in DOMAIN r.info : /\ r.info[x].addr = t.info[x].addr /\ r.info[x].source = t.info[x].source
                                       /\ r.info[x].nRefCount = t.info[x].nRefCount /\ r.info[x].fInTried = t.info[x].fInTried
           /\ r.ids = t.ids /\ TriedOf(r) = TriedOf(t)
<1> DEFINE a == t.info[id].addr
           p == t.info[id].nRandomPos
           n == Len(t.random)
           s == SwapRandom(t, p, n)
<1>1. p \in 1 .. n /\ n \in Nat /\ n \in 1 .. n /\ t.random[p] = id
  <2>1. p \in 1 .. n /\ t.random[p] = id /\ t.random \in Seq(DOMAIN t.info)
    BY DEF Base, Indexed, Typed
  <2>2. QED
    BY <2>1
<1>2. Base(s) /\ Alike(s, t) /\ s.random[n] = id
  BY <1>1, SwapRandomKeeps
<1>3. r = Dropping(s, id, a)
  BY DEF Delete, Dropping
<1> HIDE DEF s, p
<1>4. IsTables(s) /\ s.info \in [DOMAIN t.info -> Entry] /\ DOMAIN s.info = DOMAIN t.info /\ Len(s.random) = n /\ s.random \in Seq(DOMAIN t.info)
  BY <1>2 DEF Base, Typed, Alike
<1>5. /\ r.info = Without(s.info, id) /\ r.addr = Without(t.addr, a) /\ r.random = Front(s.random)
      /\ r.tried = t.tried /\ r.new = t.new - 1 /\ r.vvTried = t.vvTried /\ r.vvNew = t.vvNew /\ r.ids = t.ids
      /\ IsTables(r)
  <2>1. r = TablesOf(Without(s.info, id), Without(s.addr, a), Front(s.random), s.tried, s.new - 1, s.vvTried, s.vvNew, s.ids)
    BY <1>3, <1>4, DroppingFields
  <2>2. QED
    BY <2>1, <1>2, TablesFields DEF Alike
<1>6. /\ DOMAIN r.info = DOMAIN t.info \ {id} /\ r.info \in [DOMAIN t.info \ {id} -> Entry]
      /\ \A x \in DOMAIN t.info \ {id} : r.info[x] = s.info[x]
  BY <1>4, <1>5 DEF Without
<1>7. \A x \in DOMAIN r.info : /\ r.info[x].addr = t.info[x].addr /\ r.info[x].source = t.info[x].source
                               /\ r.info[x].nRefCount = t.info[x].nRefCount /\ r.info[x].fInTried = t.info[x].fInTried
  BY <1>2, <1>6 DEF Alike
<1>8. /\ \A x \in DOMAIN t.info : s.info[x].nRandomPos \in 1 .. n /\ s.random[s.info[x].nRandomPos] = x
      /\ \A m \in 1 .. n : s.info[s.random[m]].nRandomPos = m
  BY <1>2, <1>4 DEF Base, Indexed
<1>9. r.random \in Seq(DOMAIN r.info) /\ Len(r.random) = n - 1 /\ \A m \in 1 .. n - 1 : r.random[m] = s.random[m] /\ s.random[m] \in DOMAIN r.info
  <2>1. Len(r.random) = n - 1 /\ r.random = [m \in 1 .. n - 1 |-> s.random[m]]
    BY <1>1, <1>4, <1>5 DEF Front
  <2>2. \A m \in 1 .. n - 1 : s.random[m] \in DOMAIN t.info /\ s.random[m] # id
    BY <1>1, <1>2, <1>4, <1>8
  <2>3. QED
    BY <1>1, <1>6, <2>1, <2>2
<1>10. TriedOf(r) = TriedOf(t) /\ NewOf(r) = NewOf(t) \ {id} /\ id \in NewOf(t)
  BY <1>6, <1>7 DEF TriedOf, NewOf
<1>11. CountsAgree(r)
  <2>1. Cardinality(NewOf(t) \ {id}) = Cardinality(NewOf(t)) - 1 /\ Cardinality(NewOf(t)) \in Nat
    BY <1>10, TablesAreFinite, FS_RemoveElement, FS_CardinalityType DEF Base
  <2>2. QED
    BY <2>1, <1>5, <1>10 DEF Base, CountsAgree
<1>12. Typed(r)
  <2>1. r.vvNew \in [NewBucket -> SUBSET DOMAIN r.info]
    BY <1>5, <1>6 DEF Base, Typed, BucketsOf
  <2>2. r.vvTried \in [TriedBucket -> Seq(DOMAIN r.info)]
    <3>1. ASSUME NEW k \in TriedBucket PROVE t.vvTried[k] \in Seq(DOMAIN r.info)
      <4>1. t.vvTried[k] \in Seq(DOMAIN t.info)
        BY DEF Base, Typed
      <4>2. ToSet(t.vvTried[k]) \subseteq TriedOf(t)
        BY DEF Base, Placed
      <4>3. \A m \in 1 .. Len(t.vvTried[k]) : t.vvTried[k][m] \in DOMAIN r.info
        BY <4>1, <4>2, <1>6, <1>10 DEF ToSet, TriedOf
      <4>4. QED
        BY <4>1, <4>3
    <3>2. t.vvTried \in [TriedBucket -> Seq(DOMAIN t.info)]
      BY DEF Base, Typed
    <3>3. QED
      BY <3>1, <3>2, <1>5
  <2>3. r.new \in Nat
    <3>1. IsFiniteSet(NewOf(r)) /\ r.new = Cardinality(NewOf(r))
      <4>1. IsFiniteSet(NewOf(t))
        BY TablesAreFinite DEF Base
      <4>2. QED
        BY <4>1, <1>10, <1>11, FS_RemoveElement DEF CountsAgree
    <3>2. QED
      BY <3>1, FS_CardinalityType
  <2>4. r.info \in [DOMAIN r.info -> Entry] /\ \A x \in DOMAIN r.info : x \in Nat /\ x < r.ids
    BY <1>5, <1>6 DEF Base, Typed
  <2>5. DOMAIN r.addr \subseteq NetAddr /\ r.addr = [b \in DOMAIN r.addr |-> r.addr[b]]
    BY <1>5 DEF Base, Typed, Without
  <2>6. r.ids \in Nat /\ r.tried \in Nat
    BY <1>5 DEF Base, Typed
  <2>7. QED
    BY <2>1, <2>2, <2>3, <2>4, <2>5, <2>6, <1>5, <1>9 DEF Typed
<1>13. Indexed(r)
  <2>1. DOMAIN r.addr = DOMAIN t.addr \ {a} /\ \A b \in DOMAIN t.addr \ {a} : r.addr[b] = t.addr[b]
    BY <1>5 DEF Without
  <2>2. \A b \in DOMAIN r.addr : r.addr[b] \in DOMAIN r.info /\ r.info[r.addr[b]].addr = b
    BY <2>1, <1>6, <1>7 DEF Base, Indexed
  <2>3. \A x \in DOMAIN r.info : r.info[x].addr \in DOMAIN r.addr /\ r.addr[r.info[x].addr] = x
    BY <2>1, <1>6, <1>7 DEF Base, Indexed
  <2>4. \A x \in DOMAIN r.info : r.info[x].nRandomPos \in 1 .. Len(r.random) /\ r.random[r.info[x].nRandomPos] = x
    <3> SUFFICES ASSUME NEW x \in DOMAIN t.info, x # id
                 PROVE  r.info[x].nRandomPos \in 1 .. Len(r.random) /\ r.random[r.info[x].nRandomPos] = x
      BY <1>6
    <3>1. s.info[x].nRandomPos \in 1 .. n /\ s.random[s.info[x].nRandomPos] = x /\ s.info[x].nRandomPos # n
      BY <1>2, <1>8
    <3>2. s.info[x].nRandomPos \in 1 .. n - 1 /\ r.info[x] = s.info[x]
      BY <3>1, <1>1, <1>6
    <3>3. Len(r.random) = n - 1 /\ r.random[s.info[x].nRandomPos] = x
      BY <3>1, <3>2, <1>9
    <3>4. QED
      BY <3>2, <3>3
  <2>5. \A m \in 1 .. Len(r.random) : r.info[r.random[m]].nRandomPos = m
    <3>1. ASSUME NEW m \in 1 .. n - 1 PROVE r.info[r.random[m]].nRandomPos = m
      <4>1. r.random[m] = s.random[m] /\ s.random[m] \in DOMAIN r.info
        BY <1>9
      <4>2. m \in 1 .. n
        BY <1>1
      <4>3. s.info[s.random[m]].nRandomPos = m
        BY <4>2, <1>8
      <4>4. r.info[r.random[m]] = s.info[s.random[m]]
        BY <4>1, <1>6
      <4>5. QED
        BY <4>3, <4>4
    <3>2. QED
      BY <3>1, <1>9
  <2>6. QED
    BY <2>2, <2>3, <2>4, <2>5 DEF Indexed
<1>14. Placed(r)
  <2>1. \A x \in TriedOf(t) : r.info[x].addr = t.info[x].addr
    BY <1>7, <1>10 DEF TriedOf
  <2>2. \A k \in TriedBucket : {x \in TriedOf(r) : GetTriedBucket[r.info[x].addr] = k} = {x \in TriedOf(t) : GetTriedBucket[t.info[x].addr] = k}
    BY <2>1, <1>10
  <2>3. QED
    BY <2>2, <1>5 DEF Base, Placed
<1>15. Bounded(r)
  BY <1>5 DEF Base, Bounded
<1>16. QED
  BY <1>5, <1>6, <1>7, <1>10, <1>11, <1>12, <1>13, <1>14, <1>15 DEF Base

(* The entries that are left in r have kept their addresses and tables, and    *)
(* all tried entries are left.                                                 *)
Remains(r, t) ==
    /\ \A x \in DOMAIN r.info : /\ x \in DOMAIN t.info /\ r.info[x].addr = t.info[x].addr
                                /\ r.info[x].source = t.info[x].source /\ r.info[x].fInTried = t.info[x].fInTried
    /\ TriedOf(r) = TriedOf(t)
    /\ r.ids = t.ids

(* Tables that remain of some that remain of others remain of these. *)
LEMMA RemainsIsTransitive ==
    ASSUME NEW r, NEW s, NEW t, Remains(r, s), Remains(s, t)
    PROVE  Remains(r, t)
BY DEF Remains

(* Leaving and Joining a bucket *)
LEMMA LeavingIs ==
    ASSUME NEW w, DOMAIN w = NewBucket, NEW u \in NewBucket, NEW id
    PROVE  /\ Leaving(w, u, id)[u] = w[u] \ {id}
           /\ \A v \in NewBucket \ {u} : Leaving(w, u, id)[v] = w[v]
BY DEF Leaving

(* A bucket that an entry leaves still holds ids. *)
LEMMA LeavingIsTyped ==
    ASSUME NEW D, NEW w \in [NewBucket -> SUBSET D], NEW u \in NewBucket, NEW id
    PROVE  Leaving(w, u, id) \in [NewBucket -> SUBSET D]
BY DEF Leaving

(* An entry joins one bucket only. *)
LEMMA JoiningIs ==
    ASSUME NEW w, DOMAIN w = NewBucket, NEW u \in NewBucket, NEW id
    PROVE  /\ Joining(w, u, id)[u] = w[u] \cup {id}
           /\ \A v \in NewBucket \ {u} : Joining(w, u, id)[v] = w[v]
BY DEF Joining

(* The buckets hold ids, also with one more. *)
LEMMA JoiningIsTyped ==
    ASSUME NEW D, NEW w \in [NewBucket -> SUBSET D], NEW u \in NewBucket, NEW id \in D
    PROVE  Joining(w, u, id) \in [NewBucket -> SUBSET D]
BY DEF Joining

(* ShrinkNew makes room in the bucket and keeps the entry that it is for. *)
LEMMA ShrinkNewKeeps ==
    ASSUME NEW t, NEW id, NEW u, Near(t, id, u), NEW victim \in t.vvNew[u], NEW r, r = ShrinkNew(t, u, victim)
    PROVE  Near(r, id, u) /\ Cardinality(r.vvNew[u]) < ADDRMAN_NEW_BUCKET_SIZE /\ Remains(r, t)
<1> DEFINE n == t.info[victim].nRefCount
           w == Leaving(t.vvNew, u, victim)
           s == Lessening(t, u, victim)
<1>1. /\ Base(t) /\ IsTables(t) /\ u \in NewBucket /\ t.vvNew \in [NewBucket -> SUBSET DOMAIN t.info]
      /\ id \in DOMAIN t.info /\ id \notin t.vvNew[u] /\ victim \in DOMAIN t.info /\ victim # id
      /\ RefersRight(t, victim)
  BY DEF Near, Base, Typed
<1>2. /\ w \in [NewBucket -> SUBSET DOMAIN t.info] /\ w[u] = t.vvNew[u] \ {victim}
      /\ \A v \in NewBucket \ {u} : w[v] = t.vvNew[v]
  <2>1. DOMAIN t.vvNew = NewBucket
    BY <1>1
  <2>2. QED
    BY <1>1, <2>1, LeavingIs, LeavingIsTyped
<1>3. \A v \in NewBucket : IsFiniteSet(t.vvNew[v]) /\ Cardinality(t.vvNew[v]) \in Nat /\ Cardinality(t.vvNew[v]) <= ADDRMAN_NEW_BUCKET_SIZE
  BY <1>1, TablesAreFinite DEF Base, Bounded
<1>4. Cardinality(w[u]) = Cardinality(t.vvNew[u]) - 1
  <2> DEFINE S == t.vvNew[u]
  <2>1. IsFiniteSet(S) /\ victim \in S /\ w[u] = S \ {victim}
    BY <1>1, <1>2, <1>3
  <2> HIDE DEF S, w
  <2>2. Cardinality(S \ {victim}) = Cardinality(S) - 1
    BY <2>1, FS_RemoveElement
  <2>3. QED
    BY <2>1, <2>2 DEF S
<1>5. Cardinality(w[u]) < ADDRMAN_NEW_BUCKET_SIZE /\ \A v \in NewBucket : Cardinality(w[v]) <= ADDRMAN_NEW_BUCKET_SIZE
  <2>1. \A v \in NewBucket \ {u} : Cardinality(w[v]) <= ADDRMAN_NEW_BUCKET_SIZE
    BY <1>2, <1>3
  <2>2. Cardinality(w[u]) < ADDRMAN_NEW_BUCKET_SIZE
    BY <1>1, <1>3, <1>4, AddrManLimitsAssumption
  <2>3. Cardinality(w[u]) <= ADDRMAN_NEW_BUCKET_SIZE
    BY <1>1, <1>3, <1>4, AddrManLimitsAssumption
  <2>4. QED
    BY <2>1, <2>2, <2>3
<1>6. BucketsOf(t, victim) = {v \in NewBucket : v # u /\ victim \in w[v]} \cup {u} /\ {v \in NewBucket : victim \in w[v]} = BucketsOf(t, victim) \ {u}
  BY <1>1, <1>2 DEF BucketsOf
<1>7. /\ n \in Nat /\ n = Cardinality(BucketsOf(t, victim)) /\ n <= ADDRMAN_NEW_BUCKETS_PER_ADDRESS
      /\ n - 1 = Cardinality(BucketsOf(t, victim) \ {u}) /\ n - 1 \in Nat
  <2>1. IsFiniteSet(BucketsOf(t, victim)) /\ u \in BucketsOf(t, victim) /\ n = Cardinality(BucketsOf(t, victim))
    BY <1>1, <1>6, TablesAreFinite DEF Base, RefersRight
  <2>2. Cardinality(BucketsOf(t, victim) \ {u}) = n - 1 /\ IsFiniteSet(BucketsOf(t, victim) \ {u})
    BY <2>1, FS_RemoveElement
  <2>3. n \in Nat /\ n - 1 \in Nat
    BY <2>1, <2>2, FS_CardinalityType
  <2>4. QED
    BY <2>1, <2>2, <2>3, <1>1 DEF RefersRight
<1>8. s = TablesOf(Counting(t.info, victim, n - 1), t.addr, t.random, t.tried, t.new, t.vvTried, w, t.ids)
  BY <1>1, LesseningFields
<1> HIDE DEF s, w
<1>9. /\ Base(s) /\ DOMAIN s.info = DOMAIN t.info /\ s.vvNew = w /\ s.ids = t.ids
      /\ s.info[victim].nRefCount = n - 1 /\ s.info[victim].fInTried = t.info[victim].fInTried
      /\ s.info[victim].addr = t.info[victim].addr /\ s.info[victim].source = t.info[victim].source
      /\ \A x \in DOMAIN t.info \ {victim} : s.info[x] = t.info[x]
      /\ TriedOf(s) = TriedOf(t)
  <2> DEFINE m == n - 1
  <2>1. /\ Base(t) /\ victim \in DOMAIN t.info /\ m \in Nat /\ w \in [NewBucket -> SUBSET DOMAIN t.info]
        /\ \A v \in NewBucket : Cardinality(w[v]) <= ADDRMAN_NEW_BUCKET_SIZE
        /\ s = TablesOf(Counting(t.info, victim, m), t.addr, t.random, t.tried, t.new, t.vvTried, w, t.ids)
    BY <1>1, <1>2, <1>5, <1>7, <1>8
  <2> HIDE DEF m, n
  <2>2. /\ Base(s) /\ DOMAIN s.info = DOMAIN t.info /\ s.vvNew = w /\ s.ids = t.ids
        /\ s.info[victim].nRefCount = m /\ s.info[victim].fInTried = t.info[victim].fInTried
        /\ s.info[victim].addr = t.info[victim].addr /\ s.info[victim].source = t.info[victim].source
        /\ \A x \in DOMAIN t.info \ {victim} : s.info[x] = t.info[x]
        /\ TriedOf(s) = TriedOf(t)
    BY <2>1, CountStays
  <2>3. QED
    BY <2>2 DEF m
<1>10. BucketsOf(s, victim) = BucketsOf(t, victim) \ {u} /\ \A x \in DOMAIN t.info \ {victim} : BucketsOf(s, x) = BucketsOf(t, x)
  BY <1>1, <1>2, <1>6, <1>9 DEF BucketsOf
<1>11. ~t.info[victim].fInTried
  BY <1>1, <1>6 DEF RefersRight
<1>12. Remains(s, t)
  BY <1>9 DEF Remains
<1>13. \A x \in DOMAIN t.info \ {id, victim} : RefersRight(s, x)
  BY <1>9, <1>10 DEF Near, RefersRight
<1>14. /\ s.info[id] = t.info[id] /\ BucketsOf(s, id) = BucketsOf(t, id) /\ id \notin s.vvNew[u]
       /\ ~t.info[id].fInTried /\ t.info[id].nRefCount = Cardinality(BucketsOf(t, id)) + 1
       /\ t.info[id].nRefCount <= ADDRMAN_NEW_BUCKETS_PER_ADDRESS
  BY <1>1, <1>2, <1>9, <1>10 DEF Near
<1>15. r = IF n - 1 = 0 THEN Delete(s, victim) ELSE s
  <2>1. r = IF s.info[victim].nRefCount = 0 THEN Delete(s, victim) ELSE s
    BY DEF ShrinkNew, s, Lessening
  <2>2. QED
    BY <2>1, <1>9
<1>16. CASE n - 1 = 0
  <2>1. r = Delete(s, victim) /\ BucketsOf(s, victim) = {}
    <3>1. Cardinality(BucketsOf(t, victim) \ {u}) = 0 /\ IsFiniteSet(BucketsOf(t, victim) \ {u})
      BY <1>1, <1>7, <1>16, TablesAreFinite, FS_RemoveElement DEF Base
    <3>2. QED
      BY <3>1, <1>10, <1>15, <1>16, FS_EmptySet
  <2>2. /\ Base(r) /\ DOMAIN r.info = DOMAIN s.info \ {victim} /\ r.vvNew = s.vvNew
        /\ \A x \in DOMAIN r.info : /\ r.info[x].addr = s.info[x].addr /\ r.info[x].source = s.info[x].source
                                    /\ r.info[x].nRefCount = s.info[x].nRefCount /\ r.info[x].fInTried = s.info[x].fInTried
        /\ r.ids = s.ids /\ TriedOf(r) = TriedOf(s)
    BY <2>1, <1>1, <1>9, <1>11, DeleteKeeps
  <2>3. \A x : BucketsOf(r, x) = BucketsOf(s, x)
    BY <2>2 DEF BucketsOf
  <2>4. \A x \in DOMAIN r.info \ {id} : RefersRight(r, x)
    BY <2>2, <2>3, <1>9, <1>13 DEF RefersRight
  <2>5. Remains(r, s)
    BY <2>2 DEF Remains
  <2>6. id \in DOMAIN r.info /\ r.info[id].nRefCount = t.info[id].nRefCount /\ r.info[id].fInTried = t.info[id].fInTried
    BY <2>2, <1>1, <1>9
  <2>7. Near(r, id, u)
    BY <2>2, <2>3, <2>4, <2>6, <1>1, <1>14 DEF Near
  <2>8. QED
    BY <2>2, <2>5, <2>7, <1>5, <1>9, <1>12, RemainsIsTransitive
<1>17. CASE n - 1 # 0
  <2>1. r = s
    BY <1>15, <1>17
  <2>2. RefersRight(s, victim)
    <3>1. BucketsOf(s, victim) # {}
      BY <1>7, <1>10, <1>17, FS_EmptySet
    <3>2. n - 1 <= ADDRMAN_NEW_BUCKETS_PER_ADDRESS
      BY <1>7, AddrManLimitsAssumption
    <3>3. QED
      BY <3>1, <3>2, <1>7, <1>9, <1>10, <1>11 DEF RefersRight
  <2>3. Near(s, id, u)
    BY <2>2, <1>1, <1>9, <1>13, <1>14 DEF Near
  <2>4. QED
    BY <2>1, <2>3, <1>5, <1>9, <1>12
<1>18. QED
  BY <1>16, <1>17

(* An entry that was counted is put into a bucket that has room. *)
LEMMA PuttingIsSound ==
    ASSUME NEW t, NEW id, NEW u, Near(t, id, u), Cardinality(t.vvNew[u]) < ADDRMAN_NEW_BUCKET_SIZE, NEW r, r = Putting(t, u, id)
    PROVE  Sound(r) /\ Remains(r, t)
<1> DEFINE w == Joining(t.vvNew, u, id)
<1>1. /\ Base(t) /\ IsTables(t) /\ u \in NewBucket /\ t.vvNew \in [NewBucket -> SUBSET DOMAIN t.info]
      /\ id \in DOMAIN t.info /\ id \notin t.vvNew[u]
  BY DEF Near, Base, Typed
<1>2. /\ w \in [NewBucket -> SUBSET DOMAIN t.info] /\ w[u] = t.vvNew[u] \cup {id}
      /\ \A v \in NewBucket \ {u} : w[v] = t.vvNew[v]
  <2>1. DOMAIN t.vvNew = NewBucket
    BY <1>1
  <2>2. QED
    BY <1>1, <2>1, JoiningIs, JoiningIsTyped
<1>3. \A v \in NewBucket : IsFiniteSet(t.vvNew[v]) /\ Cardinality(t.vvNew[v]) \in Nat /\ Cardinality(t.vvNew[v]) <= ADDRMAN_NEW_BUCKET_SIZE
  BY <1>1, TablesAreFinite DEF Base, Bounded
<1>4. Cardinality(w[u]) = Cardinality(t.vvNew[u]) + 1
  BY <1>1, <1>2, <1>3, FS_AddElement
<1>5. \A v \in NewBucket : Cardinality(w[v]) <= ADDRMAN_NEW_BUCKET_SIZE
  <2>1. \A v \in NewBucket \ {u} : Cardinality(w[v]) <= ADDRMAN_NEW_BUCKET_SIZE
    BY <1>2, <1>3
  <2>2. Cardinality(w[u]) <= ADDRMAN_NEW_BUCKET_SIZE
    BY <1>1, <1>3, <1>4, AddrManLimitsAssumption
  <2>3. QED
    BY <2>1, <2>2
<1>6. r = TablesOf(t.info, t.addr, t.random, t.tried, t.new, t.vvTried, w, t.ids)
  BY <1>1, PuttingFields
<1> HIDE DEF w
<1>7. /\ r.info = t.info /\ r.addr = t.addr /\ r.random = t.random /\ r.tried = t.tried /\ r.new = t.new
      /\ r.vvTried = t.vvTried /\ r.vvNew = w /\ r.ids = t.ids /\ IsTables(r)
  BY <1>6, TablesFields
<1>8. Base(r) /\ TriedOf(r) = TriedOf(t)
  <2>1. t.info \in [DOMAIN t.info -> Entry] /\ t.random \in Seq(DOMAIN t.info)
    BY <1>1 DEF Base, Typed
  <2>2. \A x \in DOMAIN t.info : t.info[x].nRandomPos \in 1 .. Len(t.random) /\ t.random[t.info[x].nRandomPos] = x
    BY <1>1 DEF Base, Indexed
  <2>3. \A p \in 1 .. Len(t.random) : t.info[t.random[p]].nRandomPos = p
    BY <1>1 DEF Base, Indexed
  <2>4. Staying(r, t)
    BY <2>1, <2>2, <2>3, <1>1, <1>2, <1>5, <1>7 DEF Staying
  <2>5. QED
    BY <2>4, <1>1, BaseStays
<1>9. BucketsOf(r, id) = BucketsOf(t, id) \cup {u} /\ u \notin BucketsOf(t, id) /\ \A x \in DOMAIN t.info \ {id} : BucketsOf(r, x) = BucketsOf(t, x)
  BY <1>1, <1>2, <1>7 DEF BucketsOf
<1>10. \A x \in DOMAIN t.info \ {id} : RefersRight(r, x)
  BY <1>7, <1>9 DEF Near, RefersRight
<1>11. RefersRight(r, id)
  <2>1. Cardinality(BucketsOf(r, id)) = Cardinality(BucketsOf(t, id)) + 1
    BY <1>1, <1>9, TablesAreFinite, FS_AddElement DEF Base
  <2>2. QED
    BY <2>1, <1>7, <1>9 DEF Near, RefersRight
<1>12. QED
  BY <1>7, <1>8, <1>10, <1>11 DEF Sound, Remains

(* What PutInNew starts from: the entry may have one more bucket. *)
Ready(t, id, u) ==
    /\ Base(t) /\ id \in DOMAIN t.info /\ u \in NewBucket
    /\ \A x \in DOMAIN t.info \ {id} : RefersRight(t, x)
    /\ ~t.info[id].fInTried /\ id \notin t.vvNew[u]
    /\ t.info[id].nRefCount = Cardinality(BucketsOf(t, id))
    /\ t.info[id].nRefCount < ADDRMAN_NEW_BUCKETS_PER_ADDRESS

(* Add_ counts the new reference before the bucket has the entry. *)
LEMMA ReferredIsNear ==
    ASSUME NEW t, NEW id, NEW u, Ready(t, id, u), NEW r, r = Referred(t, u, id)
    PROVE  Near(r, id, u) /\ r.vvNew = t.vvNew /\ Remains(r, t)
<1> DEFINE n == t.info[id].nRefCount
<1>1. /\ Base(t) /\ IsTables(t) /\ u \in NewBucket /\ t.vvNew \in [NewBucket -> SUBSET DOMAIN t.info]
      /\ id \in DOMAIN t.info /\ id \notin t.vvNew[u] /\ n \in Nat
      /\ \A v \in NewBucket : Cardinality(t.vvNew[v]) <= ADDRMAN_NEW_BUCKET_SIZE
  <2>1. Base(t) /\ t.info \in [DOMAIN t.info -> Entry] /\ id \in DOMAIN t.info
    BY DEF Ready, Base, Typed
  <2>2. n \in Nat
    BY <2>1, EntryFields
  <2>3. QED
    BY <2>2 DEF Ready, Base, Typed, Bounded
<1>2. r = TablesOf(Counting(t.info, id, n + 1), t.addr, t.random, t.tried, t.new, t.vvTried, t.vvNew, t.ids)
  BY <1>1, ReferredFields
<1>3. /\ Base(r) /\ DOMAIN r.info = DOMAIN t.info /\ r.vvNew = t.vvNew /\ r.ids = t.ids
      /\ r.info[id].nRefCount = n + 1 /\ r.info[id].fInTried = t.info[id].fInTried
      /\ r.info[id].addr = t.info[id].addr /\ r.info[id].source = t.info[id].source
      /\ \A x \in DOMAIN t.info \ {id} : r.info[x] = t.info[x]
      /\ TriedOf(r) = TriedOf(t)
  BY <1>1, <1>2, CountStays
<1>4. \A x : BucketsOf(r, x) = BucketsOf(t, x)
  BY <1>3 DEF BucketsOf
<1>5. \A x \in DOMAIN r.info \ {id} : RefersRight(r, x)
  BY <1>3, <1>4 DEF Ready, RefersRight
<1>6. n + 1 <= ADDRMAN_NEW_BUCKETS_PER_ADDRESS
  BY <1>1, AddrManLimitsAssumption DEF Ready
<1>7. QED
  BY <1>1, <1>3, <1>4, <1>5, <1>6 DEF Ready, Near, Remains

(* PutInNew leaves sound tables. *)
LEMMA PutInNewIsSound ==
    ASSUME NEW t, NEW id, NEW u, Ready(t, id, u) \/ (Sound(t) /\ u \in NewBucket /\ id \in t.vvNew[u]),
           NEW r \in PutInNew(t, u, id)
    PROVE  Sound(r) /\ Remains(r, t)
<1> DEFINE s == Referred(t, u, id)
<1>1. CASE id \in t.vvNew[u] /\ Sound(t) /\ u \in NewBucket
  <2>1. IsTables(t) /\ t.vvNew \in [NewBucket -> SUBSET DOMAIN t.info]
    BY <1>1 DEF Sound, Base, Typed
  <2>2. r = Putting(t, u, id)
    BY <1>1 DEF PutInNew, Referred, Putting
  <2>3. Joining(t.vvNew, u, id) = t.vvNew
    <3>1. t.vvNew[u] \cup {id} = t.vvNew[u] /\ DOMAIN t.vvNew = NewBucket
      BY <1>1, <2>1
    <3>2. QED
      BY <2>1, <3>1 DEF Joining
  <2>4. r = t
    BY <2>1, <2>2, <2>3, PuttingFields DEF IsTables
  <2>5. QED
    BY <2>4, <1>1 DEF Remains
<1>2. CASE Ready(t, id, u)
  <2>1. Near(s, id, u) /\ s.vvNew = t.vvNew /\ Remains(s, t) /\ id \notin t.vvNew[u] /\ u \in NewBucket /\ Base(t)
    BY <1>2, ReferredIsNear DEF Ready
  <2>2. Cardinality(t.vvNew[u]) \in Nat /\ Cardinality(t.vvNew[u]) <= ADDRMAN_NEW_BUCKET_SIZE
    BY <2>1, TablesAreFinite DEF Base, Bounded
  <2>3. CASE Cardinality(t.vvNew[u]) = ADDRMAN_NEW_BUCKET_SIZE
    <3>1. PICK victim \in t.vvNew[u] : r = Putting(ShrinkNew(s, u, victim), u, id)
      BY <2>1, <2>3 DEF PutInNew, Putting
    <3> DEFINE x == ShrinkNew(s, u, victim)
    <3>2. Near(x, id, u) /\ Cardinality(x.vvNew[u]) < ADDRMAN_NEW_BUCKET_SIZE /\ Remains(x, s)
      BY <2>1, <3>1, ShrinkNewKeeps
    <3>3. Sound(r) /\ Remains(r, x)
      BY <3>1, <3>2, PuttingIsSound
    <3>4. QED
      BY <3>2, <3>3, <2>1, RemainsIsTransitive
  <2>4. CASE Cardinality(t.vvNew[u]) # ADDRMAN_NEW_BUCKET_SIZE
    <3>1. r = Putting(s, u, id)
      BY <2>1, <2>4 DEF PutInNew, Putting
    <3>2. Cardinality(s.vvNew[u]) < ADDRMAN_NEW_BUCKET_SIZE
      BY <2>1, <2>2, <2>4, AddrManLimitsAssumption
    <3>3. Sound(r) /\ Remains(r, s)
      BY <2>1, <3>1, <3>2, PuttingIsSound
    <3>4. QED
      BY <3>3, <2>1, RemainsIsTransitive
  <2>5. QED
    BY <2>3, <2>4
<1>3. QED
  BY <1>1, <1>2

(* Create adds an entry that is in no bucket yet. *)
LEMMA CreateIsReady ==
    ASSUME NEW t, Sound(t), NEW a \in NetAddr, a \notin DOMAIN t.addr, NEW s \in Source, NEW u \in NewBucket,
           NEW r, r = Create(t, a, s)
    PROVE  /\ Ready(r, t.ids, u) /\ TriedOf(r) = TriedOf(t) /\ r.ids = t.ids + 1
           /\ DOMAIN r.info = DOMAIN t.info \cup {t.ids} /\ \A x \in DOMAIN t.info : r.info[x] = t.info[x]
           /\ r.info[t.ids].addr = a
<1> DEFINE c == t.ids
           n == Len(t.random)
           e == Fresh(t, a, s)
           i == With(t.info, c, e)
           b == With(t.addr, a, c)
           v == Append(t.random, c)
<1>1. /\ IsTables(t) /\ c \in Nat /\ c \notin DOMAIN t.info /\ t.random \in Seq(DOMAIN t.info) /\ n \in Nat
      /\ t.info \in [DOMAIN t.info -> Entry] /\ Base(t)
  <2>1. /\ IsTables(t) /\ c \in Nat /\ t.random \in Seq(DOMAIN t.info) /\ t.info \in [DOMAIN t.info -> Entry]
        /\ \A x \in DOMAIN t.info : x \in Nat /\ x < c
    BY DEF Sound, Base, Typed
  <2>2. QED
    BY <2>1 DEF Sound
<1>2. /\ r.info = i /\ r.addr = b /\ r.random = v /\ r.tried = t.tried /\ r.new = t.new + 1
      /\ r.vvTried = t.vvTried /\ r.vvNew = t.vvNew /\ r.ids = c + 1 /\ IsTables(r)
  <2> DEFINE m == t.new + 1
             d == c + 1
  <2>1. r = TablesOf(i, b, v, t.tried, m, t.vvTried, t.vvNew, d)
    BY <1>1, CreateFields
  <2> HIDE DEF i, b, v, m, d
  <2>2. /\ r.info = i /\ r.addr = b /\ r.random = v /\ r.tried = t.tried /\ r.new = m
        /\ r.vvTried = t.vvTried /\ r.vvNew = t.vvNew /\ r.ids = d /\ IsTables(r)
    BY <2>1, TablesFields
  <2>3. QED
    BY <2>2 DEF i, b, v, m, d
<1>3. /\ e \in Entry /\ e.addr = a /\ e.nRefCount = 0 /\ e.fInTried = FALSE /\ e.nRandomPos = n + 1
  BY <1>1 DEF Entry, Fresh
<1> HIDE DEF e
<1>4. /\ DOMAIN i = DOMAIN t.info \cup {c} /\ i[c] = e /\ \A x \in DOMAIN t.info : i[x] = t.info[x]
      /\ i = [x \in DOMAIN t.info \cup {c} |-> i[x]]
  <2>1. /\ DOMAIN i = DOMAIN t.info \cup {c} /\ i[c] = e /\ \A x \in DOMAIN t.info : i[x] = t.info[x]
    BY <1>1 DEF With
  <2>2. i = [x \in DOMAIN t.info \cup {c} |-> i[x]]
    BY DEF With
  <2>3. QED
    BY <2>1, <2>2
<1>5. i \in [DOMAIN t.info \cup {c} -> Entry]
  BY <1>1, <1>3, <1>4
<1>6. /\ DOMAIN b = DOMAIN t.addr \cup {a} /\ b[a] = c /\ \A x \in DOMAIN t.addr : b[x] = t.addr[x]
      /\ b = [x \in DOMAIN b |-> b[x]]
  <2>1. /\ DOMAIN b = DOMAIN t.addr \cup {a} /\ b[a] = c /\ \A x \in DOMAIN t.addr : b[x] = t.addr[x]
    BY DEF With
  <2>2. b = [x \in DOMAIN b |-> b[x]]
    BY DEF With
  <2>3. QED
    BY <2>1, <2>2
<1> HIDE DEF i, b
<1>7. v \in Seq(DOMAIN i) /\ Len(v) = n + 1 /\ v[n + 1] = c /\ \A p \in 1 .. n : v[p] = t.random[p] /\ v[p] \in DOMAIN t.info
  BY <1>1, <1>4
<1> HIDE DEF v
<1>8. Indexed(t)
  BY <1>1 DEF Base
<1>9. TriedOf(r) = TriedOf(t) /\ NewOf(r) = NewOf(t) \cup {c} /\ c \notin NewOf(t)
  <2>1. ~r.info[c].fInTried /\ \A x \in DOMAIN t.info : r.info[x].fInTried = t.info[x].fInTried
    BY <1>2, <1>3, <1>4
  <2>2. DOMAIN r.info = DOMAIN t.info \cup {c} /\ c \notin DOMAIN t.info
    BY <1>1, <1>2, <1>4
  <2> HIDE DEF c
  <2>3. QED
    BY <2>1, <2>2 DEF TriedOf, NewOf
<1>10. Typed(r)
  <2>1. r.new \in Nat /\ r.tried \in Nat /\ r.ids \in Nat
    BY <1>1, <1>2 DEF Base, Typed
  <2>2. \A x \in DOMAIN r.info : x \in Nat /\ x < r.ids
    <3>1. \A x \in DOMAIN t.info : x \in Nat /\ x < c
      BY <1>1 DEF Base, Typed
    <3>2. QED
      BY <3>1, <1>1, <1>2, <1>4
  <2>3. r.vvNew \in [NewBucket -> SUBSET DOMAIN r.info]
    BY <1>1, <1>2, <1>4 DEF Base, Typed
  <2>4. r.vvTried \in [TriedBucket -> Seq(DOMAIN r.info)]
    <3>1. t.vvTried \in [TriedBucket -> Seq(DOMAIN t.info)]
      BY <1>1 DEF Base, Typed
    <3>2. \A k \in TriedBucket : t.vvTried[k] \in Seq(DOMAIN r.info)
      BY <3>1, <1>2, <1>4
    <3>3. QED
      BY <3>1, <3>2, <1>2
  <2>5. DOMAIN r.addr \subseteq NetAddr /\ r.addr = [x \in DOMAIN r.addr |-> r.addr[x]]
    BY <1>1, <1>2, <1>6 DEF Base, Typed
  <2>6. r.info \in [DOMAIN r.info -> Entry] /\ r.random \in Seq(DOMAIN r.info)
    BY <1>2, <1>4, <1>5, <1>7
  <2>7. QED
    BY <2>1, <2>2, <2>3, <2>4, <2>5, <2>6, <1>2 DEF Typed
<1>11. Indexed(r)
  <2>1. \A x \in DOMAIN r.addr : r.addr[x] \in DOMAIN r.info /\ r.info[r.addr[x]].addr = x
    <3>1. \A x \in DOMAIN t.addr : t.addr[x] \in DOMAIN t.info /\ t.info[t.addr[x]].addr = x
      BY <1>8 DEF Indexed
    <3>2. ASSUME NEW x \in DOMAIN t.addr PROVE r.addr[x] \in DOMAIN r.info /\ r.info[r.addr[x]].addr = x
      <4>1. r.addr[x] = t.addr[x] /\ t.addr[x] \in DOMAIN t.info /\ t.info[t.addr[x]].addr = x
        BY <3>1, <1>2, <1>6
      <4>2. QED
        BY <4>1, <1>2, <1>4
    <3>3. r.addr[a] = c /\ r.info[c].addr = a /\ c \in DOMAIN r.info
      BY <1>2, <1>3, <1>4, <1>6
    <3>4. QED
      BY <3>2, <3>3, <1>2, <1>6
  <2>2. \A x \in DOMAIN r.info : r.info[x].addr \in DOMAIN r.addr /\ r.addr[r.info[x].addr] = x
    <3>1. \A x \in DOMAIN t.info : t.info[x].addr \in DOMAIN t.addr /\ t.addr[t.info[x].addr] = x
      BY <1>8 DEF Indexed
    <3>2. ASSUME NEW x \in DOMAIN t.info PROVE r.info[x].addr \in DOMAIN r.addr /\ r.addr[r.info[x].addr] = x
      <4>1. r.info[x] = t.info[x] /\ t.info[x].addr \in DOMAIN t.addr /\ t.addr[t.info[x].addr] = x
        BY <3>1, <1>2, <1>4
      <4>2. QED
        BY <4>1, <1>2, <1>6
    <3>3. r.info[c].addr \in DOMAIN r.addr /\ r.addr[r.info[c].addr] = c
      BY <1>2, <1>3, <1>4, <1>6
    <3>4. QED
      BY <3>2, <3>3, <1>2, <1>4
  <2>3. \A x \in DOMAIN r.info : r.info[x].nRandomPos \in 1 .. Len(r.random) /\ r.random[r.info[x].nRandomPos] = x
    <3>1. \A x \in DOMAIN t.info : t.info[x].nRandomPos \in 1 .. n /\ t.random[t.info[x].nRandomPos] = x
      BY <1>8 DEF Indexed
    <3>2. ASSUME NEW x \in DOMAIN t.info PROVE r.info[x].nRandomPos \in 1 .. Len(r.random) /\ r.random[r.info[x].nRandomPos] = x
      <4>1. r.info[x] = t.info[x] /\ t.info[x].nRandomPos \in 1 .. n /\ t.random[t.info[x].nRandomPos] = x
        BY <3>1, <1>2, <1>4
      <4>2. QED
        BY <4>1, <1>1, <1>2, <1>7
    <3>3. r.info[c].nRandomPos \in 1 .. Len(r.random) /\ r.random[r.info[c].nRandomPos] = c
      BY <1>1, <1>2, <1>3, <1>4, <1>7
    <3>4. QED
      BY <3>2, <3>3, <1>2, <1>4
  <2>4. \A p \in 1 .. Len(r.random) : r.info[r.random[p]].nRandomPos = p
    <3>1. \A p \in 1 .. n : t.info[t.random[p]].nRandomPos = p
      BY <1>8 DEF Indexed
    <3>2. ASSUME NEW p \in 1 .. n PROVE r.info[r.random[p]].nRandomPos = p
      <4>1. r.random[p] = t.random[p] /\ t.random[p] \in DOMAIN t.info
        BY <1>2, <1>7
      <4>2. r.info[t.random[p]] = t.info[t.random[p]] /\ t.info[t.random[p]].nRandomPos = p
        BY <4>1, <3>1, <1>2, <1>4
      <4>3. QED
        BY <4>1, <4>2
    <3>3. r.info[r.random[n + 1]].nRandomPos = n + 1
      BY <1>2, <1>3, <1>4, <1>7
    <3>4. \A p \in 1 .. n + 1 : p \in 1 .. n \/ p = n + 1
      BY <1>1
    <3>5. QED
      BY <3>2, <3>3, <3>4, <1>2, <1>7
  <2>5. QED
    BY <2>1, <2>2, <2>3, <2>4 DEF Indexed
<1>12. CountsAgree(r)
  <2>1. Cardinality(NewOf(t) \cup {c}) = Cardinality(NewOf(t)) + 1
    BY <1>1, <1>9, TablesAreFinite, FS_AddElement DEF Base
  <2>2. QED
    BY <2>1, <1>1, <1>2, <1>9 DEF Base, CountsAgree
<1>13. Placed(r)
  <2>1. \A x \in TriedOf(t) : r.info[x].addr = t.info[x].addr
    BY <1>2, <1>4 DEF TriedOf
  <2>2. \A k \in TriedBucket : {x \in TriedOf(r) : GetTriedBucket[r.info[x].addr] = k} = {x \in TriedOf(t) : GetTriedBucket[t.info[x].addr] = k}
    BY <2>1, <1>9
  <2>3. QED
    BY <2>2, <1>1, <1>2 DEF Base, Placed
<1>14. Bounded(r)
  BY <1>1, <1>2 DEF Base, Bounded
<1>15. \A x : BucketsOf(r, x) = BucketsOf(t, x)
  BY <1>2 DEF BucketsOf
<1>16. \A x \in DOMAIN t.info : RefersRight(r, x)
  BY <1>2, <1>4, <1>15 DEF Sound, RefersRight
<1>17. Base(r)
  BY <1>10, <1>11, <1>12, <1>13, <1>14 DEF Base
<1>18. BucketsOf(r, c) = {} /\ c \notin r.vvNew[u]
  <2>1. \A w \in NewBucket : c \notin t.vvNew[w]
    BY <1>1 DEF Base, Typed
  <2>2. QED
    BY <2>1, <1>2 DEF BucketsOf
<1>19. r.info[c].nRefCount = 0 /\ ~r.info[c].fInTried /\ Cardinality(BucketsOf(r, c)) = 0
  BY <1>2, <1>3, <1>4, <1>18, FS_EmptySet
<1>20. Ready(r, c, u)
  <2>1. 0 < ADDRMAN_NEW_BUCKETS_PER_ADDRESS
    BY AddrManLimitsAssumption
  <2>2. \A x \in DOMAIN r.info \ {c} : RefersRight(r, x)
    BY <1>2, <1>4, <1>16
  <2>3. c \in DOMAIN r.info
    BY <1>2, <1>4
  <2>4. QED
    BY <2>1, <2>2, <2>3, <1>17, <1>18, <1>19 DEF Ready
<1>21. QED
  BY <1>2, <1>3, <1>4, <1>9, <1>20

-----------------------------------------------------------------------------
(* Sequences without repetition *)

(* One more at the end *)
LEMMA AppendsOne ==
    ASSUME NEW D, NEW v \in Seq(D), IsInjective(v), NEW x \in D, x \notin ToSet(v)
    PROVE  /\ Append(v, x) \in Seq(D) /\ Len(Append(v, x)) = Len(v) + 1
           /\ IsInjective(Append(v, x)) /\ ToSet(Append(v, x)) = ToSet(v) \cup {x}
<1> DEFINE w == Append(v, x)
           n == Len(v)
<1>1. /\ n \in Nat /\ w \in Seq(D) /\ Len(w) = n + 1 /\ DOMAIN w = 1 .. n + 1 /\ w[n + 1] = x
      /\ DOMAIN v = 1 .. n /\ \A i \in 1 .. n : w[i] = v[i]
  OBVIOUS
<1>2. \A i \in 1 .. n + 1 : i \in 1 .. n \/ i = n + 1
  BY <1>1
<1>3. \A i \in 1 .. n : v[i] # x /\ i \in 1 .. n + 1
  BY <1>1 DEF ToSet
<1>4. n + 1 \in 1 .. n + 1
  BY <1>1
<1> HIDE DEF w, n
<1>5. IsInjective(w)
  BY <1>1, <1>2, <1>3 DEF IsInjective
<1>6. ToSet(w) = ToSet(v) \cup {x}
  BY <1>1, <1>2, <1>3, <1>4 DEF ToSet
<1>7. QED
  BY <1>1, <1>5, <1>6 DEF w, n

(* with x in the place p *)
Instead(s, p, x) == [s EXCEPT ![p] = x]

(* one in the place of another *)
LEMMA ReplacesOne ==
    ASSUME NEW D, NEW v \in Seq(D), IsInjective(v), NEW p \in 1 .. Len(v), NEW x \in D, x \notin ToSet(v)
    PROVE  /\ Instead(v, p, x) \in Seq(D) /\ Len(Instead(v, p, x)) = Len(v)
           /\ IsInjective(Instead(v, p, x)) /\ ToSet(Instead(v, p, x)) = (ToSet(v) \ {v[p]}) \cup {x}
<1> DEFINE w == Instead(v, p, x)
<1>1. /\ w \in Seq(D) /\ Len(w) = Len(v) /\ DOMAIN w = DOMAIN v /\ w[p] = x /\ p \in DOMAIN v
      /\ \A i \in DOMAIN v : i # p => w[i] = v[i]
  BY DEF Instead
<1> HIDE DEF w
<1>2. \A i \in DOMAIN v : v[i] # x
  BY DEF ToSet
<1>3. IsInjective(w)
  BY <1>1, <1>2 DEF IsInjective
<1>4. \A i \in DOMAIN v : i # p => v[i] # v[p]
  BY <1>1 DEF IsInjective
<1>5. ToSet(w) = (ToSet(v) \ {v[p]}) \cup {x}
  BY <1>1, <1>4 DEF ToSet
<1>6. QED
  BY <1>1, <1>3, <1>5 DEF w

(* two that change places *)
LEMMA SwapsTwo ==
    ASSUME NEW D, NEW v \in Seq(D), IsInjective(v), NEW p \in 1 .. Len(v), NEW q \in 1 .. Len(v)
    PROVE  /\ SwapTried(v, p, q) \in Seq(D) /\ Len(SwapTried(v, p, q)) = Len(v)
           /\ IsInjective(SwapTried(v, p, q)) /\ ToSet(SwapTried(v, p, q)) = ToSet(v)
<1> DEFINE w == SwapTried(v, p, q)
<1>1. /\ w \in Seq(D) /\ Len(w) = Len(v) /\ DOMAIN w = DOMAIN v /\ w[p] = v[q] /\ w[q] = v[p]
      /\ p \in DOMAIN v /\ q \in DOMAIN v
      /\ \A i \in DOMAIN v : i # p /\ i # q => w[i] = v[i]
  BY DEF SwapTried
<1> HIDE DEF w
<1>2. IsInjective(w)
  BY <1>1 DEF IsInjective
<1>3. ToSet(w) = ToSet(v)
  BY <1>1 DEF ToSet
<1>4. QED
  BY <1>1, <1>2, <1>3 DEF w

-----------------------------------------------------------------------------
(* SelectTried *)

(* before the first draw *)
Nothing(v) == [v |-> v, nOldest |-> 0, nOldestPos |-> 0]

(* The entries are inspected one after the other. *)
LEMMA InspectingIs ==
    ASSUME NEW t, NEW k, NEW draw, Len(draw) \in Nat
    PROVE  /\ Inspecting(t, k, draw)[0] = Nothing(t.vvTried[k])
           /\ \A n \in 1 .. Len(draw) : Inspecting(t, k, draw)[n] = Inspect(t, Inspecting(t, k, draw)[n - 1], n, draw[n])
<1> DEFINE N == Len(draw)
           base == Nothing(t.vvTried[k])
           Is(g, m) == g = [n \in 0 .. m |-> IF n = 0 THEN base ELSE Inspect(t, g[n - 1], n, draw[n])]
           f == CHOOSE g : Is(g, N)
<1>1. N \in Nat
  OBVIOUS
<1>2. Inspecting(t, k, draw) = f
  BY DEF Inspecting, Nothing
<1> HIDE DEF N, base
<1>3. ASSUME NEW m \in Nat, NEW g, Is(g, m) PROVE \E e : Is(e, m + 1)
  <2> DEFINE e == [n \in 0 .. m + 1 |-> IF n = 0 THEN base ELSE Inspect(t, g[n - 1], n, draw[n])]
  <2>1. \A n \in 0 .. m : e[n] = g[n]
    BY <1>3
  <2>2. \A n \in 1 .. m + 1 : n - 1 \in 0 .. m
    OBVIOUS
  <2>3. \A n \in 0 .. m + 1 : (IF n = 0 THEN base ELSE Inspect(t, e[n - 1], n, draw[n])) = (IF n = 0 THEN base ELSE Inspect(t, g[n - 1], n, draw[n]))
    <3> HIDE DEF e
    <3>1. \A n \in 1 .. m + 1 : e[n - 1] = g[n - 1]
      BY <2>1, <2>2
    <3>2. \A n \in 0 .. m + 1 : n = 0 \/ n \in 1 .. m + 1
      OBVIOUS
    <3>3. QED
      BY <3>1, <3>2
  <2>4. e = [n \in 0 .. m + 1 |-> IF n = 0 THEN base ELSE Inspect(t, e[n - 1], n, draw[n])]
    BY <2>3, Zenon
  <2>5. QED
    BY <2>4
<1>4. \E e : Is(e, 0)
  <2> DEFINE e == [n \in 0 .. 0 |-> base]
  <2>1. e = [n \in 0 .. 0 |-> IF n = 0 THEN base ELSE Inspect(t, e[n - 1], n, draw[n])]
    OBVIOUS
  <2>2. QED
    BY <2>1
<1>5. \E g : Is(g, N)
  <2> DEFINE S == {m \in 0 .. N : \E g : Is(g, m)}
  <2>1. 0 \in S
    BY <1>1, <1>4
  <2>2. ASSUME NEW n \in 1 .. N, n - 1 \in S PROVE n \in S
    <3> DEFINE l == n - 1
    <3>1. l \in Nat /\ l + 1 = n /\ n \in 0 .. N /\ \E g : Is(g, l)
      BY <1>1, <2>2
    <3> HIDE DEF l, Is
    <3>2. \E g : Is(g, l + 1)
      BY <1>3, <3>1
    <3>3. QED
      BY <3>1, <3>2
  <2> HIDE DEF S
  <2>3. N \in 0 .. N /\ \A n \in 0 .. N : n \in S
    BY <1>1, <2>1, <2>2, Upward
  <2>4. QED
    BY <2>3 DEF S
<1>6. Is(f, N)
  BY <1>5
<1> HIDE DEF f
<1>7. f[0] = base /\ \A n \in 1 .. N : f[n] = Inspect(t, f[n - 1], n, draw[n])
  BY <1>1, <1>6
<1>8. QED
  BY <1>2, <1>7 DEF N, base

(* What SelectTried has found: the bucket in another order. *)
Found(f, v, D, n) ==
    /\ f.v \in Seq(D) /\ Len(f.v) = Len(v) /\ IsInjective(f.v) /\ ToSet(f.v) = ToSet(v)
    /\ n = 0 => f.nOldest = 0
    /\ n # 0 => f.nOldestPos \in 1 .. Len(v)

(* What Inspect has found points into the bucket, once it has seen an entry. *)
LEMMA InspectFinds ==
    ASSUME NEW t, NEW f, NEW v, NEW D, NEW n \in Nat, Found(f, v, D, n), Len(v) \in Nat,
           NEW i \in 1 .. Len(v), NEW p \in 1 .. Len(v)
    PROVE  Found(Inspect(t, f, i, p), v, D, n + 1)
<1> DEFINE g == Inspect(t, f, i, p)
<1>1. g.v = SwapTried(f.v, i, p) /\ (g.nOldestPos = p \/ (n # 0 /\ g.nOldestPos = f.nOldestPos))
  BY DEF Inspect, Found
<1> HIDE DEF g
<1>2. g.v \in Seq(D) /\ Len(g.v) = Len(v) /\ IsInjective(g.v) /\ ToSet(g.v) = ToSet(v)
  BY <1>1, SwapsTwo DEF Found
<1>3. g.nOldestPos \in 1 .. Len(v)
  BY <1>1 DEF Found
<1>4. QED
  BY <1>2, <1>3 DEF g, Found

(* SelectTried only reorders the bucket, and returns a position of it. *)
LEMMA SelectTriedFinds ==
    ASSUME NEW t, NEW k, NEW D, t.vvTried[k] \in Seq(D), IsInjective(t.vvTried[k]),
           NEW m \in Nat \ {0}, m <= Len(t.vvTried[k]), NEW draw \in Draws(m, Len(t.vvTried[k])),
           NEW f, f = SelectTried(t, k, draw)
    PROVE  /\ f.v \in Seq(D) /\ Len(f.v) = Len(t.vvTried[k]) /\ IsInjective(f.v) /\ ToSet(f.v) = ToSet(t.vvTried[k])
           /\ f.nOldestPos \in 1 .. Len(t.vvTried[k])
<1> DEFINE v == t.vvTried[k]
           I == Inspecting(t, k, draw)
           S == {n \in 0 .. m : Found(I[n], v, D, n)}
<1>1. Len(draw) = m /\ \A n \in 1 .. m : draw[n] \in 1 .. Len(v)
  BY DEF Draws
<1>2. I[0] = Nothing(v) /\ \A n \in 1 .. m : I[n] = Inspect(t, I[n - 1], n, draw[n])
  <2>1. Len(draw) \in Nat
    BY <1>1
  <2>2. I[0] = Nothing(v)
    BY <2>1, InspectingIs
  <2>3. \A n \in 1 .. Len(draw) : I[n] = Inspect(t, I[n - 1], n, draw[n])
    BY <2>1, InspectingIs
  <2>4. QED
    BY <1>1, <2>2, <2>3
<1> HIDE DEF I
<1>3. v \in Seq(D) /\ IsInjective(v) /\ Len(v) \in Nat
  OBVIOUS
<1> HIDE DEF v
<1>4. 0 \in S
  BY <1>2, <1>3 DEF Found, Nothing
<1>5. ASSUME NEW n \in 1 .. m, n - 1 \in S PROVE n \in S
  <2> DEFINE l == n - 1
  <2>1. l \in Nat /\ l + 1 = n /\ n \in 0 .. m /\ n \in 1 .. Len(v) /\ Found(I[l], v, D, l)
    BY <1>3, <1>5 DEF v
  <2>2. I[n] = Inspect(t, I[l], n, draw[n]) /\ draw[n] \in 1 .. Len(v)
    BY <1>1, <1>2
  <2> HIDE DEF l
  <2>3. Found(I[n], v, D, l + 1)
    BY <2>1, <2>2, <1>3, InspectFinds
  <2>4. QED
    BY <2>1, <2>3
<1> HIDE DEF S
<1>6. m \in S
  <2>1. \A n \in 0 .. m : n \in S
    BY <1>4, <1>5, Upward
  <2>2. QED
    BY <2>1
<1>7. QED
  BY <1>1, <1>6 DEF S, Found, SelectTried, v, I

-----------------------------------------------------------------------------
(* The steps of MakeTried, field by field *)

Cleared(w, id) == [u \in NewBucket |-> w[u] \ {id}]
Setting(v, k, s) == [v EXCEPT ![k] = s]
Entering(i, id) == Tabling(i, id, TRUE)
Retiring(i, id) == Tabling(i, id, FALSE)

(* the entry leaves the new table *)
Outing(t, id) == [t EXCEPT !.vvNew = [u \in NewBucket |-> @[u] \ {id}], !.info[id].nRefCount = 0, !.new = @ - 1]

(* What MakeTried does to each field when it takes the entry out of the new buckets *)
LEMMA OutingFields ==
    ASSUME NEW t, IsTables(t), NEW id
    PROVE  Outing(t, id)
             = TablesOf(Counting(t.info, id, 0), t.addr, t.random, t.tried, t.new - 1, t.vvTried, Cleared(t.vvNew, id), t.ids)
<1> DEFINE i == Counting(t.info, id, 0)
           w == Cleared(t.vvNew, id)
<1>1. Outing(t, id) = [t EXCEPT !.vvNew = w, !.info = i, !.new = t.new - 1]
  BY DEF Outing, Counting, Cleared
<1> HIDE DEF i, w
<1>2. Outing(t, id) = NewCounts(Infos(VvNews(t, w), i), t.new - 1)
  BY <1>1 DEF Infos, VvNews, NewCounts
<1>3. Outing(t, id) = TablesOf(i, t.addr, t.random, t.tried, t.new - 1, t.vvTried, w, t.ids)
  BY <1>2, InfosIs, VvNewsIs, NewCountsIs DEF IsTables
<1>4. QED
  BY <1>3 DEF i, w

(* it goes to the end of a tried bucket *)
Appending(t, k, id) == [t EXCEPT !.vvTried[k] = Append(@, id), !.tried = @ + 1, !.info[id].fInTried = TRUE]

(* when the tried bucket has room *)
LEMMA AppendingFields ==
    ASSUME NEW t, IsTables(t), NEW k, NEW id
    PROVE  Appending(t, k, id)
             = TablesOf(Entering(t.info, id), t.addr, t.random, t.tried + 1, t.new,
                        Setting(t.vvTried, k, Append(t.vvTried[k], id)), t.vvNew, t.ids)
<1> DEFINE i == Entering(t.info, id)
           v == Setting(t.vvTried, k, Append(t.vvTried[k], id))
<1>1. Appending(t, k, id) = [t EXCEPT !.vvTried = v, !.tried = t.tried + 1, !.info = i]
  BY DEF Appending, Entering, Tabling, Setting
<1> HIDE DEF i, v
<1>2. Appending(t, k, id) = Infos(TriedCounts(VvTrieds(t, v), t.tried + 1), i)
  BY <1>1 DEF Infos, VvTrieds, TriedCounts
<1>3. Appending(t, k, id) = TablesOf(i, t.addr, t.random, t.tried + 1, t.new, v, t.vvNew, t.ids)
  BY <1>2, InfosIs, VvTriedsIs, TriedCountsIs DEF IsTables
<1>4. QED
  BY <1>3 DEF i, v

(* SelectTried reorders the bucket *)
Ordering(t, k, s) == [t EXCEPT !.vvTried[k] = s]

(* when SelectTried has reordered the bucket *)
LEMMA OrderingFields ==
    ASSUME NEW t, IsTables(t), NEW k, NEW s
    PROVE  Ordering(t, k, s)
             = TablesOf(t.info, t.addr, t.random, t.tried, t.new, Setting(t.vvTried, k, s), t.vvNew, t.ids)
<1>1. Ordering(t, k, s) = VvTrieds(t, Setting(t.vvTried, k, s))
  BY DEF Ordering, VvTrieds, Setting
<1>2. QED
  BY <1>1, VvTriedsIs DEF IsTables

(* when an entry goes back to a new bucket *)
LEMMA EvictFields ==
    ASSUME NEW t, IsTables(t), NEW id, NEW nOrigin
    PROVE  Evict(t, id, nOrigin)
             = TablesOf(Counting(Retiring(t.info, id), id, 1), t.addr, t.random, t.tried, t.new + 1, t.vvTried,
                        Joining(t.vvNew, BucketBack(t, id, nOrigin), id), t.ids)
<1> DEFINE i == Counting(Retiring(t.info, id), id, 1)
           w == Joining(t.vvNew, BucketBack(t, id, nOrigin), id)
<1>1. Evict(t, id, nOrigin) = [t EXCEPT !.info = i, !.vvNew = w, !.new = t.new + 1]
  <2>1. [t EXCEPT !.info[id].fInTried = FALSE, !.info[id].nRefCount = 1] = [t EXCEPT !.info = i]
    BY DEF Counting, Retiring, Tabling
  <2> DEFINE u == BucketBack(t, id, nOrigin)
  <2>2. Evict(t, id, nOrigin) = [[t EXCEPT !.info[id].fInTried = FALSE, !.info[id].nRefCount = 1] EXCEPT !.vvNew[u] = t.vvNew[u] \cup {id}, !.new = t.new + 1]
    BY DEF Evict
  <2>3. QED
    BY <2>1, <2>2 DEF Joining
<1> HIDE DEF i, w
<1>2. Evict(t, id, nOrigin) = NewCounts(VvNews(Infos(t, i), w), t.new + 1)
  BY <1>1 DEF Infos, VvNews, NewCounts
<1>3. Evict(t, id, nOrigin) = TablesOf(i, t.addr, t.random, t.tried, t.new + 1, t.vvTried, w, t.ids)
  BY <1>2, InfosIs, VvNewsIs, NewCountsIs DEF IsTables
<1>4. QED
  BY <1>3 DEF i, w

(* the entry takes a place of the bucket *)
Replacing(t, k, p, id) == [t EXCEPT !.vvTried[k][p] = id, !.info[id].fInTried = TRUE]

(* and when the entry takes its place. *)
LEMMA ReplacingFields ==
    ASSUME NEW t, IsTables(t), NEW k, NEW p, NEW id
    PROVE  Replacing(t, k, p, id)
             = TablesOf(Entering(t.info, id), t.addr, t.random, t.tried, t.new,
                        Setting(t.vvTried, k, Instead(t.vvTried[k], p, id)), t.vvNew, t.ids)
<1> DEFINE i == Entering(t.info, id)
           v == Setting(t.vvTried, k, Instead(t.vvTried[k], p, id))
<1>1. Replacing(t, k, p, id) = [t EXCEPT !.vvTried = v, !.info = i]
  BY DEF Replacing, Entering, Tabling, Setting, Instead
<1> HIDE DEF i, v
<1>2. Replacing(t, k, p, id) = Infos(VvTrieds(t, v), i)
  BY <1>1 DEF Infos, VvTrieds
<1>3. Replacing(t, k, p, id) = TablesOf(i, t.addr, t.random, t.tried, t.new, v, t.vvNew, t.ids)
  BY <1>2, InfosIs, VvTriedsIs DEF IsTables
<1>4. QED
  BY <1>3 DEF i, v

-----------------------------------------------------------------------------
(* MakeTried *)

(* Entries that keep their addresses and places may change their tables, as    *)
(* long as these are counted and the buckets bounded.                          *)
Moved(r, t) ==
    /\ IsTables(r) /\ r.info \in [DOMAIN t.info -> Entry]
    /\ \A x \in DOMAIN t.info : r.info[x].addr = t.info[x].addr /\ r.info[x].nRandomPos = t.info[x].nRandomPos
    /\ r.addr = t.addr /\ r.random = t.random /\ r.ids = t.ids
    /\ r.vvNew \in [NewBucket -> SUBSET DOMAIN t.info] /\ r.vvTried \in [TriedBucket -> Seq(DOMAIN t.info)]
    /\ r.tried = Cardinality(TriedOf(r)) /\ r.new = Cardinality(NewOf(r)) /\ Placed(r) /\ Bounded(r)

(* Such tables keep the base. *)
LEMMA BaseMoves ==
    ASSUME NEW t, Base(t), NEW r, Moved(r, t)
    PROVE  Base(r)
<1> USE DEF Moved
<1>1. /\ Typed(t) /\ Indexed(t) /\ DOMAIN r.info = DOMAIN t.info
      /\ \A p \in 1 .. Len(t.random) : t.random[p] \in DOMAIN t.info
  BY DEF Base, Typed
<1>2. r.tried \in Nat /\ r.new \in Nat
  <2>1. IsFiniteSet(DOMAIN t.info)
    BY <1>1, TablesAreFinite
  <2>2. TriedOf(r) \subseteq DOMAIN t.info /\ NewOf(r) \subseteq DOMAIN t.info
    BY <1>1 DEF TriedOf, NewOf
  <2>3. QED
    BY <2>1, <2>2, FS_Subset, FS_CardinalityType
<1>3. Typed(r)
  BY <1>1, <1>2 DEF Typed
<1>4. Indexed(r)
  <2>1. \A a \in DOMAIN r.addr : r.addr[a] \in DOMAIN r.info /\ r.info[r.addr[a]].addr = a
    BY <1>1 DEF Indexed
  <2>2. \A x \in DOMAIN r.info : r.info[x].addr \in DOMAIN r.addr /\ r.addr[r.info[x].addr] = x
    BY <1>1 DEF Indexed
  <2>3. \A x \in DOMAIN r.info : r.info[x].nRandomPos \in 1 .. Len(r.random) /\ r.random[r.info[x].nRandomPos] = x
    BY <1>1 DEF Indexed
  <2>4. \A p \in 1 .. Len(r.random) : r.info[r.random[p]].nRandomPos = p
    BY <1>1 DEF Indexed
  <2>5. QED
    BY <2>1, <2>2, <2>3, <2>4 DEF Indexed
<1>5. QED
  BY <1>3, <1>4 DEF Base, CountsAgree

(* Tabling an entry as tried, or as new *)
LEMMA EnteringIs ==
    ASSUME NEW D, NEW i \in [D -> Entry], NEW id \in D
    PROVE  LET j == Entering(i, id) IN
           /\ j \in [D -> Entry] /\ \A x \in D \ {id} : j[x] = i[x]
           /\ j[id].fInTried /\ j[id].addr = i[id].addr /\ j[id].source = i[id].source
           /\ j[id].nRefCount = i[id].nRefCount /\ j[id].nRandomPos = i[id].nRandomPos
<1> DEFINE b == TRUE
           j == Tabling(i, id, b)
<1>1. b \in BOOLEAN
  OBVIOUS
<1> HIDE DEF b
<1>2. /\ j \in [D -> Entry] /\ \A x \in D \ {id} : j[x] = i[x]
      /\ j[id].fInTried = b /\ j[id].addr = i[id].addr /\ j[id].source = i[id].source
      /\ j[id].nRefCount = i[id].nRefCount /\ j[id].nRandomPos = i[id].nRandomPos
  BY <1>1, TablingIs
<1>3. QED
  BY <1>2 DEF b, Entering

(* An evicted entry changes in nothing but its mark. *)
LEMMA RetiringIs ==
    ASSUME NEW D, NEW i \in [D -> Entry], NEW id \in D
    PROVE  LET j == Retiring(i, id) IN
           /\ j \in [D -> Entry] /\ \A x \in D \ {id} : j[x] = i[x]
           /\ ~j[id].fInTried /\ j[id].addr = i[id].addr /\ j[id].source = i[id].source
           /\ j[id].nRefCount = i[id].nRefCount /\ j[id].nRandomPos = i[id].nRandomPos
<1> DEFINE b == FALSE
           j == Tabling(i, id, b)
<1>1. b \in BOOLEAN
  OBVIOUS
<1> HIDE DEF b
<1>2. /\ j \in [D -> Entry] /\ \A x \in D \ {id} : j[x] = i[x]
      /\ j[id].fInTried = b /\ j[id].addr = i[id].addr /\ j[id].source = i[id].source
      /\ j[id].nRefCount = i[id].nRefCount /\ j[id].nRandomPos = i[id].nRandomPos
  BY <1>1, TablingIs
<1>3. QED
  BY <1>2 DEF b, Retiring

(* the entry to be made tried, and what it is without its buckets *)
LEMMA OutingIs ==
    ASSUME NEW t, Sound(t), NEW id \in DOMAIN t.info, ~t.info[id].fInTried, NEW s, s = Outing(t, id)
    PROVE  /\ IsTables(s) /\ s.info \in [DOMAIN t.info -> Entry] /\ DOMAIN s.info = DOMAIN t.info
           /\ s.info[id].nRefCount = 0
           /\ \A x \in DOMAIN t.info : /\ s.info[x].addr = t.info[x].addr /\ s.info[x].source = t.info[x].source
                                       /\ s.info[x].fInTried = t.info[x].fInTried /\ s.info[x].nRandomPos = t.info[x].nRandomPos
                                       /\ x # id => s.info[x].nRefCount = t.info[x].nRefCount
           /\ s.addr = t.addr /\ s.random = t.random /\ s.ids = t.ids /\ s.tried = t.tried /\ s.new = t.new - 1
           /\ s.vvTried = t.vvTried /\ s.vvNew \in [NewBucket -> SUBSET (DOMAIN t.info \ {id})]
           /\ \A u \in NewBucket : s.vvNew[u] = t.vvNew[u] \ {id}
<1>1. IsTables(t) /\ t.info \in [DOMAIN t.info -> Entry] /\ t.vvNew \in [NewBucket -> SUBSET DOMAIN t.info]
  BY DEF Sound, Base, Typed
<1> DEFINE i == Counting(t.info, id, 0)
           w == Cleared(t.vvNew, id)
           m == t.new - 1
<1>2. /\ i \in [DOMAIN t.info -> Entry] /\ \A x \in DOMAIN t.info \ {id} : i[x] = t.info[x]
      /\ i[id].nRefCount = 0 /\ i[id].addr = t.info[id].addr /\ i[id].source = t.info[id].source
      /\ i[id].fInTried = t.info[id].fInTried /\ i[id].nRandomPos = t.info[id].nRandomPos
  BY <1>1, CountingIs
<1>3. s = TablesOf(i, t.addr, t.random, t.tried, m, t.vvTried, w, t.ids)
  BY <1>1, OutingFields
<1>4. w \in [NewBucket -> SUBSET (DOMAIN t.info \ {id})] /\ \A u \in NewBucket : w[u] = t.vvNew[u] \ {id}
  BY <1>1 DEF Cleared
<1> HIDE DEF i, w, m
<1>5. /\ s.info = i /\ s.addr = t.addr /\ s.random = t.random /\ s.tried = t.tried /\ s.new = m
      /\ s.vvTried = t.vvTried /\ s.vvNew = w /\ s.ids = t.ids /\ IsTables(s)
  BY <1>3, TablesFields
<1>6. \A x \in DOMAIN t.info : /\ i[x].addr = t.info[x].addr /\ i[x].source = t.info[x].source
                               /\ i[x].fInTried = t.info[x].fInTried /\ i[x].nRandomPos = t.info[x].nRandomPos
                               /\ x # id => i[x].nRefCount = t.info[x].nRefCount
  BY <1>2
<1>7. i \in [DOMAIN t.info -> Entry] /\ DOMAIN i = DOMAIN t.info /\ i[id].nRefCount = 0
  BY <1>2
<1>8. s.vvNew \in [NewBucket -> SUBSET (DOMAIN t.info \ {id})] /\ \A u \in NewBucket : s.vvNew[u] = t.vvNew[u] \ {id}
  BY <1>4, <1>5
<1>9. s.new = t.new - 1
  BY <1>5 DEF m
<1>10. \A x \in DOMAIN t.info : /\ s.info[x].addr = t.info[x].addr /\ s.info[x].source = t.info[x].source
                                /\ s.info[x].fInTried = t.info[x].fInTried /\ s.info[x].nRandomPos = t.info[x].nRandomPos
                                /\ x # id => s.info[x].nRefCount = t.info[x].nRefCount
  BY <1>5, <1>6
<1>11. s.info \in [DOMAIN t.info -> Entry] /\ DOMAIN s.info = DOMAIN t.info /\ s.info[id].nRefCount = 0
  BY <1>5, <1>7
<1>12. QED
  BY <1>5, <1>8, <1>9, <1>10, <1>11

(* The entries have kept their addresses. *)
Stays(r, t) ==
    /\ DOMAIN r.info = DOMAIN t.info /\ \A x \in DOMAIN t.info : r.info[x].addr = t.info[x].addr
    /\ r.addr = t.addr /\ r.ids = t.ids

(* One tried bucket changes, the others do not. *)
LEMMA SettingIs ==
    ASSUME NEW v, DOMAIN v = TriedBucket, NEW k \in TriedBucket, NEW s
    PROVE  Setting(v, k, s)[k] = s /\ \A l \in TriedBucket \ {k} : Setting(v, k, s)[l] = v[l]
BY DEF Setting

(* The tried buckets are sequences of ids, also with another in one place. *)
LEMMA SettingIsTyped ==
    ASSUME NEW D, NEW v \in [TriedBucket -> Seq(D)], NEW k \in TriedBucket, NEW s \in Seq(D)
    PROVE  Setting(v, k, s) \in [TriedBucket -> Seq(D)]
BY DEF Setting

(* the tried bucket of an entry of the new table *)
LEMMA TriedBucketOf ==
    ASSUME NEW t, Sound(t), NEW id \in DOMAIN t.info
    PROVE  /\ GetTriedBucket[t.info[id].addr] \in TriedBucket
           /\ \A k \in TriedBucket : /\ t.vvTried[k] \in Seq(DOMAIN t.info) /\ IsInjective(t.vvTried[k])
                                     /\ Len(t.vvTried[k]) \in Nat /\ Len(t.vvTried[k]) <= ADDRMAN_TRIED_BUCKET_SIZE
                                     /\ ToSet(t.vvTried[k]) = {x \in TriedOf(t) : GetTriedBucket[t.info[x].addr] = k}
<1>1. t.info[id] \in Entry /\ t.vvTried \in [TriedBucket -> Seq(DOMAIN t.info)]
  BY DEF Sound, Base, Typed
<1>2. GetTriedBucket[t.info[id].addr] \in TriedBucket
  BY <1>1, EntryFields, BucketsAssumption
<1>3. QED
  BY <1>1, <1>2 DEF Sound, Base, Placed, Bounded

(* An entry of the new table, which belongs into the tried bucket k *)
Tries(t, id, k) == Sound(t) /\ id \in DOMAIN t.info /\ ~t.info[id].fInTried /\ k = GetTriedBucket[t.info[id].addr]

(* It goes there when there is room. *)
LEMMA AppendingIsSound ==
    ASSUME NEW t, NEW id, NEW k, Tries(t, id, k), Len(t.vvTried[k]) < ADDRMAN_TRIED_BUCKET_SIZE,
           NEW r, r = Appending(Outing(t, id), k, id)
    PROVE  Sound(r) /\ Stays(r, t) /\ TriedOf(r) = TriedOf(t) \cup {id}
<1>a. Sound(t) /\ id \in DOMAIN t.info /\ ~t.info[id].fInTried /\ k = GetTriedBucket[t.info[id].addr]
  BY DEF Tries
<1> DEFINE D == DOMAIN t.info
           s == Outing(t, id)
           i == Entering(s.info, id)
           m == s.tried + 1
           v == Append(t.vvTried[k], id)
           vv == Setting(t.vvTried, k, v)
<1>1. /\ Base(t) /\ D = DOMAIN t.info /\ id \in D /\ \A x \in D : RefersRight(t, x)
      /\ t.vvNew \in [NewBucket -> SUBSET D] /\ t.vvTried \in [TriedBucket -> Seq(D)] /\ t.tried \in Nat /\ t.new \in Nat
      /\ IsFiniteSet(TriedOf(t)) /\ IsFiniteSet(NewOf(t)) /\ t.tried = Cardinality(TriedOf(t)) /\ t.new = Cardinality(NewOf(t))
      /\ \A u \in NewBucket : IsFiniteSet(t.vvNew[u]) /\ Cardinality(t.vvNew[u]) \in Nat /\ Cardinality(t.vvNew[u]) <= ADDRMAN_NEW_BUCKET_SIZE
  <2>1. Typed(t)
    BY <1>a DEF Sound, Base
  <2>2. QED
    BY <2>1, <1>a, TablesAreFinite DEF Sound, Base, Typed, CountsAgree, Bounded
<1>2. /\ IsTables(s) /\ s.info \in [D -> Entry] /\ s.info[id].nRefCount = 0
      /\ \A x \in D : /\ s.info[x].addr = t.info[x].addr /\ s.info[x].source = t.info[x].source
                      /\ s.info[x].fInTried = t.info[x].fInTried /\ s.info[x].nRandomPos = t.info[x].nRandomPos
                      /\ x # id => s.info[x].nRefCount = t.info[x].nRefCount
      /\ s.addr = t.addr /\ s.random = t.random /\ s.ids = t.ids /\ s.tried = t.tried /\ s.new = t.new - 1
      /\ s.vvTried = t.vvTried /\ s.vvNew \in [NewBucket -> SUBSET (D \ {id})]
      /\ \A u \in NewBucket : s.vvNew[u] = t.vvNew[u] \ {id}
  BY <1>a, OutingIs
<1> HIDE DEF s
<1>3. /\ k \in TriedBucket /\ t.vvTried[k] \in Seq(D) /\ IsInjective(t.vvTried[k]) /\ Len(t.vvTried[k]) \in Nat
      /\ id \notin ToSet(t.vvTried[k])
  BY <1>a, TriedBucketOf DEF TriedOf
<1> HIDE DEF D
<1>4. /\ i \in [D -> Entry] /\ \A x \in D \ {id} : i[x] = s.info[x]
      /\ i[id].fInTried /\ i[id].addr = s.info[id].addr
      /\ i[id].nRefCount = s.info[id].nRefCount /\ i[id].nRandomPos = s.info[id].nRandomPos
  <2>1. s.info \in [D -> Entry] /\ id \in D
    BY <1>1, <1>2
  <2>2. QED
    BY <2>1, EnteringIs
<1>5. v \in Seq(D) /\ Len(v) = Len(t.vvTried[k]) + 1 /\ IsInjective(v) /\ ToSet(v) = ToSet(t.vvTried[k]) \cup {id}
  <2>1. /\ t.vvTried[k] \in Seq(D) /\ IsInjective(t.vvTried[k]) /\ id \in D /\ id \notin ToSet(t.vvTried[k])
    BY <1>1, <1>3
  <2>2. QED
    BY <2>1, AppendsOne
<1>6. r = TablesOf(i, s.addr, s.random, m, s.new, vv, s.vvNew, s.ids)
  <2>1. r = TablesOf(i, s.addr, s.random, m, s.new, Setting(s.vvTried, k, Append(s.vvTried[k], id)), s.vvNew, s.ids)
    BY <1>2, AppendingFields, Zenon DEF s
  <2>2. QED
    BY <2>1, <1>2
<1> HIDE DEF i, v
<1>7. vv \in [TriedBucket -> Seq(D)] /\ vv[k] = v /\ \A l \in TriedBucket \ {k} : vv[l] = t.vvTried[l]
  <2>1. DOMAIN t.vvTried = TriedBucket
    BY <1>1
  <2>2. vv[k] = v /\ \A l \in TriedBucket \ {k} : vv[l] = t.vvTried[l]
    BY <2>1, <1>3, SettingIs
  <2>3. vv \in [TriedBucket -> Seq(D)]
    BY <1>1, <1>3, <1>5, SettingIsTyped
  <2>4. QED
    BY <2>2, <2>3
<1> HIDE DEF vv, m
<1>8. /\ r.info = i /\ r.addr = t.addr /\ r.random = t.random /\ r.tried = m /\ r.new = t.new - 1
      /\ r.vvTried = vv /\ r.vvNew = s.vvNew /\ r.ids = t.ids /\ IsTables(r)
  BY <1>2, <1>6, TablesFields
<1>9. \A x \in D : i[x].addr = t.info[x].addr /\ i[x].nRandomPos = t.info[x].nRandomPos
  BY <1>2, <1>4
<1>10. /\ i[id].fInTried /\ i[id].nRefCount = 0
       /\ \A x \in D \ {id} : i[x].fInTried = t.info[x].fInTried /\ i[x].nRefCount = t.info[x].nRefCount
  <2>1. \A x \in D \ {id} : x # id /\ x \in D /\ i[x] = s.info[x]
    BY <1>4
  <2>2. \A x \in D \ {id} : i[x].fInTried = t.info[x].fInTried /\ i[x].nRefCount = t.info[x].nRefCount
    BY <2>1, <1>2
  <2>3. QED
    BY <2>2, <1>2, <1>4
<1>11. /\ DOMAIN r.info = D /\ id \in NewOf(t) /\ id \notin TriedOf(t)
       /\ TriedOf(r) = TriedOf(t) \cup {id} /\ NewOf(r) = NewOf(t) \ {id}
  <2>1. DOMAIN r.info = D /\ TriedOf(r) = {x \in D : i[x].fInTried} /\ NewOf(r) = {x \in D : ~i[x].fInTried}
    BY <1>4, <1>8 DEF TriedOf, NewOf
  <2>2. TriedOf(t) = {x \in D : t.info[x].fInTried} /\ NewOf(t) = {x \in D : ~t.info[x].fInTried}
    BY <1>1 DEF TriedOf, NewOf
  <2>3. id \in D /\ ~t.info[id].fInTried
    BY <1>a, <1>1
  <2>4. \A x \in D : i[x].fInTried <=> x = id \/ t.info[x].fInTried
    BY <1>10
  <2> HIDE DEF i
  <2>5. QED
    BY <2>1, <2>2, <2>3, <2>4
<1>12. r.tried = Cardinality(TriedOf(r)) /\ r.new = Cardinality(NewOf(r))
  <2>1. Cardinality(TriedOf(t) \cup {id}) = Cardinality(TriedOf(t)) + 1
    BY <1>1, <1>11, FS_AddElement
  <2>2. Cardinality(NewOf(t) \ {id}) = Cardinality(NewOf(t)) - 1
    BY <1>1, <1>11, FS_RemoveElement
  <2>3. QED
    BY <2>1, <2>2, <1>1, <1>2, <1>8, <1>11 DEF m
<1>13. Placed(r)
  <2>1. ASSUME NEW l \in TriedBucket
        PROVE  IsInjective(r.vvTried[l]) /\ ToSet(r.vvTried[l]) = {x \in TriedOf(r) : GetTriedBucket[r.info[x].addr] = l}
    <3>1. \A x \in TriedOf(t) \cup {id} : r.info[x].addr = t.info[x].addr
      BY <1>1, <1>8, <1>9 DEF TriedOf
    <3>2. ToSet(t.vvTried[l]) = {x \in TriedOf(t) : GetTriedBucket[t.info[x].addr] = l} /\ IsInjective(t.vvTried[l])
      BY <1>a, TriedBucketOf
    <3>3. CASE l = k
      <4>1. r.vvTried[l] = v /\ ToSet(v) = ToSet(t.vvTried[l]) \cup {id} /\ IsInjective(v)
        BY <3>3, <1>5, <1>7, <1>8
      <4>2. GetTriedBucket[r.info[id].addr] = l
        BY <3>1, <3>3, <1>a
      <4>3. {x \in TriedOf(r) : GetTriedBucket[r.info[x].addr] = l} = {x \in TriedOf(t) : GetTriedBucket[t.info[x].addr] = l} \cup {id}
        BY <4>2, <3>1, <1>11
      <4>4. QED
        BY <4>1, <4>3, <3>2
    <3>4. CASE l # k
      <4>1. r.vvTried[l] = t.vvTried[l]
        BY <3>4, <1>7, <1>8
      <4>2. GetTriedBucket[r.info[id].addr] # l
        BY <3>1, <3>4, <1>a
      <4>3. {x \in TriedOf(r) : GetTriedBucket[r.info[x].addr] = l} = {x \in TriedOf(t) : GetTriedBucket[t.info[x].addr] = l}
        BY <4>2, <3>1, <1>11
      <4>4. QED
        BY <4>1, <4>3, <3>2
    <3>5. QED
      BY <3>3, <3>4
  <2>2. QED
    BY <2>1 DEF Placed
<1>14. Bounded(r)
  <2>1. \A u \in NewBucket : Cardinality(t.vvNew[u] \ {id}) <= Cardinality(t.vvNew[u]) /\ Cardinality(t.vvNew[u] \ {id}) \in Nat
    <3>1. ASSUME NEW u \in NewBucket
          PROVE  Cardinality(t.vvNew[u] \ {id}) <= Cardinality(t.vvNew[u]) /\ Cardinality(t.vvNew[u] \ {id}) \in Nat
      <4>1. IsFiniteSet(t.vvNew[u])
        BY <1>1
      <4>2. QED
        BY <4>1, FS_Subset, FS_CardinalityType
    <3>2. QED
      BY <3>1
  <2>2. \A u \in NewBucket : Cardinality(r.vvNew[u]) <= ADDRMAN_NEW_BUCKET_SIZE
    BY <2>1, <1>1, <1>2, <1>8, AddrManLimitsAssumption
  <2>3. \A l \in TriedBucket : Len(t.vvTried[l]) <= ADDRMAN_TRIED_BUCKET_SIZE
    BY <1>a, TriedBucketOf
  <2>4. Len(v) <= ADDRMAN_TRIED_BUCKET_SIZE
    BY <1>3, <1>5, AddrManLimitsAssumption
  <2>5. QED
    BY <2>2, <2>3, <2>4, <1>7, <1>8 DEF Bounded
<1>15. Base(r)
  <2>1. r.vvNew \in [NewBucket -> SUBSET D]
    BY <1>2, <1>8
  <2>2. Moved(r, t)
    BY <2>1, <1>1, <1>4, <1>7, <1>8, <1>9, <1>12, <1>13, <1>14 DEF Moved
  <2>3. QED
    BY <2>2, <1>1, BaseMoves
<1>16. \A x \in D : RefersRight(r, x)
  <2>1. BucketsOf(r, id) = {}
    BY <1>2, <1>8 DEF BucketsOf
  <2>2. \A x \in D \ {id} : BucketsOf(r, x) = BucketsOf(t, x)
    BY <1>2, <1>8 DEF BucketsOf
  <2>3. RefersRight(r, id)
    BY <2>1, <1>8, <1>10, FS_EmptySet, AddrManLimitsAssumption DEF RefersRight
  <2>4. \A x \in D \ {id} : RefersRight(r, x)
    BY <2>2, <1>1, <1>8, <1>10 DEF RefersRight
  <2>5. QED
    BY <2>3, <2>4
<1>17. QED
  BY <1>1, <1>8, <1>9, <1>11, <1>15, <1>16 DEF Sound, Stays

(* What the tables are after an entry took the place of the one that was       *)
(* evicted, with u the bucket it went back to.                                 *)
Evicted(r, t, id, k, v, p, u) ==
    LET old == v[p] IN
    /\ IsTables(r) /\ r.info \in [DOMAIN t.info -> Entry]
    /\ \A x \in DOMAIN t.info : r.info[x].addr = t.info[x].addr /\ r.info[x].nRandomPos = t.info[x].nRandomPos
    /\ r.info[id].fInTried /\ r.info[id].nRefCount = 0
    /\ ~r.info[old].fInTried /\ r.info[old].nRefCount = 1
    /\ \A x \in DOMAIN t.info \ {id, old} : r.info[x].fInTried = t.info[x].fInTried /\ r.info[x].nRefCount = t.info[x].nRefCount
    /\ r.addr = t.addr /\ r.random = t.random /\ r.ids = t.ids /\ r.tried = t.tried /\ r.new = t.new
    /\ r.vvTried \in [TriedBucket -> Seq(DOMAIN t.info)] /\ r.vvTried[k] = Instead(v, p, id)
    /\ \A l \in TriedBucket \ {k} : r.vvTried[l] = t.vvTried[l]
    /\ r.vvNew \in [NewBucket -> SUBSET DOMAIN t.info] /\ r.vvNew[u] = (t.vvNew[u] \ {id}) \cup {old}
    /\ \A w \in NewBucket \ {u} : r.vvNew[w] = t.vvNew[w] \ {id}

(* The steps of MakeTried with a full bucket come to Evicted, and there is room where the evicted entry goes. *)
LEMMA ReplacingIs ==
    ASSUME NEW t, Sound(t), NEW id \in DOMAIN t.info, ~t.info[id].fInTried, NEW k \in TriedBucket,
           NEW v \in Seq(DOMAIN t.info), NEW p \in 1 .. Len(v), v[p] # id,
           NEW nOrigin \in NewBucket, id \in t.vvNew[nOrigin],
           NEW x, x = Ordering(Outing(t, id), k, v), NEW u, u = BucketBack(x, v[p], nOrigin),
           NEW r, r = Replacing(Evict(x, v[p], nOrigin), k, p, id)
    PROVE  Evicted(r, t, id, k, v, p, u) /\ u \in NewBucket /\ Cardinality(t.vvNew[u] \ {id}) < ADDRMAN_NEW_BUCKET_SIZE
<1> DEFINE D == DOMAIN t.info
           s == Outing(t, id)
           old == v[p]
           vv == Setting(t.vvTried, k, v)
           y == Evict(x, old, nOrigin)
           i1 == Retiring(s.info, old)
           i2 == Counting(i1, old, 1)
           i3 == Entering(i2, id)
           w == Joining(s.vvNew, u, old)
           v3 == Setting(vv, k, Instead(v, p, id))
           m == s.new + 1
<1>1. /\ Base(t) /\ D = DOMAIN t.info /\ id \in D /\ old \in D /\ old # id
      /\ t.vvNew \in [NewBucket -> SUBSET D] /\ t.vvTried \in [TriedBucket -> Seq(D)] /\ t.tried \in Nat /\ t.new \in Nat
      /\ t.info \in [D -> Entry]
  BY DEF Sound, Base, Typed
<1>2. /\ IsTables(s) /\ s.info \in [D -> Entry] /\ s.info[id].nRefCount = 0
      /\ \A z \in D : /\ s.info[z].addr = t.info[z].addr /\ s.info[z].source = t.info[z].source
                      /\ s.info[z].fInTried = t.info[z].fInTried /\ s.info[z].nRandomPos = t.info[z].nRandomPos
                      /\ z # id => s.info[z].nRefCount = t.info[z].nRefCount
      /\ s.addr = t.addr /\ s.random = t.random /\ s.ids = t.ids /\ s.tried = t.tried /\ s.new = t.new - 1
      /\ s.vvTried = t.vvTried /\ s.vvNew \in [NewBucket -> SUBSET (D \ {id})]
      /\ \A b \in NewBucket : s.vvNew[b] = t.vvNew[b] \ {id}
  BY OutingIs
<1> HIDE DEF s
<1>3. /\ vv \in [TriedBucket -> Seq(D)] /\ vv[k] = v /\ \A l \in TriedBucket \ {k} : vv[l] = t.vvTried[l]
  <2>1. DOMAIN t.vvTried = TriedBucket
    BY <1>1
  <2>2. vv[k] = v /\ \A l \in TriedBucket \ {k} : vv[l] = t.vvTried[l]
    BY <2>1, SettingIs
  <2>3. v \in Seq(D)
    OBVIOUS
  <2> HIDE DEF D
  <2>4. vv \in [TriedBucket -> Seq(D)]
    BY <1>1, <2>3, SettingIsTyped
  <2>5. QED
    BY <2>2, <2>4
<1>4. x = TablesOf(s.info, s.addr, s.random, s.tried, s.new, vv, s.vvNew, s.ids)
  <2>1. x = TablesOf(s.info, s.addr, s.random, s.tried, s.new, Setting(s.vvTried, k, v), s.vvNew, s.ids)
    BY <1>2, OrderingFields DEF s
  <2>2. QED
    BY <2>1, <1>2
<1> HIDE DEF vv
<1>5. /\ x.info = s.info /\ x.addr = s.addr /\ x.random = s.random /\ x.tried = s.tried /\ x.new = s.new
      /\ x.vvTried = vv /\ x.vvNew = s.vvNew /\ x.ids = s.ids /\ IsTables(x)
  BY <1>4, TablesFields
<1>6. u \in NewBucket /\ Cardinality(t.vvNew[u] \ {id}) < ADDRMAN_NEW_BUCKET_SIZE
  <2> DEFINE b == GetNewBucket[x.info[old].addr][x.info[old].source]
  <2>1. s.info[old] \in Entry
    BY <1>1, <1>2
  <2>2. b \in NewBucket
    BY <2>1, <1>5, EntryFields, BucketsAssumption
  <2>3. u = IF Cardinality(x.vvNew[b]) < ADDRMAN_NEW_BUCKET_SIZE THEN b ELSE nOrigin
    BY DEF BucketBack
  <2> HIDE DEF b
  <2>4. x.vvNew[b] = t.vvNew[b] \ {id}
    BY <2>2, <1>2, <1>5
  <2>5. Cardinality(t.vvNew[nOrigin] \ {id}) < ADDRMAN_NEW_BUCKET_SIZE
    <3>1. Typed(t) /\ Cardinality(t.vvNew[nOrigin]) <= ADDRMAN_NEW_BUCKET_SIZE
      BY DEF Sound, Base, Bounded
    <3>2. IsFiniteSet(t.vvNew[nOrigin]) /\ Cardinality(t.vvNew[nOrigin]) \in Nat
      BY <3>1, TablesAreFinite
    <3>3. Cardinality(t.vvNew[nOrigin] \ {id}) = Cardinality(t.vvNew[nOrigin]) - 1
      BY <3>2, FS_RemoveElement
    <3>4. QED
      BY <3>1, <3>2, <3>3, AddrManLimitsAssumption
  <2>6. QED
    BY <2>2, <2>3, <2>4, <2>5
<1>7. y = TablesOf(i2, x.addr, x.random, x.tried, x.new + 1, x.vvTried, w, x.ids)
  <2>1. y = TablesOf(Counting(Retiring(x.info, old), old, 1), x.addr, x.random, x.tried, x.new + 1, x.vvTried,
                     Joining(x.vvNew, BucketBack(x, old, nOrigin), old), x.ids)
    BY <1>5, EvictFields
  <2>2. QED
    BY <2>1, <1>5
<1> HIDE DEF D, old, y
<1>8. /\ i1 \in [D -> Entry] /\ \A z \in D \ {old} : i1[z] = s.info[z]
      /\ ~i1[old].fInTried /\ i1[old].addr = s.info[old].addr /\ i1[old].nRandomPos = s.info[old].nRandomPos
  BY <1>1, <1>2, RetiringIs
<1> HIDE DEF i1
<1>9. /\ i2 \in [D -> Entry] /\ \A z \in D \ {old} : i2[z] = i1[z]
      /\ i2[old].nRefCount = 1 /\ i2[old].fInTried = i1[old].fInTried
      /\ i2[old].addr = i1[old].addr /\ i2[old].nRandomPos = i1[old].nRandomPos
  <2>1. i1 \in [D -> Entry] /\ old \in D /\ 1 \in Nat
    BY <1>1, <1>8
  <2>2. QED
    BY <2>1, CountingIs
<1> HIDE DEF i2
<1>10. /\ i3 \in [D -> Entry] /\ \A z \in D \ {id} : i3[z] = i2[z]
       /\ i3[id].fInTried /\ i3[id].addr = i2[id].addr
       /\ i3[id].nRefCount = i2[id].nRefCount /\ i3[id].nRandomPos = i2[id].nRandomPos
  BY <1>1, <1>9, EnteringIs
<1> HIDE DEF i3
<1>11. w[u] = s.vvNew[u] \cup {old} /\ \A b \in NewBucket \ {u} : w[b] = s.vvNew[b]
  <2>1. DOMAIN s.vvNew = NewBucket
    BY <1>2
  <2>2. QED
    BY <2>1, <1>6, JoiningIs
<1>12. w \in [NewBucket -> SUBSET D]
  <2>1. s.vvNew \in [NewBucket -> SUBSET D]
    BY <1>2
  <2>2. QED
    BY <2>1, <1>1, <1>6, JoiningIsTyped
<1> HIDE DEF w
<1>13. /\ y.info = i2 /\ y.addr = t.addr /\ y.random = t.random /\ y.tried = t.tried /\ y.new = t.new
       /\ y.vvTried = vv /\ y.vvNew = w /\ y.ids = t.ids /\ IsTables(y)
  <2>1. x.new + 1 = t.new
    BY <1>1, <1>2, <1>5
  <2>2. y = TablesOf(i2, t.addr, t.random, t.tried, t.new, vv, w, t.ids)
    BY <2>1, <1>2, <1>5, <1>7
  <2>3. QED
    BY <2>2, TablesFields
<1>14. r = TablesOf(i3, t.addr, t.random, t.tried, t.new, v3, w, t.ids)
  <2>1. r = Replacing(y, k, p, id)
    BY DEF y, old
  <2>2. r = TablesOf(Entering(y.info, id), y.addr, y.random, y.tried, y.new,
                     Setting(y.vvTried, k, Instead(y.vvTried[k], p, id)), y.vvNew, y.ids)
    BY <2>1, <1>13, ReplacingFields
  <2>3. y.vvTried[k] = v
    BY <1>3, <1>13
  <2>4. QED
    BY <2>2, <2>3, <1>13 DEF i3
<1>15. Instead(v, p, id) \in Seq(D)
  <2>1. v \in Seq(D) /\ id \in D
    BY <1>1
  <2>2. QED
    BY <2>1 DEF Instead
<1>16. v3 \in [TriedBucket -> Seq(D)] /\ v3[k] = Instead(v, p, id) /\ \A l \in TriedBucket \ {k} : v3[l] = t.vvTried[l]
  <2>1. DOMAIN vv = TriedBucket
    BY <1>3
  <2> DEFINE z == Instead(v, p, id)
  <2> HIDE DEF z
  <2>2. v3[k] = z /\ \A l \in TriedBucket \ {k} : v3[l] = vv[l]
    BY <2>1, SettingIs DEF z
  <2>3. v3 \in [TriedBucket -> Seq(D)]
    BY <1>3, <1>15, SettingIsTyped DEF z
  <2>4. QED
    BY <2>2, <2>3, <1>3 DEF z
<1> HIDE DEF v3
<1>17. /\ r.info = i3 /\ r.addr = t.addr /\ r.random = t.random /\ r.tried = t.tried /\ r.new = t.new
       /\ r.vvTried = v3 /\ r.vvNew = w /\ r.ids = t.ids /\ IsTables(r)
  BY <1>14, TablesFields
<1>18. \A z \in D : i3[z].addr = t.info[z].addr /\ i3[z].nRandomPos = t.info[z].nRandomPos
  <2>1. \A z \in D \ {id} : i3[z] = i2[z]
    BY <1>10
  <2>2. ASSUME NEW z \in D PROVE i3[z].addr = i2[z].addr /\ i3[z].nRandomPos = i2[z].nRandomPos
    BY <2>1, <1>10
  <2>3. ASSUME NEW z \in D PROVE i2[z].addr = i1[z].addr /\ i2[z].nRandomPos = i1[z].nRandomPos
    BY <1>9
  <2>4. ASSUME NEW z \in D PROVE i1[z].addr = s.info[z].addr /\ i1[z].nRandomPos = s.info[z].nRandomPos
    BY <1>8
  <2>5. QED
    BY <2>2, <2>3, <2>4, <1>2
<1>19. i3[id].fInTried /\ i3[id].nRefCount = 0 /\ ~i3[old].fInTried /\ i3[old].nRefCount = 1
  BY <1>1, <1>2, <1>8, <1>9, <1>10
<1>20. \A z \in D \ {id, old} : i3[z].fInTried = t.info[z].fInTried /\ i3[z].nRefCount = t.info[z].nRefCount
  <2>1. ASSUME NEW z \in D, z # id, z # old PROVE i3[z] = s.info[z]
    BY <2>1, <1>8, <1>9, <1>10
  <2>2. QED
    BY <2>1, <1>2
<1>21. w[u] = (t.vvNew[u] \ {id}) \cup {old} /\ \A b \in NewBucket \ {u} : w[b] = t.vvNew[b] \ {id}
  BY <1>2, <1>6, <1>11
<1>22. QED
  BY <1>1, <1>6, <1>10, <1>12, <1>16, <1>17, <1>18, <1>19, <1>20, <1>21 DEF Evicted, old

(* What the selection leaves of a full tried bucket: the same entries, in another order. *)
Reordered(v, p, t, k) ==
    /\ v \in Seq(DOMAIN t.info) /\ IsInjective(v) /\ Len(v) = Len(t.vvTried[k]) /\ ToSet(v) = ToSet(t.vvTried[k])
    /\ p \in 1 .. Len(v)

(* What has happened when the entry at p has given its place to the new one. *)
Exchanged(r, t, id, k, v, p, u) ==
    /\ Tries(t, id, k) /\ Evicted(r, t, id, k, v, p, u) /\ Reordered(v, p, t, k)
    /\ u \in NewBucket /\ Cardinality(t.vvNew[u] \ {id}) < ADDRMAN_NEW_BUCKET_SIZE

(* A full tried bucket: one entry comes, one goes back, and the tables stay sound. *)
LEMMA EvictedIsSound ==
    ASSUME NEW t, NEW id, NEW k, NEW v, NEW p, NEW u, NEW r, Exchanged(r, t, id, k, v, p, u), NEW old, old = v[p]
    PROVE  /\ Sound(r) /\ Stays(r, t)
           /\ old \in TriedOf(t) /\ TriedOf(r) = (TriedOf(t) \ {old}) \cup {id}
<1>a. Sound(t) /\ id \in DOMAIN t.info /\ ~t.info[id].fInTried /\ k = GetTriedBucket[t.info[id].addr]
  BY DEF Exchanged, Tries
<1>b. /\ v \in Seq(DOMAIN t.info) /\ IsInjective(v) /\ Len(v) = Len(t.vvTried[k]) /\ ToSet(v) = ToSet(t.vvTried[k])
      /\ p \in 1 .. Len(v)
  BY DEF Exchanged, Reordered
<1>c. u \in NewBucket /\ Cardinality(t.vvNew[u] \ {id}) < ADDRMAN_NEW_BUCKET_SIZE
  BY DEF Exchanged
<1>d. Evicted(r, t, id, k, v, p, u)
  BY DEF Exchanged
<1> DEFINE D == DOMAIN t.info
           v2 == Instead(v, p, id)
<1>1. /\ Base(t) /\ D = DOMAIN t.info /\ id \in D /\ \A x \in D : RefersRight(t, x)
      /\ t.vvNew \in [NewBucket -> SUBSET D] /\ t.vvTried \in [TriedBucket -> Seq(D)] /\ t.tried \in Nat /\ t.new \in Nat
      /\ IsFiniteSet(TriedOf(t)) /\ IsFiniteSet(NewOf(t)) /\ t.tried = Cardinality(TriedOf(t)) /\ t.new = Cardinality(NewOf(t))
      /\ \A b \in NewBucket : IsFiniteSet(t.vvNew[b]) /\ Cardinality(t.vvNew[b]) \in Nat /\ Cardinality(t.vvNew[b]) <= ADDRMAN_NEW_BUCKET_SIZE
  <2>1. Typed(t)
    BY <1>a DEF Sound, Base
  <2>2. QED
    BY <2>1, <1>a, TablesAreFinite DEF Sound, Base, Typed, CountsAgree, Bounded
<1>2. /\ k \in TriedBucket /\ Len(t.vvTried[k]) \in Nat /\ Len(t.vvTried[k]) <= ADDRMAN_TRIED_BUCKET_SIZE
      /\ ToSet(t.vvTried[k]) = {x \in TriedOf(t) : GetTriedBucket[t.info[x].addr] = k}
  BY <1>a, TriedBucketOf
<1>3. /\ old \in ToSet(t.vvTried[k]) /\ old \in TriedOf(t) /\ GetTriedBucket[t.info[old].addr] = k /\ old \in D /\ t.info[old].fInTried
      /\ old # id /\ id \notin ToSet(t.vvTried[k]) /\ id \in NewOf(t) /\ id \notin TriedOf(t) /\ old \notin NewOf(t)
  <2>1. old \in ToSet(v)
    BY <1>b DEF ToSet
  <2>2. old \in TriedOf(t) /\ GetTriedBucket[t.info[old].addr] = k
    BY <2>1, <1>2, <1>b
  <2>3. QED
    BY <2>1, <2>2, <1>2, <1>a, <1>b DEF TriedOf, NewOf
<1>4. /\ v2 \in Seq(D) /\ Len(v2) = Len(v) /\ IsInjective(v2) /\ ToSet(v2) = (ToSet(t.vvTried[k]) \ {old}) \cup {id}
  <2>1. id \notin ToSet(v) /\ v \in Seq(D) /\ id \in D /\ IsInjective(v) /\ p \in 1 .. Len(v)
    BY <1>1, <1>3, <1>b
  <2> HIDE DEF D
  <2>2. /\ v2 \in Seq(D) /\ Len(v2) = Len(v)
        /\ IsInjective(v2) /\ ToSet(v2) = (ToSet(v) \ {v[p]}) \cup {id}
    BY <2>1, ReplacesOne
  <2>3. QED
    BY <2>2, <1>b DEF D
<1> HIDE DEF D, v2
<1>5. /\ IsTables(r) /\ r.info \in [D -> Entry] /\ DOMAIN r.info = D
      /\ \A x \in D : r.info[x].addr = t.info[x].addr /\ r.info[x].nRandomPos = t.info[x].nRandomPos
      /\ r.addr = t.addr /\ r.random = t.random /\ r.ids = t.ids /\ r.tried = t.tried /\ r.new = t.new
  BY <1>1, <1>d DEF Evicted
<1>6. /\ r.info[id].fInTried /\ r.info[id].nRefCount = 0
      /\ ~r.info[old].fInTried /\ r.info[old].nRefCount = 1
      /\ \A x \in D \ {id, old} : r.info[x].fInTried = t.info[x].fInTried /\ r.info[x].nRefCount = t.info[x].nRefCount
  BY <1>1, <1>d DEF Evicted
<1>7. /\ r.vvTried \in [TriedBucket -> Seq(D)] /\ r.vvTried[k] = v2
      /\ \A l \in TriedBucket \ {k} : r.vvTried[l] = t.vvTried[l]
      /\ r.vvNew \in [NewBucket -> SUBSET D] /\ r.vvNew[u] = (t.vvNew[u] \ {id}) \cup {old}
      /\ \A w \in NewBucket \ {u} : r.vvNew[w] = t.vvNew[w] \ {id}
  BY <1>1, <1>d DEF Evicted, v2
<1>8. TriedOf(r) = (TriedOf(t) \ {old}) \cup {id} /\ NewOf(r) = (NewOf(t) \ {id}) \cup {old}
  <2>1. TriedOf(r) = {x \in D : r.info[x].fInTried} /\ NewOf(r) = {x \in D : ~r.info[x].fInTried}
    BY <1>5 DEF TriedOf, NewOf
  <2>2. TriedOf(t) = {x \in D : t.info[x].fInTried} /\ NewOf(t) = {x \in D : ~t.info[x].fInTried}
    BY <1>1 DEF TriedOf, NewOf
  <2>3. \A x \in D : r.info[x].fInTried <=> x = id \/ (x # old /\ t.info[x].fInTried)
    BY <1>3, <1>6
  <2>4. \A x \in D : ~r.info[x].fInTried <=> x = old \/ (x # id /\ ~t.info[x].fInTried)
    BY <1>3, <1>6
  <2>5. TriedOf(r) = (TriedOf(t) \ {old}) \cup {id}
    BY <2>1, <2>2, <2>3, <1>1
  <2>6. QED
    BY <2>1, <2>2, <2>4, <2>5, <1>3
<1>9. r.tried = Cardinality(TriedOf(r)) /\ r.new = Cardinality(NewOf(r))
  <2>1. Cardinality(TriedOf(t) \ {old}) = Cardinality(TriedOf(t)) - 1 /\ IsFiniteSet(TriedOf(t) \ {old})
    BY <1>1, <1>3, FS_RemoveElement
  <2>2. Cardinality((TriedOf(t) \ {old}) \cup {id}) = Cardinality(TriedOf(t) \ {old}) + 1
    BY <2>1, <1>3, FS_AddElement
  <2>3. Cardinality(NewOf(t) \ {id}) = Cardinality(NewOf(t)) - 1 /\ IsFiniteSet(NewOf(t) \ {id})
    BY <1>1, <1>3, FS_RemoveElement
  <2>4. Cardinality((NewOf(t) \ {id}) \cup {old}) = Cardinality(NewOf(t) \ {id}) + 1
    BY <2>3, <1>3, FS_AddElement
  <2>5. QED
    BY <2>1, <2>2, <2>3, <2>4, <1>1, <1>5, <1>8
<1>10. Placed(r)
  <2>1. ASSUME NEW l \in TriedBucket
        PROVE  IsInjective(r.vvTried[l]) /\ ToSet(r.vvTried[l]) = {x \in TriedOf(r) : GetTriedBucket[r.info[x].addr] = l}
    <3>1. (\A x \in TriedOf(t) : r.info[x].addr = t.info[x].addr) /\ r.info[id].addr = t.info[id].addr
      BY <1>1, <1>5 DEF TriedOf
    <3>2. ToSet(t.vvTried[l]) = {x \in TriedOf(t) : GetTriedBucket[t.info[x].addr] = l} /\ IsInjective(t.vvTried[l])
      BY <1>a, TriedBucketOf
    <3>3. CASE l = k
      <4>1. r.vvTried[l] = v2
        BY <3>3, <1>7
      <4>2. GetTriedBucket[r.info[id].addr] = l
        BY <3>1, <3>3, <1>a
      <4>3. {x \in TriedOf(r) : GetTriedBucket[r.info[x].addr] = l} = ({x \in TriedOf(t) : GetTriedBucket[t.info[x].addr] = l} \ {old}) \cup {id}
        BY <4>2, <3>1, <1>8
      <4>4. QED
        BY <4>1, <4>3, <3>2, <3>3, <1>4
    <3>4. CASE l # k
      <4>1. r.vvTried[l] = t.vvTried[l]
        BY <3>4, <1>7
      <4>2. GetTriedBucket[r.info[id].addr] # l /\ GetTriedBucket[t.info[old].addr] # l
        BY <3>1, <3>4, <1>3, <1>a
      <4>3. {x \in TriedOf(r) : GetTriedBucket[r.info[x].addr] = l} = {x \in TriedOf(t) : GetTriedBucket[t.info[x].addr] = l}
        BY <4>2, <3>1, <1>8
      <4>4. QED
        BY <4>1, <4>3, <3>2
    <3>5. QED
      BY <3>3, <3>4
  <2>2. QED
    BY <2>1 DEF Placed
<1>11. Bounded(r)
  <2>1. ASSUME NEW b \in NewBucket
        PROVE  Cardinality(r.vvNew[b]) <= ADDRMAN_NEW_BUCKET_SIZE
    <3>1. /\ IsFiniteSet(t.vvNew[b] \ {id}) /\ Cardinality(t.vvNew[b] \ {id}) <= Cardinality(t.vvNew[b])
          /\ Cardinality(t.vvNew[b] \ {id}) \in Nat /\ Cardinality(t.vvNew[b]) \in Nat /\ Cardinality(t.vvNew[b]) <= ADDRMAN_NEW_BUCKET_SIZE
      BY <1>1, FS_Subset, FS_CardinalityType
    <3>2. CASE b = u
      <4> DEFINE S == t.vvNew[b] \ {id}
      <4>3. r.vvNew[b] = S \cup {old} /\ IsFiniteSet(S) /\ Cardinality(S) \in Nat
        BY <3>1, <3>2, <1>7
      <4> HIDE DEF S
      <4>4. Cardinality(S \cup {old}) = (IF old \in S THEN Cardinality(S) ELSE Cardinality(S) + 1) /\ IsFiniteSet(S \cup {old})
        BY <4>3, FS_AddElement
      <4>5. Cardinality(S \cup {old}) <= Cardinality(S) + 1 /\ Cardinality(S \cup {old}) \in Nat
        BY <4>3, <4>4, FS_CardinalityType
      <4>6. Cardinality(S) < ADDRMAN_NEW_BUCKET_SIZE
        BY <3>2, <1>c DEF S
      <4>7. QED
        BY <4>3, <4>5, <4>6, AddrManLimitsAssumption
    <3>3. CASE b # u
      <4>1. r.vvNew[b] = t.vvNew[b] \ {id}
        BY <3>3, <1>7
      <4> HIDE DEF D
      <4>2. QED
        BY <3>1, <4>1, AddrManLimitsAssumption
    <3>4. QED
      BY <3>2, <3>3
  <2>2. \A l \in TriedBucket : Len(t.vvTried[l]) <= ADDRMAN_TRIED_BUCKET_SIZE
    BY <1>a, TriedBucketOf
  <2>3. \A l \in TriedBucket : Len(r.vvTried[l]) <= ADDRMAN_TRIED_BUCKET_SIZE
    BY <2>2, <1>2, <1>4, <1>7, <1>b
  <2>4. QED
    BY <2>1, <2>3 DEF Bounded
<1>12. Base(r)
  <2>1. Moved(r, t)
    BY <1>1, <1>5, <1>7, <1>9, <1>10, <1>11 DEF Moved
  <2>2. QED
    BY <2>1, <1>1, BaseMoves
<1>13. \A x \in D : RefersRight(r, x)
  <2>1. BucketsOf(t, old) = {}
    BY <1>1, <1>3 DEF RefersRight
  <2>2. BucketsOf(r, id) = {}
    <3>1. id \notin r.vvNew[u]
      BY <1>3, <1>7
    <3>2. \A w \in NewBucket \ {u} : id \notin r.vvNew[w]
      BY <1>7
    <3>3. QED
      BY <3>1, <3>2 DEF BucketsOf
  <2>3. BucketsOf(r, old) = {u}
    BY <2>1, <1>3, <1>7, <1>c DEF BucketsOf
  <2>4. \A x \in D \ {id, old} : BucketsOf(r, x) = BucketsOf(t, x)
    BY <1>7 DEF BucketsOf
  <2>5. RefersRight(r, id)
    BY <2>2, <1>6, FS_EmptySet, AddrManLimitsAssumption DEF RefersRight
  <2>6. RefersRight(r, old)
    <3>1. Cardinality({u}) = 1 /\ {u} # {} /\ 1 <= ADDRMAN_NEW_BUCKETS_PER_ADDRESS
      <4>1. Cardinality({u}) = 1
        BY FS_Singleton, Zenon
      <4>2. QED
        BY <4>1, AddrManLimitsAssumption
    <3>2. QED
      BY <2>3, <3>1, <1>6 DEF RefersRight
  <2>7. \A x \in D \ {id, old} : RefersRight(r, x)
    BY <2>4, <1>1, <1>6 DEF RefersRight
  <2>8. QED
    BY <2>5, <2>6, <2>7
<1>14. QED
  BY <1>1, <1>3, <1>5, <1>8, <1>12, <1>13 DEF Sound, Stays

(* SelectTried reorders the tried bucket, and finds a position in it. *)
LEMMA SelectTriedReorders ==
    ASSUME NEW t, NEW id, NEW k, Tries(t, id, k),
           NEW m \in Nat \ {0}, m <= Len(t.vvTried[k]), NEW draw \in Draws(m, Len(t.vvTried[k])),
           NEW f, f = SelectTried(Outing(t, id), k, draw)
    PROVE  Reordered(f.v, f.nOldestPos, t, k)
<1> DEFINE out == Outing(t, id)
           D == DOMAIN t.info
<1>1. Sound(t) /\ id \in DOMAIN t.info /\ ~t.info[id].fInTried /\ k = GetTriedBucket[t.info[id].addr]
  BY DEF Tries
<1>2. out.vvTried = t.vvTried
  BY <1>1, OutingIs
<1>3. k \in TriedBucket
  BY <1>1, TriedBucketOf
<1>4. t.vvTried[k] \in Seq(D) /\ IsInjective(t.vvTried[k])
  BY <1>1, <1>3, TriedBucketOf
<1> HIDE DEF out, D
<1>5. /\ f.v \in Seq(D) /\ Len(f.v) = Len(out.vvTried[k]) /\ IsInjective(f.v) /\ ToSet(f.v) = ToSet(out.vvTried[k])
      /\ f.nOldestPos \in 1 .. Len(out.vvTried[k])
  <2>1. f = SelectTried(out, k, draw)
    BY DEF out
  <2>2. /\ out.vvTried[k] \in Seq(D) /\ IsInjective(out.vvTried[k])
        /\ m <= Len(out.vvTried[k]) /\ draw \in Draws(m, Len(out.vvTried[k]))
    BY <1>2, <1>4
  <2>3. QED
    BY <2>1, <2>2, SelectTriedFinds
<1>6. QED
  BY <1>2, <1>5 DEF Reordered, D

(* With a full tried bucket the entry takes the place of one that goes back. *)
LEMMA ReplacingIsSound ==
    ASSUME NEW t, NEW id, NEW k, Tries(t, id, k), NEW nOrigin \in NewBucket, id \in t.vvNew[nOrigin],
           NEW v, NEW p, Reordered(v, p, t, k),
           NEW r, r = Replacing(Evict(Ordering(Outing(t, id), k, v), v[p], nOrigin), k, p, id)
    PROVE  Sound(r) /\ Stays(r, t) /\ v[p] \in TriedOf(t) /\ TriedOf(r) = (TriedOf(t) \ {v[p]}) \cup {id}
<1> DEFINE x == Ordering(Outing(t, id), k, v)
           u == BucketBack(x, v[p], nOrigin)
           old == v[p]
<1>1. Sound(t) /\ id \in DOMAIN t.info /\ ~t.info[id].fInTried /\ k = GetTriedBucket[t.info[id].addr]
  BY DEF Tries
<1>2. v \in Seq(DOMAIN t.info) /\ p \in 1 .. Len(v) /\ ToSet(v) = ToSet(t.vvTried[k])
  BY DEF Reordered
<1>3. k \in TriedBucket
  BY <1>1, TriedBucketOf
<1>4. v[p] # id
  <2>0. p \in DOMAIN v
    BY <1>2
  <2>1. v[p] \in ToSet(t.vvTried[k])
    <3>1. v[p] \in ToSet(v)
      BY <2>0, Zenon DEF ToSet
    <3>2. QED
      BY <1>2, <3>1
  <2>2. ToSet(t.vvTried[k]) = {y \in TriedOf(t) : GetTriedBucket[t.info[y].addr] = k}
    BY <1>1, <1>3, TriedBucketOf
  <2>3. id \notin ToSet(t.vvTried[k])
    BY <2>2, <1>1 DEF TriedOf
  <2>4. QED
    BY <2>1, <2>3
<1>5. x = Ordering(Outing(t, id), k, v) /\ u = BucketBack(x, v[p], nOrigin) /\ r = Replacing(Evict(x, v[p], nOrigin), k, p, id)
  OBVIOUS
<1> HIDE DEF x, u
<1>6. Evicted(r, t, id, k, v, p, u) /\ u \in NewBucket /\ Cardinality(t.vvNew[u] \ {id}) < ADDRMAN_NEW_BUCKET_SIZE
  BY <1>1, <1>2, <1>3, <1>4, <1>5, ReplacingIs
<1>7. Exchanged(r, t, id, k, v, p, u)
  BY <1>6 DEF Exchanged
<1>8. old = v[p]
  OBVIOUS
<1> HIDE DEF old
<1>9. Sound(r) /\ Stays(r, t) /\ old \in TriedOf(t) /\ TriedOf(r) = (TriedOf(t) \ {old}) \cup {id}
  BY <1>7, <1>8, EvictedIsSound
<1>10. QED
  BY <1>8, <1>9

(* MakeTried keeps the tables sound; one entry at most is evicted for the new  *)
(* one.                                                                        *)
LEMMA MakeTriedIsSound ==
    ASSUME NEW t, Sound(t), NEW id \in DOMAIN t.info, ~t.info[id].fInTried,
           NEW nOrigin \in NewBucket, id \in t.vvNew[nOrigin], NEW r \in MakeTried(t, id, nOrigin)
    PROVE  /\ Sound(r) /\ Stays(r, t)
           /\ \/ TriedOf(r) = TriedOf(t) \cup {id}
              \/ \E old \in TriedOf(t) : TriedOf(r) = (TriedOf(t) \ {old}) \cup {id}
<1> DEFINE k == GetTriedBucket[t.info[id].addr]
           out == Outing(t, id)
           n == Len(t.vvTried[k])
           m == IF n < ADDRMAN_TRIED_ENTRIES_INSPECT_ON_EVICT THEN n ELSE ADDRMAN_TRIED_ENTRIES_INSPECT_ON_EVICT
           x(draw) == Ordering(out, k, SelectTried(out, k, draw).v)
           p(draw) == SelectTried(out, k, draw).nOldestPos
           v(draw) == SelectTried(out, k, draw).v
<1>1. n \in Nat /\ Tries(t, id, k)
  BY TriedBucketOf DEF Tries
<1>2. /\ n < ADDRMAN_TRIED_BUCKET_SIZE => r = Appending(out, k, id)
      /\ ~(n < ADDRMAN_TRIED_BUCKET_SIZE) =>
            \E draw \in Draws(m, n) : r = Replacing(Evict(x(draw), v(draw)[p(draw)], nOrigin), k, p(draw), id)
  BY Zenon DEF MakeTried, Outing, Appending, Ordering, Replacing
<1>3. n = Len(t.vvTried[k]) /\ out = Outing(t, id)
  OBVIOUS
<1>4. CASE n < ADDRMAN_TRIED_BUCKET_SIZE
  <2>1. r = Appending(out, k, id)
    BY <1>2, <1>4
  <2> HIDE DEF k, n, out
  <2>2. r = Appending(Outing(t, id), k, id) /\ Len(t.vvTried[k]) < ADDRMAN_TRIED_BUCKET_SIZE
    BY <1>3, <1>4, <2>1
  <2>3. Sound(r) /\ Stays(r, t) /\ TriedOf(r) = TriedOf(t) \cup {id}
    BY <1>1, <2>2, AppendingIsSound
  <2>4. QED
    BY <2>3
<1>5. CASE ~(n < ADDRMAN_TRIED_BUCKET_SIZE)
  <2>1. PICK draw \in Draws(m, n) : r = Replacing(Evict(x(draw), v(draw)[p(draw)], nOrigin), k, p(draw), id)
    <3> HIDE DEF x, v, p, m, n, k
    <3>1. QED
      BY <1>2, <1>5, Zenon
  <2> DEFINE f == SelectTried(out, k, draw)
             w == f.v
             q == f.nOldestPos
  <2>2. r = Replacing(Evict(Ordering(out, k, w), w[q], nOrigin), k, q, id)
    BY <2>1
  <2> HIDE DEF k, out
  <2>3. m \in Nat \ {0} /\ m <= n
    <3> HIDE DEF n
    <3>1. QED
      BY <1>1, <1>5, AddrManLimitsAssumption
  <2> HIDE DEF m, n
  <2>4. Reordered(w, q, t, k)
    <3>1. f = SelectTried(Outing(t, id), k, draw) /\ draw \in Draws(m, Len(t.vvTried[k])) /\ m <= Len(t.vvTried[k])
      BY <1>3, <2>3
    <3> HIDE DEF f
    <3>2. Reordered(f.v, f.nOldestPos, t, k)
      BY <1>1, <2>3, <3>1, SelectTriedReorders
    <3>3. QED
      BY <3>2
  <2> HIDE DEF w, q, f
  <2>5. r = Replacing(Evict(Ordering(Outing(t, id), k, w), w[q], nOrigin), k, q, id)
    BY <1>3, <2>2
  <2>6. Sound(r) /\ Stays(r, t) /\ w[q] \in TriedOf(t) /\ TriedOf(r) = (TriedOf(t) \ {w[q]}) \cup {id}
    BY <1>1, <2>4, <2>5, ReplacingIsSound
  <2>7. QED
    BY <2>6
<1>6. QED
  BY <1>4, <1>5

(* The entries are swapped one after the other. *)
LEMMA ShufflingIs ==
    ASSUME NEW draw, Len(draw) \in Nat
    PROVE  /\ Shuffling(draw)[0] = Tables
           /\ \A n \in 1 .. Len(draw) : Shuffling(draw)[n] = SwapRandom(Shuffling(draw)[n - 1], n, draw[n])
<1> DEFINE N == Len(draw)
           base == Tables
           Is(g, m) == g = [n \in 0 .. m |-> IF n = 0 THEN base ELSE SwapRandom(g[n - 1], n, draw[n])]
           f == CHOOSE g : Is(g, N)
<1>1. N \in Nat
  OBVIOUS
<1>2. Shuffling(draw) = f
  BY DEF Shuffling
<1> HIDE DEF N, base
<1>3. ASSUME NEW m \in Nat, NEW g, Is(g, m) PROVE \E e : Is(e, m + 1)
  <2> DEFINE e == [n \in 0 .. m + 1 |-> IF n = 0 THEN base ELSE SwapRandom(g[n - 1], n, draw[n])]
  <2>1. \A n \in 0 .. m : e[n] = g[n]
    BY <1>3
  <2>2. \A n \in 1 .. m + 1 : n - 1 \in 0 .. m
    OBVIOUS
  <2>3. \A n \in 0 .. m + 1 : (IF n = 0 THEN base ELSE SwapRandom(e[n - 1], n, draw[n])) = (IF n = 0 THEN base ELSE SwapRandom(g[n - 1], n, draw[n]))
    <3> HIDE DEF e
    <3>1. \A n \in 1 .. m + 1 : e[n - 1] = g[n - 1]
      BY <2>1, <2>2
    <3>2. \A n \in 0 .. m + 1 : n = 0 \/ n \in 1 .. m + 1
      OBVIOUS
    <3>3. QED
      BY <3>1, <3>2
  <2>4. e = [n \in 0 .. m + 1 |-> IF n = 0 THEN base ELSE SwapRandom(e[n - 1], n, draw[n])]
    BY <2>3, Zenon
  <2>5. QED
    BY <2>4
<1>4. \E e : Is(e, 0)
  <2> DEFINE e == [n \in 0 .. 0 |-> base]
  <2>1. e = [n \in 0 .. 0 |-> IF n = 0 THEN base ELSE SwapRandom(e[n - 1], n, draw[n])]
    OBVIOUS
  <2>2. QED
    BY <2>1
<1>5. \E g : Is(g, N)
  <2> DEFINE S == {m \in 0 .. N : \E g : Is(g, m)}
  <2>1. 0 \in S
    BY <1>1, <1>4
  <2>2. ASSUME NEW n \in 1 .. N, n - 1 \in S PROVE n \in S
    <3> DEFINE l == n - 1
    <3>1. l \in Nat /\ l + 1 = n /\ n \in 0 .. N /\ \E g : Is(g, l)
      BY <1>1, <2>2
    <3> HIDE DEF l, Is
    <3>2. \E g : Is(g, l + 1)
      BY <1>3, <3>1
    <3>3. QED
      BY <3>1, <3>2
  <2> HIDE DEF S
  <2>3. N \in 0 .. N /\ \A n \in 0 .. N : n \in S
    BY <1>1, <2>1, <2>2, Upward
  <2>4. QED
    BY <2>3 DEF S
<1>6. Is(f, N)
  BY <1>5
<1> HIDE DEF f
<1>7. f[0] = base /\ \A n \in 1 .. N : f[n] = SwapRandom(f[n - 1], n, draw[n])
  BY <1>1, <1>6
<1>8. QED
  BY <1>2, <1>7 DEF N, base

(* To have the same entries under the same ids is transitive. *)
LEMMA AlikeIsTransitive ==
    ASSUME NEW r, NEW s, NEW t, Alike(r, s), Alike(s, t)
    PROVE  Alike(r, t)
BY DEF Alike

(* Shuffling vRandom keeps everything else. *)
LEMMA ShufflingKeeps ==
    ASSUME Sound(Tables), NEW m \in Nat, m <= Len(vRandom), NEW draw \in Draws(m, Len(vRandom)),
           NEW r, r = Shuffling(draw)[Len(draw)]
    PROVE  Sound(r) /\ Alike(r, Tables)
<1> DEFINE t == Tables
           N == Len(vRandom)
           F == Shuffling(draw)
           S == {n \in 0 .. m : Base(F[n]) /\ Alike(F[n], t)}
<1>1. Len(draw) = m /\ N \in Nat /\ \A n \in 1 .. m : draw[n] \in 1 .. N /\ n \in 1 .. N
  <2>1. Len(t.random) \in Nat /\ t.random = vRandom
    BY DEF Sound, Base, Typed, Tables
  <2>2. Len(draw) = m /\ \A n \in 1 .. m : draw[n] \in 1 .. N
    BY DEF Draws
  <2>3. QED
    BY <2>1, <2>2
<1>2. F[0] = t /\ \A n \in 1 .. m : F[n] = SwapRandom(F[n - 1], n, draw[n])
  <2>1. Len(draw) \in Nat
    BY <1>1
  <2>2. F[0] = t
    BY <2>1, ShufflingIs
  <2>3. \A n \in 1 .. Len(draw) : F[n] = SwapRandom(F[n - 1], n, draw[n])
    BY <2>1, ShufflingIs
  <2>4. QED
    BY <1>1, <2>2, <2>3
<1> HIDE DEF F
<1>3. Base(t) /\ Alike(t, t) /\ \A id \in DOMAIN t.info : RefersRight(t, id)
  BY DEF Sound, Alike
<1>4. Len(t.random) = N
  BY DEF Tables
<1> HIDE DEF t, N
<1>5. 0 \in S
  BY <1>2, <1>3
<1>6. ASSUME NEW n \in 1 .. m, n - 1 \in S PROVE n \in S
  <2> DEFINE s == F[n - 1]
             x == F[n]
             q == draw[n]
  <2>1. Base(s) /\ Alike(s, t) /\ x = SwapRandom(s, n, q) /\ n \in 1 .. N /\ q \in 1 .. N
    BY <1>1, <1>2, <1>6
  <2> HIDE DEF s, x, q
  <2>2. Len(s.random) = N
    BY <2>1, <1>4 DEF Alike
  <2>3. Base(x) /\ Alike(x, s)
    BY <2>1, <2>2, SwapRandomKeeps
  <2>4. Alike(x, t)
    BY <2>1, <2>3, AlikeIsTransitive
  <2>5. n \in 0 .. m
    OBVIOUS
  <2>6. QED
    BY <2>3, <2>4, <2>5 DEF x
<1> HIDE DEF S
<1>7. \A n \in 0 .. m : n \in S
  BY <1>5, <1>6, Upward
<1>8. Base(r) /\ Alike(r, t)
  BY <1>1, <1>7 DEF S, F
<1>9. ASSUME NEW id \in DOMAIN r.info PROVE RefersRight(r, id)
  <2>1. id \in DOMAIN t.info
    BY <1>8 DEF Alike
  <2>2. QED
    BY <1>3, <1>8, <2>1, AlikeIsSound
<1>10. QED
  BY <1>8, <1>9 DEF Sound, t

-----------------------------------------------------------------------------
(* Only keeps what is in S, as often as it was there. *)
LEMMA OnlyIs ==
    ASSUME NEW D, NEW s \in Seq(D), NEW S, NEW w, w = Only(s, S)
    PROVE  w \in Seq(D) /\ ToSet(w) = ToSet(s) \cap S /\ (IsInjective(s) => IsInjective(w))
<1> DEFINE kept == {n \in DOMAIN s : s[n] \in S}
           c == Cardinality(kept)
<1>1. kept \in SUBSET Nat /\ IsFiniteSet(kept) /\ \A n \in kept : n \in DOMAIN s /\ s[n] \in S /\ s[n] \in D
  <2>1. DOMAIN s = 1 .. Len(s) /\ Len(s) \in Nat
    OBVIOUS
  <2>2. IsFiniteSet(DOMAIN s)
    BY <2>1, FS_Interval
  <2>3. IsFiniteSet(kept)
    BY <2>2, FS_Subset
  <2>4. QED
    BY <2>1, <2>3
<1>2. w = [i \in 1 .. c |-> s[At(kept, i - 1)]]
  BY DEF Only
<1> HIDE DEF kept
<1>3. c = Cardinality(kept)
  OBVIOUS
<1> HIDE DEF c
<1>4. /\ c \in Nat
      /\ \A x \in kept : Rank(kept, x) \in 0 .. c - 1 /\ At(kept, Rank(kept, x)) = x
      /\ \A n \in 0 .. c - 1 : At(kept, n) \in kept /\ Rank(kept, At(kept, n)) = n
  BY <1>1, <1>3, RankIs
<1>5. \A i \in 1 .. c : i - 1 \in 0 .. c - 1
  BY <1>4
<1>6. \A i \in 1 .. c : w[i] = s[At(kept, i - 1)] /\ At(kept, i - 1) \in kept /\ Rank(kept, At(kept, i - 1)) = i - 1
  BY <1>2, <1>4, <1>5
<1>7. w \in Seq(D) /\ DOMAIN w = 1 .. c
  <2>1. \A i \in 1 .. c : s[At(kept, i - 1)] \in D
    BY <1>1, <1>6
  <2>2. w \in [1 .. c -> D]
    BY <1>2, <2>1
  <2>3. QED
    BY <2>2, <1>4
<1>8. ToSet(w) = ToSet(s) \cap S
  <2>1. ASSUME NEW i \in 1 .. c PROVE w[i] \in ToSet(s) \cap S
    BY <1>1, <1>6 DEF ToSet
  <2>2. ASSUME NEW x \in ToSet(s) \cap S PROVE \E i \in 1 .. c : w[i] = x
    <3>1. PICK n \in DOMAIN s : s[n] = x /\ x \in S
      BY DEF ToSet
    <3>2. n \in kept
      BY <3>1 DEF kept
    <3> DEFINE i == Rank(kept, n) + 1
    <3>3. i \in 1 .. c /\ i - 1 = Rank(kept, n) /\ At(kept, Rank(kept, n)) = n
      BY <3>2, <1>4
    <3> HIDE DEF i
    <3>4. w[i] = s[n]
      BY <3>3, <1>6
    <3>5. QED
      BY <3>1, <3>3, <3>4
  <2>3. QED
    BY <2>1, <2>2, <1>7 DEF ToSet
<1>9. IsInjective(s) => IsInjective(w)
  <2> SUFFICES ASSUME IsInjective(s), NEW i \in 1 .. c, NEW j \in 1 .. c, w[i] = w[j] PROVE i = j
    BY <1>7 DEF IsInjective
  <2>1. At(kept, i - 1) = At(kept, j - 1)
    BY <1>1, <1>6 DEF IsInjective
  <2>2. i - 1 = j - 1
    BY <2>1, <1>6
  <2>3. QED
    BY <2>2, <1>4
<1>10. QED
  BY <1>7, <1>8, <1>9

(* An injective sequence is as long as it has members. *)
LEMMA LenOfInjective ==
    ASSUME NEW D, NEW s \in Seq(D), IsInjective(s)
    PROVE  IsFiniteSet(ToSet(s)) /\ Cardinality(ToSet(s)) = Len(s)
<1> DEFINE T == ToSet(s)
           I == 1 .. Len(s)
           f == [i \in I |-> s[i]]
           g == [x \in T |-> CHOOSE i \in I : s[i] = x]
<1>1. Len(s) \in Nat /\ DOMAIN s = I
  OBVIOUS
<1>2. IsFiniteSet(I) /\ Cardinality(I) = Len(s)
  BY <1>1, FS_Interval
<1>3. \A x \in T : \E i \in I : s[i] = x
  BY <1>1 DEF ToSet
<1>4. \A x \in T : g[x] \in I /\ s[g[x]] = x
  BY <1>3
<1>5. g \in Injection(T, I)
  BY <1>4 DEF Injection, IsInjective
<1>6. f \in Injection(I, T)
  <2>1. \A i \in I : s[i] \in T
    BY <1>1 DEF ToSet
  <2>2. QED
    BY <2>1, <1>1 DEF Injection, IsInjective
<1> HIDE DEF T, I, f, g
<1>7. IsFiniteSet(T) /\ Cardinality(T) <= Cardinality(I)
  BY <1>2, <1>5, FS_Injection
<1>8. Cardinality(I) <= Cardinality(T)
  BY <1>6, <1>7, FS_Injection
<1>9. QED
  BY <1>1, <1>2, <1>7, <1>8, FS_CardinalityType DEF T

(* A set has as many members as there are numbers of them. *)
LEMMA NumbersOf ==
    ASSUME NEW I, NEW D, NEW S \in Bijection(I, D),
           NEW X \in SUBSET D, IsFiniteSet(X), NEW P, P = {n \in I : S[n] \in X}
    PROVE  IsFiniteSet(P) /\ Cardinality(P) = Cardinality(X)
<1> DEFINE f == [n \in P |-> S[n]]
<1>1. S \in [I -> D] /\ IsInjective(S) /\ \A x \in D : \E n \in I : S[n] = x
  BY DEF Bijection, Injection, Surjection
<1>2. f \in Injection(P, X)
  BY <1>1 DEF Injection, IsInjective
<1>3. f \in Surjection(P, X)
  <2>1. f \in [P -> X]
    BY <1>1
  <2>2. \A x \in X : \E n \in P : f[n] = x
    BY <1>1
  <2>3. QED
    BY <2>1, <2>2 DEF Surjection
<1> HIDE DEF f
<1>4. QED
  BY <1>2, <1>3, FS_Injection, Zenon

(* The file lists the new entries, and then the tried ones. *)
LEMMA SavedIs ==
    ASSUME Sound(Tables), NEW c, c = Cardinality(News), NEW b, b = Cardinality(Trieds)
    PROVE  /\ c \in Nat /\ b \in Nat /\ News = NewOf(Tables) /\ Trieds = TriedOf(Tables)
           /\ \A n \in 0 .. c + b - 1 : /\ Saved(n) \in DOMAIN mapInfo
                                        /\ n < c => Saved(n) \in News
                                        /\ ~(n < c) => Saved(n) \in Trieds
           /\ \A n, m \in 0 .. c + b - 1 : Saved(n) = Saved(m) => n = m
           /\ \A id \in DOMAIN mapInfo : \E n \in 0 .. c + b - 1 : Saved(n) = id
           /\ \A id \in News : nIndex(id) \in 0 .. c - 1 /\ Saved(nIndex(id)) = id
           /\ c + b <= nIdCount
<1> DEFINE t == Tables
           N == c + b
<1>1. Typed(t) /\ t.info = mapInfo /\ t.ids = nIdCount /\ \A id \in DOMAIN mapInfo : RefersRight(t, id)
  BY DEF Sound, Base, Tables
<1>2. ASSUME NEW id \in DOMAIN mapInfo PROVE mapInfo[id].nRefCount # 0 <=> ~mapInfo[id].fInTried
  <2>1. RefersRight(t, id) /\ IsFiniteSet(BucketsOf(t, id))
    BY <1>1, TablesAreFinite
  <2>2. Cardinality(BucketsOf(t, id)) = 0 <=> BucketsOf(t, id) = {}
    BY <2>1, FS_EmptySet
  <2>3. QED
    BY <2>1, <2>2, <1>1 DEF RefersRight
<1>3. News = NewOf(t) /\ Trieds = TriedOf(t)
  BY <1>1, <1>2 DEF News, Trieds, NewOf, TriedOf
<1>4. /\ News \in SUBSET Nat /\ Trieds \in SUBSET Nat /\ News \cup Trieds = DOMAIN mapInfo /\ News \cap Trieds = {}
      /\ IsFiniteSet(News) /\ IsFiniteSet(Trieds)
  <2>1. News \cup Trieds = DOMAIN mapInfo /\ News \cap Trieds = {}
    BY <1>2 DEF News, Trieds
  <2>2. IsFiniteSet(News) /\ IsFiniteSet(Trieds)
    BY <1>1, <1>3, TablesAreFinite
  <2>3. \A id \in DOMAIN mapInfo : id \in Nat
    BY <1>1 DEF Typed
  <2>4. QED
    BY <2>1, <2>2, <2>3
<1> HIDE DEF t
<1>5. /\ c \in Nat
      /\ \A x \in News : Rank(News, x) \in 0 .. c - 1 /\ At(News, Rank(News, x)) = x
      /\ \A n \in 0 .. c - 1 : At(News, n) \in News /\ Rank(News, At(News, n)) = n
  BY <1>4, RankIs
<1>6. /\ b \in Nat
      /\ \A x \in Trieds : Rank(Trieds, x) \in 0 .. b - 1 /\ At(Trieds, Rank(Trieds, x)) = x
      /\ \A n \in 0 .. b - 1 : At(Trieds, n) \in Trieds /\ Rank(Trieds, At(Trieds, n)) = n
  BY <1>4, RankIs
<1>7. \A n \in Nat : n < c => Saved(n) = At(News, n)
  BY <1>5 DEF Saved
<1>8. \A n \in Nat : ~(n < c) => Saved(n) = At(Trieds, n - c)
  BY <1>5 DEF Saved
<1>9. \A n \in 0 .. N - 1 : n \in Nat /\ (n < c => n \in 0 .. c - 1) /\ (~(n < c) => n - c \in 0 .. b - 1)
  BY <1>5, <1>6
<1>10. \A n \in 0 .. N - 1 : /\ n < c => Saved(n) \in News /\ Rank(News, Saved(n)) = n
                             /\ ~(n < c) => Saved(n) \in Trieds /\ Rank(Trieds, Saved(n)) = n - c
  <2>1. ASSUME NEW n \in 0 .. N - 1, n < c PROVE Saved(n) \in News /\ Rank(News, Saved(n)) = n
    BY <2>1, <1>5, <1>7, <1>9
  <2>2. ASSUME NEW n \in 0 .. N - 1, ~(n < c) PROVE Saved(n) \in Trieds /\ Rank(Trieds, Saved(n)) = n - c
    <3> DEFINE l == n - c
    <3>1. n \in Nat /\ l \in 0 .. b - 1
      BY <2>2, <1>9
    <3>2. Saved(n) = At(Trieds, l)
      BY <2>2, <3>1, <1>8
    <3> HIDE DEF l
    <3>3. Saved(n) \in Trieds /\ Rank(Trieds, Saved(n)) = l
      BY <3>1, <3>2, <1>6
    <3>4. QED
      BY <3>3 DEF l
  <2>3. QED
    BY <2>1, <2>2
<1>11. \A n \in 0 .. N - 1 : Saved(n) \in DOMAIN mapInfo
  BY <1>4, <1>10
<1>12. ASSUME NEW n \in 0 .. N - 1, NEW m \in 0 .. N - 1, Saved(n) = Saved(m) PROVE n = m
  <2>1. n < c <=> m < c
    BY <1>4, <1>10, <1>12
  <2>2. CASE n < c
    BY <2>1, <2>2, <1>10, <1>12
  <2>3. CASE ~(n < c)
    <3>1. n - c = m - c
      BY <2>1, <2>3, <1>10, <1>12
    <3>2. n \in Nat /\ m \in Nat
      BY <1>9
    <3>3. QED
      BY <3>1, <3>2, <1>5
  <2>4. QED
    BY <2>2, <2>3
<1>13. ASSUME NEW id \in News PROVE nIndex(id) \in 0 .. c - 1 /\ Saved(nIndex(id)) = id
  <2>1. nIndex(id) \in 0 .. c - 1 /\ At(News, nIndex(id)) = id
    BY <1>5 DEF nIndex
  <2>2. nIndex(id) \in Nat /\ nIndex(id) < c
    BY <2>1, <1>5
  <2>3. QED
    BY <2>1, <2>2, <1>7
<1>14. ASSUME NEW id \in Trieds PROVE \E n \in 0 .. N - 1 : Saved(n) = id
  <2> DEFINE l == Rank(Trieds, id)
             n == c + l
  <2>1. l \in 0 .. b - 1 /\ At(Trieds, l) = id
    BY <1>6
  <2> HIDE DEF l
  <2>2. n \in 0 .. N - 1 /\ n \in Nat /\ ~(n < c) /\ n - c = l
    BY <2>1, <1>5, <1>6
  <2>3. QED
    BY <2>1, <2>2, <1>8
<1>15. \A id \in DOMAIN mapInfo : \E n \in 0 .. N - 1 : Saved(n) = id
  <2>1. \A n \in 0 .. c - 1 : n \in 0 .. N - 1
    BY <1>5, <1>6
  <2>2. QED
    BY <2>1, <1>4, <1>13, <1>14
<1>16. N <= nIdCount
  <2>1. Cardinality(News \cup Trieds) = Cardinality(News) + Cardinality(Trieds) - Cardinality(News \cap Trieds)
    BY <1>4, FS_Union
  <2>2. Cardinality(News \cap Trieds) = 0
    BY <1>4, FS_EmptySet
  <2>3. Cardinality(DOMAIN mapInfo) <= nIdCount
    BY <1>1, TablesAreFinite
  <2>4. QED
    BY <2>1, <2>2, <2>3, <1>4, <1>5, <1>6
<1>17. QED
  BY <1>3, <1>5, <1>6, <1>10, <1>11, <1>12, <1>13, <1>15, <1>16 DEF t

TriedAddrs(t) == {t.info[x].addr : x \in TriedOf(t)}

(* Tables that have the entries of t under the numbers from 0 to N - 1; S says *)
(* which.                                                                      *)
Renumbered(r, t, N, S) ==
    LET I == 0 .. N - 1 IN
    /\ IsTables(r) /\ r.info \in [I -> Entry]
    /\ \A n \in I : /\ r.info[n].addr = t.info[S[n]].addr /\ r.info[n].fInTried = t.info[S[n]].fInTried
                    /\ r.info[n].nRandomPos = n + 1 /\ r.info[n].nRefCount = Cardinality(BucketsOf(r, n))
    /\ DOMAIN r.addr = DOMAIN t.addr /\ r.addr = [a \in DOMAIN r.addr |-> r.addr[a]]
    /\ \A a \in DOMAIN t.addr : r.addr[a] \in I /\ S[r.addr[a]] = t.addr[a]
    /\ r.random \in Seq(I) /\ Len(r.random) = N /\ \A p \in 1 .. N : r.random[p] = p - 1
    /\ r.tried = t.tried /\ r.new = t.new /\ r.ids = N
    /\ r.vvNew \in [NewBucket -> SUBSET I] /\ \A u \in NewBucket : r.vvNew[u] = {n \in I : S[n] \in t.vvNew[u]}
    /\ r.vvTried \in [TriedBucket -> Seq(I)]
    /\ \A k \in TriedBucket : IsInjective(r.vvTried[k]) /\ ToSet(r.vvTried[k]) = {n \in I : S[n] \in ToSet(t.vvTried[k])}

(* Sound tables that are numbered anew are sound. *)
LEMMA RenumberedIsSound ==
    ASSUME NEW t, Sound(t), NEW N \in Nat, NEW S \in Bijection(0 .. N - 1, DOMAIN t.info), NEW r, Renumbered(r, t, N, S)
    PROVE  /\ Sound(r)
           /\ TriedAddrs(r) = TriedAddrs(t)
           /\ \A n \in 0 .. N - 1 : BucketsOf(r, n) = BucketsOf(t, S[n])
<1> DEFINE I == 0 .. N - 1
           D == DOMAIN t.info
<1>1. Base(t) /\ Typed(t) /\ \A x \in D : RefersRight(t, x)
  BY DEF Sound, Base
<1>2. /\ IsTables(r) /\ r.info \in [I -> Entry] /\ DOMAIN r.info = I
      /\ \A n \in I : /\ r.info[n].addr = t.info[S[n]].addr /\ r.info[n].fInTried = t.info[S[n]].fInTried
                      /\ r.info[n].nRandomPos = n + 1 /\ r.info[n].nRefCount = Cardinality(BucketsOf(r, n))
      /\ DOMAIN r.addr = DOMAIN t.addr /\ r.addr = [a \in DOMAIN r.addr |-> r.addr[a]]
      /\ \A a \in DOMAIN t.addr : r.addr[a] \in I /\ S[r.addr[a]] = t.addr[a]
  BY DEF Renumbered
<1>3. /\ r.random \in Seq(I) /\ Len(r.random) = N /\ \A p \in 1 .. N : r.random[p] = p - 1
      /\ r.tried = t.tried /\ r.new = t.new /\ r.ids = N
      /\ r.vvNew \in [NewBucket -> SUBSET I] /\ \A u \in NewBucket : r.vvNew[u] = {n \in I : S[n] \in t.vvNew[u]}
      /\ r.vvTried \in [TriedBucket -> Seq(I)]
      /\ \A k \in TriedBucket : IsInjective(r.vvTried[k]) /\ ToSet(r.vvTried[k]) = {n \in I : S[n] \in ToSet(t.vvTried[k])}
  BY DEF Renumbered
<1>4. /\ S \in Bijection(I, D) /\ S \in [I -> D] /\ IsInjective(S) /\ \A x \in D : \E n \in I : S[n] = x
      /\ \A n, m \in I : S[n] = S[m] => n = m
  BY DEF Bijection, Injection, Surjection, IsInjective
<1>5. ASSUME NEW X \in SUBSET D
      PROVE  Cardinality({n \in I : S[n] \in X}) = Cardinality(X)
  <2>1. IsFiniteSet(X) /\ X \in SUBSET D
    BY <1>1, TablesAreFinite, FS_Subset
  <2> HIDE DEF I, D
  <2> DEFINE P == {n \in I : S[n] \in X}
  <2>2. P = {n \in I : S[n] \in X}
    OBVIOUS
  <2> HIDE DEF P
  <2>3. Cardinality(P) = Cardinality(X)
    BY <1>4, <2>1, <2>2, NumbersOf
  <2>4. QED
    BY <2>2, <2>3
<1>6. ASSUME NEW n \in I PROVE BucketsOf(r, n) = BucketsOf(t, S[n])
  BY <1>3 DEF BucketsOf
<1>7. TriedOf(r) = {n \in I : S[n] \in TriedOf(t)} /\ NewOf(r) = {n \in I : S[n] \in NewOf(t)}
  BY <1>2, <1>4 DEF TriedOf, NewOf
<1>8. /\ IsTables(t) /\ t.tried \in Nat /\ t.new \in Nat /\ DOMAIN t.addr \subseteq NetAddr
      /\ t.vvNew \in [NewBucket -> SUBSET D] /\ t.vvTried \in [TriedBucket -> Seq(D)]
  BY <1>1 DEF Typed
<1>9. Typed(r)
  <2>1. \A n \in I : n \in Nat /\ n < N
    OBVIOUS
  <2>2. r.info \in [DOMAIN r.info -> Entry] /\ \A n \in DOMAIN r.info : n \in Nat /\ n < r.ids
    BY <2>1, <1>2, <1>3
  <2> HIDE DEF I
  <2>3. QED
    BY <2>2, <1>2, <1>3, <1>8 DEF Typed
<1>10. Indexed(t)
  BY <1>1 DEF Base
<1>11. Indexed(r)
  <2>1. ASSUME NEW a \in DOMAIN t.addr PROVE r.addr[a] \in I /\ r.info[r.addr[a]].addr = a
    <3>1. t.info[t.addr[a]].addr = a
      BY <1>10 DEF Indexed
    <3>2. QED
      BY <3>1, <1>2
  <2>2. ASSUME NEW n \in I PROVE r.info[n].addr \in DOMAIN t.addr /\ r.addr[r.info[n].addr] = n
    <3>1. S[n] \in D
      BY <1>4
    <3>2. t.info[S[n]].addr \in DOMAIN t.addr /\ t.addr[t.info[S[n]].addr] = S[n]
      BY <3>1, <1>10 DEF Indexed
    <3>3. r.info[n].addr = t.info[S[n]].addr
      BY <1>2
    <3> DEFINE a == r.info[n].addr
    <3>4. a \in DOMAIN t.addr /\ t.addr[a] = S[n]
      BY <3>2, <3>3
    <3> HIDE DEF a
    <3>5. r.addr[a] \in I /\ S[r.addr[a]] = S[n]
      BY <3>4, <1>2
    <3>6. r.addr[a] = n
      BY <3>5, <1>4
    <3>7. QED
      BY <3>4, <3>6 DEF a
  <2>3. ASSUME NEW n \in I PROVE r.info[n].nRandomPos \in 1 .. N /\ r.random[r.info[n].nRandomPos] = n
    <3>1. n + 1 \in 1 .. N /\ n + 1 - 1 = n /\ r.info[n].nRandomPos = n + 1
      BY <1>2
    <3>2. QED
      BY <3>1, <1>3
  <2>4. ASSUME NEW p \in 1 .. N PROVE r.info[r.random[p]].nRandomPos = p
    <3>1. r.random[p] = p - 1 /\ p - 1 \in I /\ p - 1 + 1 = p
      BY <1>3
    <3>2. QED
      BY <3>1, <1>2
  <2>5. QED
    BY <2>1, <2>2, <2>3, <2>4, <1>2, <1>3 DEF Indexed
<1>12. CountsAgree(r)
  <2>1. TriedOf(t) \in SUBSET D /\ NewOf(t) \in SUBSET D
    BY DEF TriedOf, NewOf
  <2>2. Cardinality(TriedOf(r)) = Cardinality(TriedOf(t)) /\ Cardinality(NewOf(r)) = Cardinality(NewOf(t))
    BY <2>1, <1>5, <1>7
  <2>3. QED
    BY <2>2, <1>1, <1>3 DEF Base, CountsAgree
<1>13. ASSUME NEW k \in TriedBucket
       PROVE  /\ t.vvTried[k] \in Seq(D) /\ IsInjective(t.vvTried[k]) /\ Len(t.vvTried[k]) <= ADDRMAN_TRIED_BUCKET_SIZE
              /\ ToSet(t.vvTried[k]) = {x \in TriedOf(t) : GetTriedBucket[t.info[x].addr] = k}
  BY <1>1, <1>8 DEF Base, Placed, Bounded
<1>14. Placed(r)
  <2>1. ASSUME NEW k \in TriedBucket
        PROVE  ToSet(r.vvTried[k]) = {n \in TriedOf(r) : GetTriedBucket[r.info[n].addr] = k}
    <3>1. ToSet(r.vvTried[k]) = {n \in I : S[n] \in TriedOf(t) /\ GetTriedBucket[t.info[S[n]].addr] = k}
      BY <1>3, <1>13
    <3>2. QED
      BY <3>1, <1>2, <1>7
  <2>2. QED
    BY <2>1, <1>3 DEF Placed
<1>15. Bounded(r)
  <2>1. ASSUME NEW u \in NewBucket PROVE Cardinality(r.vvNew[u]) <= ADDRMAN_NEW_BUCKET_SIZE
    <3>1. t.vvNew[u] \in SUBSET D
      BY <1>8
    <3>2. Cardinality(r.vvNew[u]) = Cardinality(t.vvNew[u])
      BY <3>1, <1>3, <1>5
    <3>3. QED
      BY <3>2, <1>1 DEF Base, Bounded
  <2>2. ASSUME NEW k \in TriedBucket PROVE Len(r.vvTried[k]) <= ADDRMAN_TRIED_BUCKET_SIZE
    <3>1. r.vvTried[k] \in Seq(I) /\ IsInjective(r.vvTried[k])
      BY <1>3
    <3>2. ToSet(t.vvTried[k]) \in SUBSET D
      BY <1>13 DEF TriedOf
    <3>3. Cardinality(ToSet(r.vvTried[k])) = Cardinality(ToSet(t.vvTried[k]))
      BY <3>2, <1>3, <1>5
    <3> HIDE DEF I, D
    <3>4. Len(r.vvTried[k]) = Cardinality(ToSet(r.vvTried[k]))
      BY <3>1, LenOfInjective
    <3>5. Len(t.vvTried[k]) = Cardinality(ToSet(t.vvTried[k]))
      BY <1>13, LenOfInjective
    <3>6. QED
      BY <3>3, <3>4, <3>5, <1>13
  <2>3. QED
    BY <2>1, <2>2 DEF Bounded
<1>16. ASSUME NEW n \in I PROVE RefersRight(r, n)
  <2>1. RefersRight(t, S[n]) /\ BucketsOf(r, n) = BucketsOf(t, S[n])
    BY <1>1, <1>4, <1>6
  <2>2. QED
    BY <2>1, <1>2 DEF RefersRight
<1>17. TriedAddrs(r) = TriedAddrs(t)
  <2>1. ASSUME NEW n \in TriedOf(r) PROVE S[n] \in TriedOf(t) /\ r.info[n].addr = t.info[S[n]].addr
    BY <1>2, <1>7
  <2>2. ASSUME NEW x \in TriedOf(t) PROVE \E n \in TriedOf(r) : r.info[n].addr = t.info[x].addr
    <3>1. x \in D
      BY DEF TriedOf
    <3>2. PICK n \in I : S[n] = x
      BY <3>1, <1>4
    <3>3. QED
      BY <3>2, <1>2, <1>7
  <2>3. QED
    BY <2>1, <2>2 DEF TriedAddrs
<1>18. QED
  BY <1>2, <1>6, <1>9, <1>11, <1>12, <1>14, <1>15, <1>16, <1>17 DEF Sound, Base

(* an entry that was read again *)
Relocated(e, p, q) == [e EXCEPT !.nRandomPos = p, !.nRefCount = q]

(* A saved entry is the same but for its position and its count. *)
LEMMA RelocatedIs ==
    ASSUME NEW e \in Entry, NEW p \in Nat, NEW q \in Nat, NEW f, f = Relocated(e, p, q)
    PROVE  /\ f \in Entry /\ f.addr = e.addr /\ f.source = e.source /\ f.fInTried = e.fInTried
           /\ f.nRandomPos = p /\ f.nRefCount = q
<1>1. ASSUME NEW a, NEW s, NEW c, NEW d, NEW g
      PROVE  Relocated([addr |-> a, source |-> s, nRefCount |-> c, fInTried |-> d, nRandomPos |-> g], p, q)
             = [addr |-> a, source |-> s, nRefCount |-> q, fInTried |-> d, nRandomPos |-> p]
  <2> DEFINE x == [addr |-> a, source |-> s, nRefCount |-> c, fInTried |-> d, nRandomPos |-> g]
             y == [addr |-> a, source |-> s, nRefCount |-> c, fInTried |-> d, nRandomPos |-> p]
  <2>1. [x EXCEPT !.nRandomPos = p] = y
    OBVIOUS
  <2>2. [y EXCEPT !.nRefCount = q] = [addr |-> a, source |-> s, nRefCount |-> q, fInTried |-> d, nRandomPos |-> p]
    OBVIOUS
  <2> HIDE DEF x, y
  <2>3. Relocated(x, p, q) = [[x EXCEPT !.nRandomPos = p] EXCEPT !.nRefCount = q]
    BY DEF Relocated
  <2>4. QED
    BY <2>1, <2>2, <2>3 DEF x
<1>2. f = [addr |-> e.addr, source |-> e.source, nRefCount |-> q, fInTried |-> e.fInTried, nRandomPos |-> p]
  <2>1. Relocated([addr |-> e.addr, source |-> e.source, nRefCount |-> e.nRefCount, fInTried |-> e.fInTried, nRandomPos |-> e.nRandomPos], p, q)
        = [addr |-> e.addr, source |-> e.source, nRefCount |-> q, fInTried |-> e.fInTried, nRandomPos |-> p]
    BY <1>1
  <2>2. QED
    BY <2>1, EntryFields
<1>3. QED
  BY <1>2, EntryFields DEF Entry

(* Saving and loading numbers the entries anew. *)
LEMMA ReloadRenumbers ==
    ASSUME Sound(Tables), Reload
    PROVE  \E N \in Nat : \E S \in Bijection(0 .. N - 1, DOMAIN mapInfo) :
              Renumbered(Tables', Tables, N, S) /\ N <= nIdCount
<1> DEFINE t == Tables
           r == Tables'
           c == Cardinality(News)
           b == Cardinality(Trieds)
           N == c + b
           I == 0 .. N - 1
           S == [n \in I |-> Saved(n)]
           D == DOMAIN mapInfo
           tried == [n \in 1 .. b |-> c + n - 1]
           bucket(k) == {n \in ToSet(tried) : GetTriedBucket[mapInfo[Saved(n)].addr] = k}
           buckets == [u \in NewBucket |-> {nIndex(id) : id \in vvNew[u]}]
           found(n) == {u \in NewBucket : n \in buckets[u]}
<1>1. /\ t.info = mapInfo /\ t.addr = mapAddr /\ t.random = vRandom /\ t.tried = nTried /\ t.new = nNew
      /\ t.vvTried = vvTried /\ t.vvNew = vvNew /\ t.ids = nIdCount
  BY DEF Tables
<1>2. /\ r.info = mapInfo' /\ r.addr = mapAddr' /\ r.random = vRandom' /\ r.tried = nTried' /\ r.new = nNew'
      /\ r.vvTried = vvTried' /\ r.vvNew = vvNew' /\ r.ids = nIdCount' /\ IsTables(r)
  BY DEF Tables, IsTables, TablesOf
<1>3. /\ mapInfo' = [n \in I |-> Relocated(mapInfo[Saved(n)], n + 1, Cardinality(found(n)))]
      /\ mapAddr' = [a \in DOMAIN mapAddr |-> CHOOSE n \in I : Saved(n) = mapAddr[a]]
      /\ vRandom' = [n \in 1 .. N |-> n - 1]
      /\ vvTried' = [k \in TriedBucket |-> Only(tried, bucket(k))]
      /\ vvNew' = buckets
      /\ nIdCount' = N
      /\ nTried' = nTried /\ nNew' = nNew
  BY Zenon DEF Reload, Relocated
<1>4. /\ c \in Nat /\ b \in Nat /\ News = NewOf(t) /\ Trieds = TriedOf(t)
      /\ \A n \in I : /\ Saved(n) \in D
                      /\ n < c => Saved(n) \in News
                      /\ ~(n < c) => Saved(n) \in Trieds
      /\ \A n, m \in I : Saved(n) = Saved(m) => n = m
      /\ \A id \in D : \E n \in I : Saved(n) = id
      /\ \A id \in News : nIndex(id) \in 0 .. c - 1 /\ Saved(nIndex(id)) = id
      /\ N <= nIdCount
  BY SavedIs
<1>5. /\ Typed(t) /\ Indexed(t) /\ mapInfo \in [D -> Entry] /\ vvNew \in [NewBucket -> SUBSET D]
      /\ \A id \in D : RefersRight(t, id)
      /\ \A k \in TriedBucket : ToSet(vvTried[k]) = {x \in TriedOf(t) : GetTriedBucket[mapInfo[x].addr] = k}
  BY <1>1 DEF Sound, Base, Typed, Placed
<1>6. N \in Nat /\ S \in Bijection(I, D)
  <2>1. S \in [I -> D]
    BY <1>4
  <2>2. IsInjective(S)
    BY <1>4 DEF IsInjective
  <2>3. \A x \in D : \E n \in I : S[n] = x
    BY <1>4
  <2>4. QED
    BY <2>1, <2>2, <2>3, <1>4 DEF Bijection, Injection, Surjection
<1>7. \A n \in I : S[n] = Saved(n) /\ n \in Nat
  BY <1>4
<1>8. \A n \in 0 .. c - 1 : n \in I
  BY <1>4
<1> HIDE DEF t, r, c, b, S
<1>9. \A u \in NewBucket : \A id \in vvNew[u] : id \in D /\ id \in News
  <2>1. ASSUME NEW u \in NewBucket, NEW id \in vvNew[u] PROVE id \in D /\ id \in News
    <3>1. id \in D /\ u \in BucketsOf(t, id)
      BY <1>1, <1>5 DEF BucketsOf
    <3>2. ~mapInfo[id].fInTried
      BY <3>1, <1>1, <1>5 DEF RefersRight
    <3>3. QED
      BY <3>1, <3>2, <1>1, <1>4 DEF NewOf
  <2>2. QED
    BY <2>1
<1> HIDE DEF I
<1>10. \A u \in NewBucket : buckets[u] = {n \in I : Saved(n) \in vvNew[u]}
  <2>1. ASSUME NEW u \in NewBucket, NEW id \in vvNew[u] PROVE nIndex(id) \in I /\ Saved(nIndex(id)) \in vvNew[u]
    BY <1>4, <1>8, <1>9
  <2>2. ASSUME NEW u \in NewBucket, NEW n \in I, Saved(n) \in vvNew[u] PROVE n = nIndex(Saved(n))
    <3>1. Saved(n) \in News
      BY <2>2, <1>9
    <3>2. nIndex(Saved(n)) \in I /\ Saved(nIndex(Saved(n))) = Saved(n)
      BY <3>1, <1>4, <1>8
    <3>3. QED
      BY <3>2, <1>4
  <2>3. QED
    BY <2>1, <2>2
<1> HIDE DEF buckets
<1>11. \A n \in I : found(n) = BucketsOf(r, n) /\ Cardinality(found(n)) \in Nat
  <2>1. ASSUME NEW n \in I PROVE found(n) = BucketsOf(r, n)
    BY <1>2, <1>3 DEF BucketsOf
  <2>2. ASSUME NEW n \in I PROVE found(n) \in SUBSET NewBucket
    OBVIOUS
  <2> HIDE DEF found
  <2>3. ASSUME NEW n \in I PROVE Cardinality(found(n)) \in Nat
    BY <2>2, BucketsAssumption, FS_Subset, FS_CardinalityType
  <2>4. QED
    BY <2>1, <2>3
<1> HIDE DEF found
<1>12. ASSUME NEW n \in I
       PROVE  /\ r.info[n] \in Entry
              /\ r.info[n].addr = mapInfo[S[n]].addr /\ r.info[n].fInTried = mapInfo[S[n]].fInTried
              /\ r.info[n].nRandomPos = n + 1 /\ r.info[n].nRefCount = Cardinality(BucketsOf(r, n))
  <2> DEFINE e == mapInfo[Saved(n)]
             f == r.info[n]
             q == Cardinality(found(n))
             p == n + 1
  <2>1. e \in Entry /\ p \in Nat /\ q \in Nat
    BY <1>4, <1>5, <1>7, <1>11
  <2>2. f = Relocated(e, p, q)
    BY <1>2, <1>3
  <2> HIDE DEF e, f, p, q
  <2>3. f \in Entry /\ f.addr = e.addr /\ f.fInTried = e.fInTried /\ f.nRandomPos = p /\ f.nRefCount = q
    BY <2>1, <2>2, RelocatedIs
  <2>4. QED
    BY <2>3, <1>7, <1>11 DEF e, f, p, q
<1>13. r.info \in [I -> Entry]
  BY <1>2, <1>3, <1>12
<1>14. /\ DOMAIN r.addr = DOMAIN mapAddr /\ r.addr = [a \in DOMAIN r.addr |-> r.addr[a]]
       /\ \A a \in DOMAIN mapAddr : r.addr[a] \in I /\ S[r.addr[a]] = mapAddr[a]
  <2>1. r.addr = [a \in DOMAIN mapAddr |-> CHOOSE n \in I : Saved(n) = mapAddr[a]]
    BY <1>2, <1>3
  <2>2. \A a \in DOMAIN mapAddr : mapAddr[a] \in D
    BY <1>1, <1>5 DEF Indexed
  <2>3. \A a \in DOMAIN mapAddr : \E n \in I : Saved(n) = mapAddr[a]
    BY <2>2, <1>4
  <2>4. ASSUME NEW a \in DOMAIN mapAddr PROVE r.addr[a] \in I /\ Saved(r.addr[a]) = mapAddr[a]
    BY <2>1, <2>3
  <2>5. QED
    BY <2>1, <2>4, <1>7
<1>15. r.random \in Seq(I) /\ Len(r.random) = N /\ \A p \in 1 .. N : r.random[p] = p - 1
  <2>1. r.random = [p \in 1 .. N |-> p - 1]
    BY <1>2, <1>3
  <2>2. \A p \in 1 .. N : p - 1 \in I
    BY <1>6 DEF I
  <2> HIDE DEF N
  <2>3. r.random \in [1 .. N -> I]
    BY <2>1, <2>2
  <2>4. QED
    BY <2>1, <2>3, <1>6
<1>16. tried \in Seq(I) /\ IsInjective(tried) /\ ToSet(tried) = {n \in I : ~(n < c)}
  <2>1. ASSUME NEW p \in 1 .. b PROVE c + p - 1 \in I /\ ~(c + p - 1 < c) /\ p = c + p - 1 - c + 1
    BY <1>4 DEF I
  <2>2. ASSUME NEW n \in I, ~(n < c) PROVE n - c + 1 \in 1 .. b /\ n = c + (n - c + 1) - 1
    BY <2>2, <1>4, <1>7 DEF I
  <2>3. tried \in [1 .. b -> I] /\ DOMAIN tried = 1 .. b /\ \A p \in 1 .. b : tried[p] = c + p - 1
    BY <2>1
  <2>4. tried \in Seq(I)
    BY <2>3, <1>4
  <2> HIDE DEF tried
  <2>5. IsInjective(tried)
    <3>1. ASSUME NEW p \in 1 .. b, NEW q \in 1 .. b, tried[p] = tried[q] PROVE p = q
      <4>1. c + p - 1 = c + q - 1
        BY <2>3, <3>1
      <4>2. QED
        BY <4>1, <1>4
    <3>2. QED
      BY <3>1, <2>3 DEF IsInjective
  <2>6. ToSet(tried) = {n \in I : ~(n < c)}
    BY <2>1, <2>2, <2>3 DEF ToSet
  <2>7. QED
    BY <2>4, <2>5, <2>6
<1> HIDE DEF tried, N
<1>17. ASSUME NEW k \in TriedBucket
       PROVE  r.vvTried[k] \in Seq(I) /\ IsInjective(r.vvTried[k]) /\ ToSet(r.vvTried[k]) = {n \in I : S[n] \in ToSet(vvTried[k])}
  <2> DEFINE w == r.vvTried[k]
             B == bucket(k)
  <2>1. w = Only(tried, B)
    BY <1>2, <1>3
  <2>2. B = {n \in I : ~(n < c) /\ GetTriedBucket[mapInfo[Saved(n)].addr] = k} /\ B \subseteq ToSet(tried)
    BY <1>16
  <2>3. B = {n \in I : S[n] \in ToSet(vvTried[k])}
    <3>1. ASSUME NEW n \in I PROVE ~(n < c) <=> Saved(n) \in TriedOf(t)
      <4>1. \A x : ~(x \in NewOf(t) /\ x \in TriedOf(t))
        BY DEF NewOf, TriedOf
      <4>2. QED
        BY <4>1, <1>4
    <3>2. QED
      BY <2>2, <3>1, <1>5, <1>7
  <2> HIDE DEF w, B
  <2>4. w \in Seq(I) /\ ToSet(w) = ToSet(tried) \cap B /\ IsInjective(w)
    BY <2>1, <1>16, OnlyIs
  <2>5. QED
    BY <2>2, <2>3, <2>4 DEF w
<1>18. r.vvTried \in [TriedBucket -> Seq(I)]
  BY <1>2, <1>3, <1>17
<1>19. r.vvNew \in [NewBucket -> SUBSET I] /\ \A u \in NewBucket : r.vvNew[u] = {n \in I : S[n] \in vvNew[u]}
  <2>1. ASSUME NEW u \in NewBucket PROVE r.vvNew[u] = {n \in I : S[n] \in vvNew[u]} /\ r.vvNew[u] \subseteq I
    BY <1>2, <1>3, <1>7, <1>10
  <2>2. DOMAIN r.vvNew = NewBucket /\ r.vvNew = [u \in NewBucket |-> r.vvNew[u]]
    BY <1>2, <1>3 DEF buckets
  <2>3. QED
    BY <2>1, <2>2
<1>20. Renumbered(r, t, N, S)
  BY <1>1, <1>2, <1>3, <1>12, <1>13, <1>14, <1>15, <1>17, <1>18, <1>19 DEF Renumbered, I
<1>21. QED
  BY <1>4, <1>6, <1>20 DEF I, t, r

-----------------------------------------------------------------------------
(* The invariant *)

(* The tables are sound, and success has the address of each tried entry once. *)
AddrManInv ==
    /\ Sound(Tables) /\ nIdCount <= MaxId
    /\ success \in Seq(NetAddr) /\ IsInjective(success) /\ ToSet(success) = TriedAddrs(Tables)

(* The addresses of the tried entries are as many as these, and mapAddr tells which they are. *)
LEMMA TriedAddrsAre ==
    ASSUME NEW t, Sound(t)
    PROVE  /\ IsFiniteSet(TriedAddrs(t)) /\ Cardinality(TriedAddrs(t)) = Cardinality(TriedOf(t))
           /\ TriedAddrs(t) \subseteq DOMAIN t.addr /\ TriedAddrs(t) \subseteq NetAddr
           /\ TriedAddrs(t) = {a \in DOMAIN t.addr : t.info[t.addr[a]].fInTried}
           /\ \A x \in DOMAIN t.info : x \in TriedOf(t) <=> t.info[x].addr \in TriedAddrs(t)
<1> DEFINE T == TriedOf(t)
           A == TriedAddrs(t)
           f == [x \in T |-> t.info[x].addr]
           g == [a \in A |-> t.addr[a]]
<1>1. Base(t) /\ IsFiniteSet(T) /\ DOMAIN t.addr \subseteq NetAddr
  BY TablesAreFinite DEF Sound, Base, Typed
<1>2. \A x \in DOMAIN t.info : t.info[x].addr \in DOMAIN t.addr /\ t.addr[t.info[x].addr] = x
  BY <1>1 DEF Base, Indexed
<1>3. \A a \in DOMAIN t.addr : t.addr[a] \in DOMAIN t.info /\ t.info[t.addr[a]].addr = a
  BY <1>1 DEF Base, Indexed
<1>4. T \subseteq DOMAIN t.info /\ \A x \in T : t.info[x].fInTried
  BY DEF TriedOf
<1>5. \A x \in T : f[x] = t.info[x].addr /\ f[x] \in A /\ t.addr[f[x]] = x
  BY <1>2, <1>4 DEF TriedAddrs
<1>6. \A a \in A : \E x \in T : f[x] = a
  BY DEF TriedAddrs
<1>7. f \in Injection(T, A)
  <2>1. f \in [T -> A]
    BY <1>5
  <2> HIDE DEF f
  <2>2. IsInjective(f)
    BY <2>1, <1>5 DEF IsInjective
  <2>3. QED
    BY <2>1, <2>2 DEF Injection
<1>8. f \in Surjection(T, A)
  BY <1>6, <1>7 DEF Surjection, Injection
<1>9. g \in Injection(A, T)
  <2>1. \A a \in A : g[a] \in T /\ \E x \in T : a = t.info[x].addr /\ g[a] = x
    BY <1>5, <1>6
  <2>2. g \in [A -> T]
    BY <2>1
  <2>3. \A a, b \in A : g[a] = g[b] => a = b
    BY <2>1
  <2> HIDE DEF g
  <2>4. QED
    BY <2>2, <2>3 DEF Injection, IsInjective
<1> HIDE DEF f, g
<1>10. IsFiniteSet(A)
  BY <1>1, <1>9, FS_Injection
<1>11. Cardinality(T) = Cardinality(A)
  BY <1>7, <1>8, <1>10, FS_Injection, Zenon
<1>12. A = {a \in DOMAIN t.addr : t.info[t.addr[a]].fInTried}
  <2>1. ASSUME NEW a \in A PROVE a \in DOMAIN t.addr /\ t.info[t.addr[a]].fInTried
    <3>1. PICK x \in T : a = t.info[x].addr
      BY DEF TriedAddrs
    <3>2. QED
      BY <3>1, <1>2, <1>4
  <2>2. ASSUME NEW a \in DOMAIN t.addr, t.info[t.addr[a]].fInTried PROVE a \in A
    <3>1. t.addr[a] \in T
      BY <2>2, <1>3 DEF TriedOf
    <3>2. QED
      BY <3>1, <1>3 DEF TriedAddrs
  <2>3. QED
    BY <2>1, <2>2
<1>13. \A x \in DOMAIN t.info : x \in T <=> t.info[x].addr \in A
  BY <1>2, <1>12 DEF TriedOf
<1>14. QED
  BY <1>1, <1>10, <1>11, <1>12, <1>13

(* The invariant is what Check_ tests, and more. *)
LEMMA InvImpliesCheck ==
    ASSUME AddrManInv
    PROVE  Check_
<1> DEFINE t == Tables
<1>1. /\ t.info = mapInfo /\ t.addr = mapAddr /\ t.random = vRandom /\ t.tried = nTried /\ t.new = nNew
      /\ t.vvTried = vvTried /\ t.vvNew = vvNew /\ t.ids = nIdCount
  BY DEF Tables
<1>2. Sound(t) /\ Typed(t) /\ Indexed(t) /\ CountsAgree(t) /\ Placed(t) /\ Bounded(t) /\ \A x \in Ids : RefersRight(t, x)
  BY <1>1 DEF AddrManInv, Sound, Base, Ids
<1>3. Tried = TriedOf(t) /\ New = NewOf(t) /\ \A x : Buckets(x) = BucketsOf(t, x)
  BY <1>1 DEF Tried, New, TriedOf, NewOf, Ids, Buckets, BucketsOf
<1> HIDE DEF t
<1>4. AddrManTypeOK
  <2>1. nIdCount \in Nat /\ nIdCount <= MaxId /\ \A x \in Ids : x \in Nat /\ x < nIdCount
    BY <1>1, <1>2 DEF AddrManInv, Typed, Ids
  <2>2. Ids \subseteq 0 .. nIdCount - 1 /\ nIdCount \in 0 .. MaxId
    BY <2>1, AddrManLimitsAssumption
  <2>3. ASSUME NEW x \in Ids
        PROVE  mapInfo[x] \in [addr : NetAddr, source : Source, nRefCount : 0..ADDRMAN_NEW_BUCKETS_PER_ADDRESS,
                               fInTried : BOOLEAN, nRandomPos : 1..Len(vRandom)]
    <3>1. mapInfo[x] \in Entry
      BY <1>1, <1>2 DEF Typed, Ids
    <3>2. mapInfo[x].nRefCount <= ADDRMAN_NEW_BUCKETS_PER_ADDRESS
      BY <1>1, <1>2 DEF RefersRight
    <3>3. mapInfo[x].nRandomPos \in 1 .. Len(vRandom)
      BY <1>1, <1>2 DEF Indexed, Ids
    <3> DEFINE e == mapInfo[x]
    <3>4. /\ e = [addr |-> e.addr, source |-> e.source, nRefCount |-> e.nRefCount, fInTried |-> e.fInTried, nRandomPos |-> e.nRandomPos]
          /\ e.addr \in NetAddr /\ e.source \in Source /\ e.nRefCount \in Nat /\ e.fInTried \in BOOLEAN
      BY <3>1, EntryFields
    <3>5. e.nRefCount \in 0 .. ADDRMAN_NEW_BUCKETS_PER_ADDRESS
      BY <3>2, <3>4, AddrManLimitsAssumption
    <3> HIDE DEF e
    <3>6. QED
      BY <3>3, <3>4, <3>5 DEF e
  <2>4. mapInfo \in [Ids -> [addr : NetAddr, source : Source, nRefCount : 0..ADDRMAN_NEW_BUCKETS_PER_ADDRESS,
                             fInTried : BOOLEAN, nRandomPos : 1..Len(vRandom)]]
    <3>1. mapInfo \in [Ids -> Entry]
      BY <1>1, <1>2 DEF Typed, Ids
    <3>2. QED
      BY <3>1, <2>3
  <2>5. /\ DOMAIN mapAddr \subseteq NetAddr /\ nTried \in Nat /\ nNew \in Nat
        /\ vvNew \in [NewBucket -> SUBSET Ids] /\ vvTried \in [TriedBucket -> Seq(Ids)]
    BY <1>1, <1>2 DEF Typed, Ids
  <2>6. ToSet(success) = {mapInfo[x].addr : x \in Tried}
    BY <1>1, <1>3 DEF AddrManInv, TriedAddrs, t
  <2>7. Len(success) = Cardinality(Tried)
    <3>1. success \in Seq(NetAddr) /\ IsInjective(success) /\ ToSet(success) = TriedAddrs(t)
      BY DEF AddrManInv, t
    <3>2. Cardinality(ToSet(success)) = Len(success)
      BY <3>1, LenOfInjective
    <3>3. QED
      BY <3>1, <3>2, <1>2, <1>3, TriedAddrsAre
  <2>8. QED
    BY <2>2, <2>4, <2>5, <2>6, <2>7 DEF AddrManTypeOK
<1>5. IndexesAgree
  <2>1. \A a \in DOMAIN mapAddr : mapAddr[a] \in Ids /\ mapInfo[mapAddr[a]].addr = a
    BY <1>1, <1>2 DEF Indexed, Ids
  <2>2. \A x \in Ids : mapInfo[x].addr \in DOMAIN mapAddr /\ mapAddr[mapInfo[x].addr] = x
    BY <1>1, <1>2 DEF Indexed, Ids
  <2>3. \A x \in Ids : mapInfo[x].nRandomPos \in 1 .. Len(vRandom) /\ vRandom[mapInfo[x].nRandomPos] = x
    BY <1>1, <1>2 DEF Indexed, Ids
  <2>4. vRandom \in Seq(Ids) /\ DOMAIN vRandom = 1 .. Len(vRandom)
    BY <1>1, <1>2 DEF Typed, Ids
  <2>5. \A p \in 1 .. Len(vRandom) : mapInfo[vRandom[p]].nRandomPos = p
    BY <1>1, <1>2 DEF Indexed
  <2>6. IsInjective(vRandom)
    BY <2>4, <2>5 DEF IsInjective
  <2>7. ToSet(vRandom) = Ids
    <3>1. \A p \in 1 .. Len(vRandom) : vRandom[p] \in Ids
      BY <2>4
    <3>2. QED
      BY <3>1, <2>3, <2>4 DEF ToSet
  <2>8. Len(vRandom) = Cardinality(Ids)
    BY <2>4, <2>6, <2>7, LenOfInjective
  <2>9. QED
    BY <2>1, <2>2, <2>3, <2>4, <2>8 DEF IndexesAgree
<1>6. CountsAreExact
  BY <1>1, <1>2, <1>3 DEF CountsAgree, CountsAreExact
<1>7. ReferencesAreBuckets
  <2>1. \A x \in Ids : mapInfo[x].nRefCount = Cardinality(Buckets(x)) /\ (mapInfo[x].fInTried <=> Buckets(x) = {})
    BY <1>1, <1>2, <1>3 DEF RefersRight
  <2>2. (\A x \in New : Buckets(x) # {}) /\ (\A x \in Tried : Buckets(x) = {})
    BY <2>1 DEF New, Tried
  <2>3. \A k \in TriedBucket :
          /\ IsInjective(vvTried[k])
          /\ ToSet(vvTried[k]) = {id \in Tried : GetTriedBucket[mapInfo[id].addr] = k}
    BY <1>1, <1>2, <1>3 DEF Placed
  <2>4. QED
    BY <2>1, <2>2, <2>3 DEF ReferencesAreBuckets
<1>8. BucketsAreBounded
  BY <1>1, <1>2 DEF Bounded, BucketsAreBounded
<1>9. QED
  BY <1>4, <1>5, <1>6, <1>7, <1>8 DEF Check_

(* An empty address manager *)
LEMMA AddrManInitInv ==
    ASSUME AddrManInit
    PROVE  AddrManInv
<1> DEFINE t == Tables
<1>1. /\ t.info = Empty /\ t.addr = Empty /\ t.random = <<>> /\ t.tried = 0 /\ t.new = 0
      /\ t.vvTried = [k \in TriedBucket |-> <<>>] /\ t.vvNew = [u \in NewBucket |-> {}] /\ t.ids = 0
      /\ IsTables(t)
  BY DEF AddrManInit, Tables, IsTables, TablesOf
<1>2. DOMAIN Empty = {} /\ Empty = [x \in DOMAIN Empty |-> Empty[x]] /\ Empty \in [{} -> Entry]
  BY DEF Empty
<1> HIDE DEF t
<1>3. TriedOf(t) = {} /\ NewOf(t) = {} /\ TriedAddrs(t) = {}
  BY <1>1, <1>2 DEF TriedOf, NewOf, TriedAddrs
<1>4. Typed(t)
  <2>1. t.vvNew \in [NewBucket -> SUBSET {}] /\ t.vvTried \in [TriedBucket -> Seq({})]
    BY <1>1
  <2>2. t.random \in Seq({}) /\ DOMAIN t.info = {} /\ DOMAIN t.addr = {}
    BY <1>1, <1>2
  <2>3. QED
    BY <2>1, <2>2, <1>1, <1>2 DEF Typed
<1>5. Indexed(t)
  <2>1. DOMAIN t.info = {} /\ DOMAIN t.addr = {} /\ 1 .. Len(t.random) = {}
    BY <1>1, <1>2
  <2>2. QED
    BY <2>1 DEF Indexed
<1>6. CountsAgree(t)
  BY <1>1, <1>3, FS_EmptySet DEF CountsAgree
<1>7. ToSet(<<>>) = {} /\ IsInjective(<<>>) /\ Len(<<>>) = 0
  BY DEF ToSet, IsInjective
<1>8. Placed(t)
  BY <1>1, <1>3, <1>7 DEF Placed
<1>9. Bounded(t)
  BY <1>1, <1>7, FS_EmptySet, AddrManLimitsAssumption DEF Bounded
<1>10. Sound(t)
  BY <1>1, <1>2, <1>4, <1>5, <1>6, <1>8, <1>9 DEF Sound, Base
<1>11. success = <<>> /\ nIdCount <= MaxId
  BY AddrManLimitsAssumption DEF AddrManInit
<1>12. QED
  BY <1>3, <1>7, <1>10, <1>11 DEF AddrManInv, t

(* Become gives the variables the fields of the tables *)
LEMMA BecomeIs ==
    ASSUME NEW r, IsTables(r), Become(r)
    PROVE  Tables' = r
<1>1. Tables' = TablesOf(r.info, r.addr, r.random, r.tried, r.new, r.vvTried, r.vvNew, r.ids)
  BY DEF Become, Tables, TablesOf
<1>2. QED
  BY <1>1 DEF IsTables

(* What a step does to the tried entries: nothing, or one is added, or one is  *)
(* evicted for another; all stay known.                                        *)
Evicts(r, t) ==
    /\ TriedAddrs(t) \subseteq DOMAIN r.addr
    /\ \/ TriedAddrs(r) = TriedAddrs(t)
       \/ \E a : TriedAddrs(r) = TriedAddrs(t) \cup {a}
       \/ \E a, b : a \notin TriedAddrs(t) /\ TriedAddrs(r) = (TriedAddrs(t) \ {b}) \cup {a}

(* tables whose tried entries are those of t *)
LEMMA SameTried ==
    ASSUME NEW t, Sound(t), NEW r, Sound(r), TriedOf(r) = TriedOf(t),
           \A x \in TriedOf(t) : r.info[x].addr = t.info[x].addr
    PROVE  TriedAddrs(r) = TriedAddrs(t) /\ Evicts(r, t)
<1>1. TriedAddrs(r) = TriedAddrs(t)
  BY DEF TriedAddrs
<1>2. QED
  BY <1>1, TriedAddrsAre DEF Evicts

(* Steps that keep the tried entries keep the invariant. *)
LEMMA SameTriedKeeps ==
    ASSUME AddrManInv, NEW r, Sound(r), TriedAddrs(r) = TriedAddrs(Tables), r.ids <= MaxId, Tables' = r, success' = success
    PROVE  AddrManInv'
<1>1. nIdCount' = r.ids
  BY DEF Tables
<1>2. QED
  BY <1>1 DEF AddrManInv

(* that Tables has of them. *)
LEMMA TablesAre ==
    /\ Tables.info = mapInfo /\ Tables.addr = mapAddr /\ Tables.random = vRandom /\ Tables.tried = nTried /\ Tables.new = nNew
    /\ Tables.vvTried = vvTried /\ Tables.vvNew = vvNew /\ Tables.ids = nIdCount
BY DEF Tables

(* Each operation keeps the invariant and evicts at most one for one: Add_ of a new address *)
LEMMA AddNewKeeps ==
    ASSUME AddrManInv, NEW a \in NetAddr, NEW s \in Source, AddNew(a, s)
    PROVE  AddrManInv' /\ Evicts(Tables', Tables)
<1> DEFINE t == Tables
           c == Create(t, a, s)
           u == GetNewBucket[a][s]
<1>1. Sound(t) /\ t.ids = nIdCount /\ t.addr = mapAddr /\ a \notin DOMAIN t.addr /\ t.ids < MaxId /\ success' = success
  BY TablesAre DEF AddrManInv, AddNew
<1>2. u \in NewBucket
  BY BucketsAssumption
<1>3. PICK r \in PutInNew(c, u, t.ids) : Become(r)
  BY <1>1 DEF AddNew
<1> HIDE DEF t, u, c
<1>4. /\ Ready(c, t.ids, u) /\ TriedOf(c) = TriedOf(t) /\ c.ids = t.ids + 1
      /\ \A x \in DOMAIN t.info : c.info[x] = t.info[x]
  BY <1>1, <1>2, CreateIsReady DEF c
<1>5. Sound(r) /\ Remains(r, c)
  BY <1>3, <1>4, PutInNewIsSound
<1>6. TriedOf(r) = TriedOf(t) /\ r.ids = t.ids + 1
  BY <1>4, <1>5 DEF Remains
<1>7. \A x \in TriedOf(t) : r.info[x].addr = t.info[x].addr
  <2>1. \A x \in TriedOf(t) : x \in DOMAIN t.info /\ x \in DOMAIN r.info
    BY <1>6 DEF TriedOf
  <2>2. QED
    BY <2>1, <1>4, <1>5 DEF Remains
<1>8. TriedAddrs(r) = TriedAddrs(t) /\ Evicts(r, t)
  BY <1>1, <1>5, <1>6, <1>7, SameTried
<1>9. Tables' = r
  BY <1>3, <1>5, BecomeIs DEF Sound, Base, Typed
<1>10. r.ids <= MaxId
  BY <1>1, <1>6, AddrManLimitsAssumption DEF Sound, Base, Typed
<1>11. AddrManInv'
  BY <1>1, <1>5, <1>8, <1>9, <1>10, SameTriedKeeps DEF t
<1>12. QED
  BY <1>8, <1>9, <1>11 DEF t

(* Add_ of a known one *)
LEMMA AddAgainKeeps ==
    ASSUME AddrManInv, NEW a \in NetAddr, NEW s \in Source, AddAgain(a, s)
    PROVE  AddrManInv' /\ Evicts(Tables', Tables)
<1> DEFINE t == Tables
           id == t.addr[a]
           u == GetNewBucket[a][s]
<1>1. /\ Sound(t) /\ t.ids = nIdCount /\ t.ids <= MaxId /\ a \in DOMAIN t.addr /\ success' = success
      /\ ~t.info[id].fInTried /\ t.info[id].nRefCount # ADDRMAN_NEW_BUCKETS_PER_ADDRESS
  BY TablesAre DEF AddrManInv, AddAgain
<1>2. u \in NewBucket
  BY BucketsAssumption
<1>3. PICK r \in PutInNew(t, u, id) : Become(r)
  BY TablesAre DEF AddAgain
<1> HIDE DEF t, u
<1>4. Base(t) /\ id \in DOMAIN t.info /\ t.info[id] \in Entry /\ \A x \in DOMAIN t.info : RefersRight(t, x)
  BY <1>1 DEF Sound, Base, Typed, Indexed
<1> HIDE DEF id
<1>5. Ready(t, id, u) \/ (Sound(t) /\ u \in NewBucket /\ id \in t.vvNew[u])
  <2>1. RefersRight(t, id) /\ t.info[id].nRefCount \in Nat
    BY <1>4, EntryFields
  <2>2. t.info[id].nRefCount = Cardinality(BucketsOf(t, id)) /\ t.info[id].nRefCount < ADDRMAN_NEW_BUCKETS_PER_ADDRESS
    BY <2>1, <1>1, AddrManLimitsAssumption DEF RefersRight
  <2>3. QED
    BY <2>2, <1>1, <1>2, <1>4 DEF Ready
<1>6. Sound(r) /\ Remains(r, t)
  BY <1>3, <1>5, PutInNewIsSound
<1>7. TriedOf(r) = TriedOf(t) /\ r.ids = t.ids
  BY <1>6 DEF Remains
<1>8. \A x \in TriedOf(t) : r.info[x].addr = t.info[x].addr
  <2>1. \A x \in TriedOf(t) : x \in DOMAIN r.info
    BY <1>7 DEF TriedOf
  <2>2. QED
    BY <2>1, <1>6 DEF Remains
<1>9. TriedAddrs(r) = TriedAddrs(t) /\ Evicts(r, t)
  BY <1>1, <1>6, <1>7, <1>8, SameTried
<1>10. Tables' = r
  BY <1>3, <1>6, BecomeIs DEF Sound, Base, Typed
<1>11. AddrManInv'
  BY <1>1, <1>6, <1>7, <1>9, <1>10, SameTriedKeeps DEF t
<1>12. QED
  BY <1>9, <1>10, <1>11 DEF t

(* GetAddr_ *)
LEMMA GetAddrKeeps ==
    ASSUME AddrManInv, GetAddr
    PROVE  AddrManInv' /\ Evicts(Tables', Tables)
<1> DEFINE t == Tables
           m == nNodes[Len(vRandom)]
<1>1. /\ Sound(t) /\ t.ids = nIdCount /\ t.ids <= MaxId /\ t.random = vRandom /\ success' = success
  BY TablesAre DEF AddrManInv, GetAddr
<1>2. m \in Nat /\ m <= Len(vRandom)
  <2>1. Check_
    BY InvImpliesCheck
  <2>2. Len(vRandom) = Cardinality(Ids)
    BY <2>1 DEF Check_, IndexesAgree
  <2> DEFINE f == [x \in Ids |-> mapInfo[x].addr]
  <2>3. \A x \in Ids : mapInfo[x].addr \in NetAddr /\ mapAddr[mapInfo[x].addr] = x
    BY <2>1 DEF Check_, IndexesAgree, AddrManTypeOK
  <2>4. f \in Injection(Ids, NetAddr)
    BY <2>3 DEF Injection, IsInjective
  <2> HIDE DEF f
  <2>5. Cardinality(Ids) <= Cardinality(NetAddr) /\ IsFiniteSet(Ids)
    BY <2>4, BucketsAssumption, FS_Injection
  <2>6. Len(vRandom) \in 0 .. Cardinality(NetAddr)
    BY <2>2, <2>5, BucketsAssumption, FS_CardinalityType
  <2>7. QED
    BY <2>6, AddrManLimitsAssumption
<1>3. PICK draw \in Draws(m, Len(vRandom)) : Become(Shuffling(draw)[Len(draw)])
  BY DEF GetAddr
<1> DEFINE r == Shuffling(draw)[Len(draw)]
<1> HIDE DEF m
<1>4. Sound(r) /\ Alike(r, t)
  BY <1>1, <1>2, <1>3, ShufflingKeeps
<1>5. Become(r)
  BY <1>3
<1> HIDE DEF r, t
<1>6. TriedOf(r) = TriedOf(t) /\ r.ids = t.ids /\ \A x \in TriedOf(t) : r.info[x].addr = t.info[x].addr
  BY <1>4 DEF Alike, TriedOf
<1>7. TriedAddrs(r) = TriedAddrs(t) /\ Evicts(r, t)
  BY <1>1, <1>4, <1>6, SameTried
<1>8. Tables' = r
  BY <1>4, <1>5, BecomeIs DEF Sound, Base, Typed
<1>9. AddrManInv'
  BY <1>1, <1>4, <1>6, <1>7, <1>8, SameTriedKeeps DEF t
<1>10. QED
  BY <1>7, <1>8, <1>9 DEF t

(* saving and loading, after which every address is where it was *)
LEMMA ReloadKeeps ==
    ASSUME AddrManInv, Reload
    PROVE  AddrManInv' /\ Evicts(Tables', Tables) /\ Content' = Content
<1> DEFINE t == Tables
           r == Tables'
<1>1. Sound(t) /\ t.info = mapInfo /\ t.ids = nIdCount /\ nIdCount <= MaxId /\ nIdCount \in Nat /\ success' = success
  BY TablesAre DEF AddrManInv, Reload, Sound, Base, Typed
<1>2. PICK N \in Nat : \E S \in Bijection(0 .. N - 1, DOMAIN mapInfo) : Renumbered(r, t, N, S) /\ N <= nIdCount
  BY <1>1, ReloadRenumbers
<1>3. PICK S \in Bijection(0 .. N - 1, DOMAIN mapInfo) : Renumbered(r, t, N, S) /\ N <= nIdCount
  BY <1>2
<1> HIDE DEF t, r
<1>4. Sound(r) /\ TriedAddrs(r) = TriedAddrs(t) /\ \A n \in 0 .. N - 1 : BucketsOf(r, n) = BucketsOf(t, S[n])
  <2>1. S \in Bijection(0 .. N - 1, DOMAIN t.info) /\ Renumbered(r, t, N, S)
    BY <1>1, <1>3
  <2>2. QED
    BY <2>1, <1>1, RenumberedIsSound
<1>5. r.ids = N /\ DOMAIN r.addr = DOMAIN t.addr
  BY <1>3 DEF Renumbered
<1>6. Evicts(r, t)
  BY <1>1, <1>4, <1>5, TriedAddrsAre DEF Evicts
<1>7. r.ids <= MaxId
  BY <1>1, <1>3, <1>5, AddrManLimitsAssumption
<1>8. AddrManInv'
  BY <1>1, <1>4, <1>7, SameTriedKeeps DEF t, r
<1>9. Content' = Content
  <2>1. /\ t.info = mapInfo /\ t.addr = mapAddr /\ t.vvNew = vvNew
        /\ r.info = mapInfo' /\ r.addr = mapAddr' /\ r.vvNew = vvNew'
    BY DEF t, r, Tables
  <2>2. ASSUME NEW a \in DOMAIN mapAddr
        PROVE  mapInfo'[mapAddr'[a]].fInTried = mapInfo[mapAddr[a]].fInTried /\ Buckets(mapAddr[a])' = Buckets(mapAddr[a])
    <3> DEFINE n == r.addr[a]
    <3>1. n \in 0 .. N - 1 /\ S[n] = t.addr[a]
      BY <1>3, <2>1 DEF Renumbered
    <3>2. r.info[n].fInTried = t.info[S[n]].fInTried
      BY <1>3, <3>1 DEF Renumbered
    <3>3. BucketsOf(r, n) = BucketsOf(t, S[n])
      BY <1>4, <3>1
    <3>4. Buckets(mapAddr[a])' = BucketsOf(r, n) /\ Buckets(mapAddr[a]) = BucketsOf(t, t.addr[a])
      BY <2>1 DEF Buckets, BucketsOf
    <3>5. QED
      BY <2>1, <3>1, <3>2, <3>3, <3>4
  <2>3. DOMAIN mapAddr' = DOMAIN mapAddr
    BY <1>5, <2>1
  <2>4. QED
    BY <2>2, <2>3 DEF Content
<1>10. QED
  BY <1>6, <1>8, <1>9 DEF t, r

(* The entry that was seen last goes to the end. *)
LEMMA LatestIs ==
    ASSUME NEW s \in Seq(NetAddr), IsInjective(s), NEW a \in NetAddr
    PROVE  Latest(s, a) \in Seq(NetAddr) /\ IsInjective(Latest(s, a)) /\ ToSet(Latest(s, a)) = ToSet(s) \cup {a}
<1> DEFINE w == Only(s, ToSet(s) \ {a})
<1>1. w \in Seq(NetAddr) /\ ToSet(w) = ToSet(s) \cap (ToSet(s) \ {a}) /\ IsInjective(w)
  BY OnlyIs
<1>2. Latest(s, a) = Append(w, a)
  BY DEF Latest
<1> HIDE DEF w
<1>3. a \notin ToSet(w)
  BY <1>1
<1>4. Append(w, a) \in Seq(NetAddr) /\ IsInjective(Append(w, a)) /\ ToSet(Append(w, a)) = ToSet(w) \cup {a}
  BY <1>1, <1>3, AppendsOne
<1>5. QED
  BY <1>1, <1>2, <1>4

(* Good_ of a tried address *)
LEMMA GoodAgainKeeps ==
    ASSUME AddrManInv, NEW a \in NetAddr, GoodAgain(a)
    PROVE  AddrManInv' /\ Evicts(Tables', Tables)
<1> DEFINE t == Tables
<1>1. Tables' = t /\ success' = Latest(success, a) /\ nIdCount' = nIdCount
  BY DEF GoodAgain, Tables
<1>2. Sound(t) /\ success \in Seq(NetAddr) /\ IsInjective(success) /\ ToSet(success) = TriedAddrs(t) /\ nIdCount <= MaxId
  BY DEF AddrManInv
<1>3. a \in DOMAIN t.addr /\ t.info[t.addr[a]].fInTried
  BY TablesAre DEF GoodAgain
<1> HIDE DEF t
<1>4. a \in TriedAddrs(t) /\ TriedAddrs(t) \subseteq DOMAIN t.addr
  BY <1>2, <1>3, TriedAddrsAre
<1>5. success' \in Seq(NetAddr) /\ IsInjective(success') /\ ToSet(success') = ToSet(success) \cup {a}
  BY <1>1, <1>2, LatestIs
<1>6. ToSet(success') = TriedAddrs(t)
  BY <1>2, <1>4, <1>5
<1>7. AddrManInv'
  BY <1>1, <1>2, <1>5, <1>6 DEF AddrManInv
<1>8. Evicts(t, t)
  BY <1>4 DEF Evicts
<1>9. QED
  BY <1>1, <1>7, <1>8 DEF t

(* and Good_ of a new one. *)
LEMMA GoodKeeps ==
    ASSUME AddrManInv, NEW a \in NetAddr, Good(a)
    PROVE  AddrManInv' /\ Evicts(Tables', Tables)
<1> DEFINE t == Tables
           id == t.addr[a]
           s == Latest(success, a)
<1>1. /\ Sound(t) /\ success \in Seq(NetAddr) /\ IsInjective(success) /\ ToSet(success) = TriedAddrs(t)
      /\ t.ids = nIdCount /\ nIdCount <= MaxId
  BY TablesAre DEF AddrManInv
<1>2. a \in DOMAIN t.addr /\ ~t.info[id].fInTried
  BY TablesAre DEF Good
<1>3. PICK nOrigin \in NewBucket : /\ id \in t.vvNew[nOrigin]
                                   /\ \E r \in MakeTried(t, id, nOrigin) :
                                         /\ Become(r)
                                         /\ success' = Only(s, {x \in DOMAIN r.addr : r.info[r.addr[x]].fInTried})
  BY TablesAre DEF Good
<1>4. PICK r \in MakeTried(t, id, nOrigin) : Become(r) /\ success' = Only(s, {x \in DOMAIN r.addr : r.info[r.addr[x]].fInTried})
  BY <1>3
<1> HIDE DEF t, s
<1>5. Indexed(t) /\ id \in DOMAIN t.info /\ t.info[id].addr = a
  BY <1>1, <1>2 DEF Sound, Base, Indexed
<1> HIDE DEF id
<1>6. /\ Sound(r) /\ Stays(r, t)
      /\ \/ TriedOf(r) = TriedOf(t) \cup {id}
         \/ \E old \in TriedOf(t) : TriedOf(r) = (TriedOf(t) \ {old}) \cup {id}
  BY <1>1, <1>2, <1>3, <1>4, <1>5, MakeTriedIsSound
<1>7. /\ TriedOf(t) \subseteq DOMAIN t.info /\ TriedOf(r) \subseteq DOMAIN t.info
      /\ \A x \in DOMAIN t.info : r.info[x].addr = t.info[x].addr
      /\ r.addr = t.addr /\ r.ids = t.ids /\ id \notin TriedOf(t)
  BY <1>2, <1>6 DEF Stays, TriedOf
<1>8. \A x, y \in DOMAIN t.info : t.info[x].addr = t.info[y].addr => x = y
  BY <1>5 DEF Indexed
<1>9. TriedAddrs(r) = {t.info[x].addr : x \in TriedOf(r)}
  BY <1>7 DEF TriedAddrs
<1>10. a \notin TriedAddrs(t)
  BY <1>1, <1>2, <1>5, <1>7, TriedAddrsAre
<1>11. /\ \/ TriedAddrs(r) = TriedAddrs(t) \cup {a}
          \/ \E b : TriedAddrs(r) = (TriedAddrs(t) \ {b}) \cup {a}
  <2>1. CASE TriedOf(r) = TriedOf(t) \cup {id}
    <3>1. TriedAddrs(r) = TriedAddrs(t) \cup {a}
      BY <2>1, <1>5, <1>9 DEF TriedAddrs
    <3>2. QED
      BY <3>1
  <2>2. CASE \E old \in TriedOf(t) : TriedOf(r) = (TriedOf(t) \ {old}) \cup {id}
    <3>1. PICK old \in TriedOf(t) : TriedOf(r) = (TriedOf(t) \ {old}) \cup {id}
      BY <2>2
    <3> DEFINE b == t.info[old].addr
    <3>2. \A x \in TriedOf(t) : t.info[x].addr = b <=> x = old
      BY <1>7, <1>8
    <3> HIDE DEF b
    <3>3. {t.info[x].addr : x \in TriedOf(t) \ {old}} = TriedAddrs(t) \ {b}
      BY <3>2 DEF TriedAddrs
    <3>4. TriedAddrs(r) = {t.info[x].addr : x \in TriedOf(t) \ {old}} \cup {a}
      BY <3>1, <1>5, <1>9
    <3>5. QED
      BY <3>3, <3>4
  <2>3. QED
    BY <2>1, <2>2, <1>6
<1>12. TriedAddrs(r) \subseteq TriedAddrs(t) \cup {a}
  BY <1>11
<1>13. Evicts(r, t)
  BY <1>1, <1>7, <1>10, <1>11, TriedAddrsAre DEF Evicts
<1>14. {x \in DOMAIN r.addr : r.info[r.addr[x]].fInTried} = TriedAddrs(r)
  BY <1>6, TriedAddrsAre
<1>15. s \in Seq(NetAddr) /\ IsInjective(s) /\ ToSet(s) = TriedAddrs(t) \cup {a}
  BY <1>1, LatestIs DEF s
<1>16. success' = Only(s, TriedAddrs(r))
  BY <1>4, <1>14
<1>17. success' \in Seq(NetAddr) /\ IsInjective(success') /\ ToSet(success') = TriedAddrs(r)
  <2>1. success' \in Seq(NetAddr) /\ IsInjective(success') /\ ToSet(success') = ToSet(s) \cap TriedAddrs(r)
    BY <1>15, <1>16, OnlyIs
  <2>2. QED
    BY <2>1, <1>12, <1>15
<1>18. Tables' = r
  BY <1>4, <1>6, BecomeIs DEF Sound, Base, Typed
<1>19. nIdCount' <= MaxId
  <2>1. nIdCount' = r.ids
    BY <1>4 DEF Become
  <2>2. QED
    BY <2>1, <1>1, <1>7
<1>20. AddrManInv'
  BY <1>6, <1>17, <1>18, <1>19 DEF AddrManInv
<1>21. QED
  BY <1>13, <1>18, <1>20 DEF t

(* An eviction loses nothing. *)
LEMMA EvictsIsKept ==
    ASSUME Sound(Tables), Sound(Tables'), Evicts(Tables', Tables)
    PROVE  TriedAreKept
<1> DEFINE was == TriedAddrs(Tables)
           is == TriedAddrs(Tables')
<1>1. IsFiniteSet(was) /\ IsFiniteSet(is)
  BY TriedAddrsAre
<1>2. /\ was = {mapInfo[id].addr : id \in Tried}
      /\ is = {mapInfo'[id].addr : id \in {i \in DOMAIN mapInfo' : mapInfo'[i].fInTried}}
      /\ Tables'.addr = mapAddr'
  BY DEF TriedAddrs, TriedOf, Tables, Tried, Ids
<1> HIDE DEF was, is
<1>3. /\ was \subseteq DOMAIN mapAddr'
      /\ \/ is = was
         \/ \E a : is = was \cup {a}
         \/ \E a, b : a \notin was /\ is = (was \ {b}) \cup {a}
  BY <1>2 DEF Evicts, was, is
<1>4. Cardinality(was \ is) <= Cardinality(is \ was)
  <2>1. IsFiniteSet(was \ is) /\ IsFiniteSet(is \ was) /\ Cardinality(is \ was) \in Nat
    BY <1>1, FS_Subset, FS_CardinalityType
  <2>2. CASE was \subseteq is
    <3>1. was \ is = {}
      BY <2>2
    <3>2. QED
      BY <2>1, <3>1, FS_EmptySet
  <2>3. CASE \E a, b : a \notin was /\ is = (was \ {b}) \cup {a}
    <3>1. PICK a, b : a \notin was /\ is = (was \ {b}) \cup {a}
      BY <2>3
    <3>2. is \ was = {a} /\ (was \ is) \in SUBSET {b}
      BY <3>1
    <3>3. IsFiniteSet({b}) /\ Cardinality({b}) = 1 /\ Cardinality({a}) = 1
      BY FS_Singleton, Zenon
    <3>4. Cardinality(was \ is) <= Cardinality({b})
      BY <3>2, <3>3, FS_Subset
    <3>5. QED
      BY <3>2, <3>3, <3>4
  <2>4. QED
    BY <2>2, <2>3, <1>3
<1>5. QED
  BY <1>2, <1>3, <1>4 DEF TriedAreKept

(* Every step keeps the invariant and, at worst, evicts one for another. *)
LEMMA AddrManNextKeeps ==
    ASSUME AddrManInv, [AddrManNext]_addrmanVars
    PROVE  AddrManInv' /\ TriedAreKept /\ (Reload => Content' = Content)
<1>1. AddrManInv' /\ Evicts(Tables', Tables)
  <2>1. ASSUME NEW a \in NetAddr, NEW s \in Source, AddNew(a, s) PROVE AddrManInv' /\ Evicts(Tables', Tables)
    BY <2>1, AddNewKeeps
  <2>2. ASSUME NEW a \in NetAddr, NEW s \in Source, AddAgain(a, s) PROVE AddrManInv' /\ Evicts(Tables', Tables)
    BY <2>2, AddAgainKeeps
  <2>3. ASSUME NEW a \in NetAddr, Good(a) PROVE AddrManInv' /\ Evicts(Tables', Tables)
    BY <2>3, GoodKeeps
  <2>4. ASSUME NEW a \in NetAddr, GoodAgain(a) PROVE AddrManInv' /\ Evicts(Tables', Tables)
    BY <2>4, GoodAgainKeeps
  <2>5. CASE GetAddr
    BY <2>5, GetAddrKeeps
  <2>6. CASE Reload
    BY <2>6, ReloadKeeps
  <2>7. CASE UNCHANGED addrmanVars
    <3>1. Tables' = Tables /\ success' = success /\ nIdCount' = nIdCount
      BY <2>7 DEF addrmanVars, Tables
    <3>2. TriedAddrs(Tables) \subseteq DOMAIN Tables.addr
      BY TriedAddrsAre DEF AddrManInv
    <3>3. AddrManInv'
      BY <3>1 DEF AddrManInv
    <3>4. QED
      BY <3>1, <3>2, <3>3 DEF Evicts
  <2>8. QED
    BY <2>1, <2>2, <2>3, <2>4, <2>5, <2>6, <2>7 DEF AddrManNext
<1>2. TriedAreKept
  BY <1>1, EvictsIsKept DEF AddrManInv
<1>3. Reload => Content' = Content
  BY ReloadKeeps
<1>4. QED
  BY <1>1, <1>2, <1>3

(* What Check_ tests holds after every operation. *)
THEOREM CheckAlways == AddrManSpec => []Check_
<1>1. AddrManInit => AddrManInv
  BY AddrManInitInv
<1>2. AddrManInv /\ [AddrManNext]_addrmanVars => AddrManInv'
  BY AddrManNextKeeps
<1>3. AddrManInv => Check_
  BY InvImpliesCheck
<1>4. QED
  BY <1>1, <1>2, <1>3, PTL DEF AddrManSpec

(* Tried entries are only evicted for others, and a reload changes nothing. *)
THEOREM TablesAreKeptAlways == AddrManSpec => TablesAreKept
<1>1. AddrManInit => AddrManInv
  BY AddrManInitInv
<1>2. AddrManInv /\ [AddrManNext]_addrmanVars => AddrManInv'
  BY AddrManNextKeeps
<1>3. AddrManInv /\ [AddrManNext]_addrmanVars => [TriedAreKept /\ (Reload => Content' = Content)]_addrmanVars
  BY AddrManNextKeeps
<1>4. QED
  BY <1>1, <1>2, <1>3, PTL DEF AddrManSpec, TablesAreKept

-----------------------------------------------------------------------------
(* The peer connections *)

(* An opener has made the node n and has not yet finished with it. *)
Opens(o, n) == open[o].pc \in {"move", "network"} /\ ~open[o].found /\ open[o].node = n

(* It has found n in vNodes and added a reference to it. *)
Joined(o, n) ==
    open[o].pc \in {"move", "network"} /\ open[o].found /\ ~open[o].stale /\ open[o].node = n

(* Where the socket thread stands: what it has not reached yet is in the     *)
(* list it goes through, and what it removes is in neither list.             *)
SockSound ==
    /\ sock.pc # "service" => sock.copy = {}
    /\ sock.pc \in {"top", "removing"} => sock.todo \subseteq vNodes
    /\ sock.pc \in {"free", "deleting"} => sock.todo \subseteq vNodesDisconnected
    /\ sock.pc = "service" => sock.todo \subseteq sock.copy
    /\ sock.cur # NULL <=> sock.pc \in {"removing", "deleting"}
    /\ sock.pc = "removing" => sock.cur \notin vNodes \cup vNodesDisconnected
    /\ vNodes \cap vNodesDisconnected = {}

(* Nobody has the node that TryDelete chose. *)
DeletingSound ==
    sock.pc = "deleting" =>
        /\ sock.cur \in vNodesDisconnected \ (sock.todo \cup msg.copy)
        /\ \A o \in Opener : ~Opens(o, sock.cur)

MsgSound ==
    /\ msg.pc = "copy" => msg.copy = {}
    /\ msg.todo \subseteq msg.copy
    /\ msg.pc \in {"setsync", "handle"} => msg.cur \in msg.copy

(* Where an opener stands, and what it has then. *)
Progress(o) ==
    /\ open[o].grant => open[o].pc \in {"check", "find", "addref", "connect", "move"}
    /\ open[o].pc \in {"find", "addref", "move"} \/ (open[o].pc = "check" /\ ~open[o].named) => open[o].grant
    /\ open[o].pc \in {"idle", "check", "find", "connect", "onetry"} => ~open[o].stale /\ ~open[o].found /\ open[o].node = NULL
    /\ open[o].pc = "addref" => open[o].found
    /\ open[o].pc # "undefined"

(* Its node is alive unless it knows better, and only its own. *)
HasNode(o) ==
    /\ open[o].pc \in {"addref", "move", "network"} =>
           open[o].node \in Heap /\ (open[o].stale \/ node[open[o].node].alive)
    /\ \A n \in Heap : Opens(o, n) => ~node[n].fInbound
    /\ \A p \in Opener, n \in Heap : Opens(o, n) /\ Opens(p, n) => o = p

OpenSound == \A o \in Opener : Progress(o) /\ HasNode(o)

(* The node that RemoveNode took from vNodes, until HoldDisconnected. *)
Removing == IF sock.pc = "removing" THEN {sock.cur} ELSE {}
Listed(n) == IF n \in vNodes \cup Removing THEN 1 ELSE 0

(* The references of n cover the snapshots, the list, and an opener. *)
Counted(n) ==
    /\ node[n].nRefCount >= Holders(n) + Listed(n)
    /\ \A o \in Opener :
          /\ Opens(o, n) /\ ~node[n].fNetworkNode => node[n].nRefCount >= Holders(n) + 1
          /\ Opens(o, n) /\ node[n].fNetworkNode => node[n].nRefCount >= Holders(n) + Listed(n) + 1
          /\ Joined(o, n) => node[n].nRefCount >= Holders(n) + Listed(n) + 1

CountsSound == \A n \in Alive : Counted(n)

(* A granted connection has its grant, or its opener is about to move it. *)
Granted(n) == node[n].granted /\ ~node[n].grantOutbound => \E o \in Opener : Opens(o, n) /\ open[o].pc = "move"
GrantsSound == \A n \in vNodes : Granted(n)

IInv ==
    /\ NodesTypeOK /\ NodesInUseAreAlive /\ GrantsAreConserved /\ ConnectionsAreBounded
    /\ Running => SockSound /\ DeletingSound /\ MsgSound /\ OpenSound /\ CountsSound /\ GrantsSound
    /\ ~Running => msg.pc = "undefined" /\ \A o \in Opener : open[o].pc = "undefined"

-----------------------------------------------------------------------------
(* What the operators of the model do to the nodes, field by field *)

USE AddrAssumption, HeapAssumption, OpenerAssumption, BoundAssumption

NodesTyped == node \in [Heap -> NodeState]

(* A node that `new CNode' makes, and what is left of one that is deleted. *)
LEMMA NewNodes ==
    /\ Deleted \in NodeState /\ ~Deleted.alive /\ Deleted.addr \in Addr
    /\ \A a \in Addr, b \in BOOLEAN :
          LET f == FreshNode(a, b) IN
          /\ f \in NodeState
          /\ f.alive /\ f.nRefCount = 1 /\ f.fInbound = b /\ ~f.fNetworkNode /\ ~f.grantOutbound /\ ~f.granted
BY DEF Deleted, FreshNode, NodeState

(* The node Connect makes, under a grant or not. *)
Made(a, g) == [FreshNode(a, FALSE) EXCEPT !.granted = g]

(* It is a new node. *)
LEMMA MadeNodes ==
    ASSUME NEW a \in Addr, NEW g \in BOOLEAN
    PROVE  /\ Made(a, g) \in NodeState
           /\ Made(a, g).alive /\ Made(a, g).nRefCount = 1 /\ ~Made(a, g).fInbound /\ ~Made(a, g).fNetworkNode
           /\ ~Made(a, g).grantOutbound /\ Made(a, g).granted = g
BY DEF Made, FreshNode, NodeState

(* f differs from node in addresses and fDisconnect, which nothing below      *)
(* depends on, and reference counts, at most.                                 *)
SameLife(f) ==
    /\ f \in [Heap -> NodeState]
    /\ \A m \in Heap : /\ f[m].alive = node[m].alive
                       /\ f[m].fInbound = node[m].fInbound
                       /\ f[m].fNetworkNode = node[m].fNetworkNode
                       /\ f[m].grantOutbound = node[m].grantOutbound
                       /\ f[m].granted = node[m].granted
SameCounts(f) == \A m \in Heap : f[m].nRefCount = node[m].nRefCount

(* CloseSocketDisconnect changes fDisconnect only. *)
LEMMA ClosedEffect ==
    ASSUME NodesTyped, NEW n \in Heap
    PROVE  SameLife(Closed(n)) /\ SameCounts(Closed(n))
BY DEF NodesTyped, SameLife, SameCounts, Closed, NodeState

(* AddRef adds one to the count of each node of the snapshot. *)
LEMMA AddRefsEffect ==
    ASSUME NodesTyped, NEW S \in SUBSET Heap
    PROVE  /\ SameLife(AddRefs(S))
           /\ \A m \in Heap : AddRefs(S)[m].nRefCount = node[m].nRefCount + (IF m \in S THEN 1 ELSE 0)
BY DEF NodesTyped, SameLife, AddRefs, NodeState

(* Release takes one from it. *)
LEMMA ReleasesEffect ==
    ASSUME NodesTyped, NEW S \in SUBSET Heap, \A m \in S : node[m].nRefCount >= 1
    PROVE  /\ SameLife(Releases(S))
           /\ \A m \in Heap : Releases(S)[m].nRefCount = node[m].nRefCount - (IF m \in S THEN 1 ELSE 0)
BY DEF NodesTyped, SameLife, Releases, NodeState

(* The nodes after RemoveNode, MoveGrant and SetNetworkNode. *)
Removed(n) == [Closed(n) EXCEPT ![n].grantOutbound = FALSE, ![n].granted = FALSE]
Granting(n) == [node EXCEPT ![n].grantOutbound = TRUE]
Networked(n) == [node EXCEPT ![n].fNetworkNode = TRUE]

(* A removed node loses its grant. *)
LEMMA RemoveEffect ==
    ASSUME NodesTyped, NEW n \in Heap
    PROVE  /\ Removed(n) \in [Heap -> NodeState]
           /\ SameCounts(Removed(n))
           /\ \A m \in Heap : /\ Removed(n)[m].alive = node[m].alive
                              /\ Removed(n)[m].fInbound = node[m].fInbound
                              /\ Removed(n)[m].fNetworkNode = node[m].fNetworkNode
                              /\ Removed(n)[m].grantOutbound = (m # n /\ node[m].grantOutbound)
                              /\ Removed(n)[m].granted = (m # n /\ node[m].granted)
<1>1. /\ Closed(n) \in [Heap -> NodeState]
      /\ \A m \in Heap : /\ Closed(n)[m].nRefCount = node[m].nRefCount
                         /\ Closed(n)[m].alive = node[m].alive
                         /\ Closed(n)[m].fInbound = node[m].fInbound
                         /\ Closed(n)[m].fNetworkNode = node[m].fNetworkNode
                         /\ Closed(n)[m].grantOutbound = node[m].grantOutbound
                         /\ Closed(n)[m].granted = node[m].granted
  BY ClosedEffect DEF SameLife, SameCounts
<1>2. \A m \in Heap : node[m].grantOutbound \in BOOLEAN /\ node[m].granted \in BOOLEAN
  BY DEF NodesTyped, NodeState
<1>3. Removed(n) \in [Heap -> NodeState]
  <2>1. Removed(n) = [Closed(n) EXCEPT ![n] = [Closed(n)[n] EXCEPT !.grantOutbound = FALSE, !.granted = FALSE]]
    BY DEF Removed
  <2>2. [Closed(n)[n] EXCEPT !.grantOutbound = FALSE, !.granted = FALSE] \in NodeState
    BY <1>1 DEF NodeState
  <2>3. QED
    BY <1>1, <2>1, <2>2
<1>4. \A m \in Heap \ {n} : Removed(n)[m] = Closed(n)[m]
  BY <1>1 DEF Removed
<1>5. Removed(n)[n] = [Closed(n)[n] EXCEPT !.grantOutbound = FALSE, !.granted = FALSE]
  BY <1>1 DEF Removed
<1>6. /\ Removed(n)[n].nRefCount = Closed(n)[n].nRefCount /\ Removed(n)[n].alive = Closed(n)[n].alive
      /\ Removed(n)[n].fInbound = Closed(n)[n].fInbound /\ Removed(n)[n].fNetworkNode = Closed(n)[n].fNetworkNode
      /\ Removed(n)[n].grantOutbound = FALSE /\ Removed(n)[n].granted = FALSE
  BY <1>1, <1>5 DEF NodeState
<1>7. ASSUME NEW m \in Heap
      PROVE  /\ Removed(n)[m].nRefCount = node[m].nRefCount
             /\ Removed(n)[m].alive = node[m].alive
             /\ Removed(n)[m].fInbound = node[m].fInbound
             /\ Removed(n)[m].fNetworkNode = node[m].fNetworkNode
             /\ Removed(n)[m].grantOutbound = (m # n /\ node[m].grantOutbound)
             /\ Removed(n)[m].granted = (m # n /\ node[m].granted)
  <2>1. CASE m = n
    BY <1>1, <1>6, <2>1
  <2>2. CASE m # n
    BY <1>1, <1>2, <1>4, <2>2
  <2>3. QED
    BY <2>1, <2>2
<1>8. QED
  BY <1>3, <1>7 DEF SameCounts

(* MoveTo gives a node a grant. *)
LEMMA GrantEffect ==
    ASSUME NodesTyped, NEW n \in Heap
    PROVE  /\ Granting(n) \in [Heap -> NodeState]
           /\ SameCounts(Granting(n))
           /\ \A m \in Heap : /\ Granting(n)[m].alive = node[m].alive
                              /\ Granting(n)[m].fInbound = node[m].fInbound
                              /\ Granting(n)[m].fNetworkNode = node[m].fNetworkNode
                              /\ Granting(n)[m].grantOutbound = (m = n \/ node[m].grantOutbound)
                              /\ Granting(n)[m].granted = node[m].granted
BY DEF NodesTyped, SameCounts, Granting, NodeState

(* The last thing an opener does is to set fNetworkNode. *)
LEMMA NetworkEffect ==
    ASSUME NodesTyped, NEW n \in Heap
    PROVE  /\ Networked(n) \in [Heap -> NodeState]
           /\ SameCounts(Networked(n))
           /\ \A m \in Heap : /\ Networked(n)[m].alive = node[m].alive
                              /\ Networked(n)[m].fInbound = node[m].fInbound
                              /\ Networked(n)[m].fNetworkNode = (m = n \/ node[m].fNetworkNode)
                              /\ Networked(n)[m].grantOutbound = node[m].grantOutbound
                              /\ Networked(n)[m].granted = node[m].granted
BY DEF NodesTyped, SameCounts, Networked, NodeState

(* Which step makes which of them. *)
LEMMA NodeAfter ==
    /\ \A n \in Heap : RemoveNode(n) => node' = Removed(n)
    /\ \A o \in Opener : /\ MoveGrant(o) => node' = Granting(open[o].node) /\ open[o].pc = "move"
                         /\ SetNetworkNode(o) => node' = Networked(open[o].node) /\ open[o].pc = "network"
<1>1. \A n \in Heap : RemoveNode(n) => node' = Removed(n)
  BY Zenon DEF RemoveNode, Removed
<1>2. \A o \in Opener : /\ MoveGrant(o) => node' = Granting(open[o].node) /\ open[o].pc = "move"
                        /\ SetNetworkNode(o) => node' = Networked(open[o].node) /\ open[o].pc = "network"
  BY DEF MoveGrant, SetNetworkNode, Granting, Networked
<1>3. QED
  BY <1>1, <1>2

(* What is released was counted. *)
LEMMA Referenced ==
    ASSUME IInv, Running
    PROVE  /\ \A n \in sock.copy \cup msg.copy : n \in Heap /\ node[n].nRefCount >= 1
           /\ sock.pc = "removing" => sock.cur \in Heap /\ node[sock.cur].alive /\ node[sock.cur].nRefCount >= 1
<1> USE DEF IInv
<1>0. sock.copy \subseteq Heap /\ msg.copy \subseteq Heap /\ sock.cur \in Heap \cup {NULL} /\ vNodes \subseteq Heap
  BY DEF NodesTypeOK, SockState, MsgState
<1>1. \A n \in Heap : Holders(n) \in Nat /\ Listed(n) \in Nat /\ (n \in sock.copy \cup msg.copy => Holders(n) >= 1)
  BY DEF Holders, Listed
<1>2. \A n \in Heap : node[n].nRefCount \in Nat
  BY DEF NodesTypeOK, NodeState
<1>3. \A n \in sock.copy \cup msg.copy : n \in Alive
  BY DEF NodesInUseAreAlive, SockUses, MsgUses
<1>4. sock.pc = "removing" => sock.cur \in Heap /\ sock.cur \in Alive /\ Listed(sock.cur) = 1
  BY <1>0 DEF NodesInUseAreAlive, SockUses, Listed, Removing, SockSound
<1>5. \A n \in Alive : n \in Heap /\ node[n].alive /\ node[n].nRefCount >= Holders(n) + Listed(n)
  BY DEF CountsSound, Counted, Alive
<1>6. QED
  BY <1>0, <1>1, <1>2, <1>3, <1>4, <1>5

(* An opener at rest. *)
LEMMA IdleEffect ==
    Idle \in OpenState /\ Idle.pc = "idle" /\ Idle.grant = FALSE /\ Idle.node = NULL /\ ~Idle.found /\ ~Idle.stale
BY NewNodes DEF Idle, Opening, OpenState

(* What an opener starts with. *)
LEMMA StartEffect ==
    ASSUME open \in [Opener -> OpenState], NEW o \in Opener, StartOpening(o)
    PROVE  /\ open' \in [Opener -> OpenState] /\ open[o].pc = "idle"
           /\ open'[o].pc \in {"check", "onetry"}
           /\ open'[o].node = NULL /\ ~open'[o].found /\ ~open'[o].stale
           /\ open'[o].grant => open'[o].pc = "check"
           /\ open'[o].pc = "check" /\ ~open'[o].named => open'[o].grant
           /\ IF open'[o].grant THEN semOutbound > 0 /\ semOutbound' = semOutbound - 1 ELSE semOutbound' = semOutbound
           /\ UNCHANGED <<node, vNodes, vNodesDisconnected, pnodeSync, sock, msg>>
           /\ \A p \in Opener \ {o} : open'[p] = open[p]
<1>1. \A pc \in {"check", "onetry"}, a \in Addr, b \in BOOLEAN, g \in BOOLEAN :
          LET f == Opening(pc, a, b, g) IN
          /\ f \in OpenState /\ f.pc = pc /\ f.node = NULL /\ ~f.found /\ ~f.stale
          /\ f.grant = g /\ f.named = b
  BY DEF Opening, OpenState
<1>2. CASE Acquire(o)
  <2>1. PICK a \in Addr, b \in BOOLEAN : open' = [open EXCEPT ![o] = Opening("check", a, b, TRUE)]
    BY <1>2 DEF Acquire
  <2>2. /\ open[o].pc = "idle"
        /\ semOutbound > 0 /\ semOutbound' = semOutbound - 1
        /\ UNCHANGED <<node, vNodes, vNodesDisconnected, pnodeSync, sock, msg>>
    BY <1>2 DEF Acquire
  <2> DEFINE f == Opening("check", a, b, TRUE)
  <2>3. /\ f \in OpenState /\ f.pc = "check" /\ f.node = NULL /\ ~f.found /\ ~f.stale /\ f.grant
    BY <1>1
  <2> HIDE DEF f
  <2>4. open' \in [Opener -> OpenState] /\ open'[o] = f /\ \A p \in Opener \ {o} : open'[p] = open[p]
    BY <2>1, <2>3 DEF f
  <2>5. QED
    BY <2>2, <2>3, <2>4
<1>3. CASE ConnectTo(o)
  <2>1. PICK a \in Addr : open' = [open EXCEPT ![o] = Opening("check", a, TRUE, FALSE)]
    BY <1>3 DEF ConnectTo
  <2>2. QED
    BY <1>1, <1>3, <2>1 DEF ConnectTo
<1>4. CASE OneTry(o)
  <2>1. PICK a \in Addr : open' = [open EXCEPT ![o] = Opening("onetry", a, TRUE, FALSE)]
    BY <1>4 DEF OneTry
  <2>2. QED
    BY <1>1, <1>4, <2>1 DEF OneTry
<1>5. QED
  BY <1>2, <1>3, <1>4 DEF StartOpening

(* An opener at the end of its grant's scope has nothing any more. *)
LEMMA FinishEffect ==
    ASSUME open \in [Opener -> OpenState], NEW o \in Opener, Finish(o)
    PROVE  /\ open' \in [Opener -> OpenState]
           /\ open'[o].pc = "idle" /\ ~open'[o].grant /\ open'[o].node = NULL /\ ~open'[o].found /\ ~open'[o].stale
           /\ \A p \in Opener \ {o} : open'[p] = open[p]
<1>1. Idle \in OpenState /\ Idle.pc = "idle" /\ ~Idle.grant /\ Idle.node = NULL /\ ~Idle.found /\ ~Idle.stale
  BY IdleEffect
<1>2. open' = [open EXCEPT ![o] = Idle]
  BY DEF Finish
<1>3. QED
  BY <1>1, <1>2

(* FindNode finds a node, or none. *)
LEMMA FindEffect ==
    ASSUME open \in [Opener -> OpenState], NEW o \in Opener, FindNode(o)
    PROVE  /\ open'[o].grant = open[o].grant /\ open'[o].stale = open[o].stale
           /\ open'[o].pc \in {"connect", "addref"}
           /\ open'[o].pc = "connect" => open'[o].node = open[o].node /\ open'[o].found = open[o].found
           /\ open'[o].pc = "addref" => open'[o].node \in vNodes /\ open'[o].found
           /\ \A p \in Opener \ {o} : open'[p] = open[p]
<1>1. CASE open' = [open EXCEPT ![o].pc = "connect"]
  BY <1>1 DEF OpenState
<1>2. ASSUME NEW n \in vNodes, open' = [open EXCEPT ![o].pc = "addref", ![o].node = n, ![o].found = TRUE]
      PROVE  /\ open'[o].grant = open[o].grant /\ open'[o].stale = open[o].stale
             /\ open'[o].pc = "addref" /\ open'[o].node = n /\ open'[o].found
             /\ \A p \in Opener \ {o} : open'[p] = open[p]
  BY <1>2 DEF OpenState
<1>3. QED
  BY <1>1, <1>2 DEF FindNode, Connected

(* Connect makes a node and hands it to its opener, but addnode has no use for it. *)
LEMMA OpenedEffect ==
    ASSUME open \in [Opener -> OpenState], NEW o \in Opener, Connect(o)
    PROVE  \E n \in Free :
              /\ node' = [node EXCEPT ![n] = Made(open[o].addr, open[o].grant)]
              /\ vNodes' = vNodes \cup {n}
              /\ UNCHANGED <<vNodesDisconnected, pnodeSync, semOutbound, sock, msg>>
              /\ open' \in [Opener -> OpenState]
              /\ open[o].pc \in {"connect", "onetry"} /\ CsFree
              /\ open[o].pc = "onetry" => open'[o] = Idle
              /\ open[o].pc = "connect" =>
                    /\ open'[o].pc = IF open[o].grant THEN "move" ELSE "network"
                    /\ open'[o].node = n /\ open'[o].grant = open[o].grant
                    /\ open'[o].found = open[o].found /\ open'[o].stale = open[o].stale
              /\ \A p \in Opener \ {o} : open'[p] = open[p]
<1> DEFINE After(n) == [open[o] EXCEPT !.pc = IF open[o].grant THEN "move" ELSE "network", !.named = FALSE, !.node = n]
<1>1. PICK n \in Free :
          /\ node' = [node EXCEPT ![n] = Made(open[o].addr, open[o].grant)]
          /\ vNodes' = vNodes \cup {n}
          /\ open' = [open EXCEPT ![o] = IF open[o].pc = "onetry" THEN Idle ELSE After(n)]
  BY DEF Connect, Made
<1>2. /\ After(n) \in OpenState /\ After(n).pc = IF open[o].grant THEN "move" ELSE "network"
      /\ After(n).node = n /\ After(n).grant = open[o].grant
      /\ After(n).found = open[o].found /\ After(n).stale = open[o].stale
  BY DEF OpenState, Free
<1>3. /\ UNCHANGED <<vNodesDisconnected, pnodeSync, semOutbound, sock, msg>>
      /\ open[o].pc \in {"connect", "onetry"} /\ CsFree
  BY DEF Connect
<1> HIDE DEF After
<1>4. QED
  BY <1>1, <1>2, <1>3, IdleEffect

-----------------------------------------------------------------------------
(* Who changes what *)

(* The socket thread's state and vNodesDisconnected are its own, and only    *)
(* Connect adds to vNodes besides; the message thread's state is its own,    *)
(* and an opener's is, except that DeleteNode may make its node a stale one. *)
Disturbs(o) == UseFreed(o) \/ Connect(o)

(* Who changes the lists. *)
LEMMA SockFrame == Next => SockLoop \/ UNCHANGED <<sock, vNodes, vNodesDisconnected>> \/ \E o \in Opener : Disturbs(o)
<1>1. MsgLoop => UNCHANGED <<sock, vNodes, vNodesDisconnected>>
  BY DEF MsgLoop, MsgCopy, NoSyncCandidate, SetSync, ChooseSync, PollNode, HandleNode, MsgRelease
<1>2. \A o \in Opener : StartOpening(o) => UNCHANGED <<sock, vNodes, vNodesDisconnected>>
  BY DEF StartOpening, Acquire, ConnectTo, OneTry
<1>3. \A o \in Opener : OpenConnection(o) => UNCHANGED <<sock, vNodes, vNodesDisconnected>> \/ Disturbs(o)
  BY DEF OpenConnection, AlreadyConnected, NotConnected, FindNode, AddRefFound, ConnectFails, MoveGrant, SetNetworkNode,
         Disturbs
<1>4. QED
  BY <1>1, <1>2, <1>3 DEF Next

(* Who changes the message thread's state. *)
LEMMA MsgFrame == Next => MsgLoop \/ UNCHANGED msg \/ \E o \in Opener : UseFreed(o)
<1>1. SockLoop => UNCHANGED msg
  BY DEF SockLoop, KeepNode, RemoveNode, TryDelete, ServiceNode, HoldDisconnected, RemovalDone, DeleteNode,
         FreeingDone, AcceptConnection, AcceptNothing, SockCopy, SockRelease
<1>2. \A o \in Opener : StartOpening(o) => UNCHANGED msg
  BY DEF StartOpening, Acquire, ConnectTo, OneTry
<1>3. \A o \in Opener : OpenConnection(o) => UNCHANGED msg \/ UseFreed(o)
  BY DEF OpenConnection, AlreadyConnected, NotConnected, FindNode, AddRefFound, Connect, ConnectFails, MoveGrant, SetNetworkNode
<1>4. QED
  BY <1>1, <1>2, <1>3 DEF Next

(* Who changes an opener's state. *)
LEMMA OpenFrame == Next => DeleteNode \/ UNCHANGED open \/ \E o \in Opener : StartOpening(o) \/ OpenConnection(o)
<1>1. SockLoop => DeleteNode \/ UNCHANGED open
  BY DEF SockLoop, KeepNode, RemoveNode, TryDelete, ServiceNode, HoldDisconnected, RemovalDone,
         FreeingDone, AcceptConnection, AcceptNothing, SockCopy, SockRelease
<1>2. MsgLoop => UNCHANGED open
  BY DEF MsgLoop, MsgCopy, NoSyncCandidate, SetSync, ChooseSync, PollNode, HandleNode, MsgRelease
<1>3. QED
  BY <1>1, <1>2 DEF Next

(* The steps of no consequence below: no node is made, deleted, released or  *)
(* referred to, and no list, snapshot or opener changes.                     *)
Quiet ==
    /\ SameLife(node') /\ SameCounts(node')
    /\ UNCHANGED <<vNodes, vNodesDisconnected, semOutbound, open>>
    /\ sock'.copy = sock.copy /\ msg'.copy = msg.copy
    /\ Removing' = Removing
    /\ sock'.cur \in {NULL, sock.cur} \cup vNodesDisconnected

(* The parts of the type invariant. *)
LEMMA TypedParts ==
    ASSUME NodesTypeOK
    PROVE  /\ NodesTyped /\ open \in [Opener -> OpenState] /\ sock \in SockState /\ msg \in MsgState
           /\ vNodes \subseteq Heap /\ vNodesDisconnected \subseteq Heap /\ pnodeSync \in Heap \cup {NULL}
           /\ semOutbound \in 0..MaxOutbound
           /\ sock.copy \subseteq Heap /\ sock.todo \subseteq Heap /\ sock.cur \in Heap \cup {NULL}
           /\ msg.copy \subseteq Heap /\ msg.todo \subseteq Heap /\ msg.cur \in Heap \cup {NULL}
           /\ \A o \in Opener : open[o] \in OpenState
BY DEF NodesTypeOK, NodesTyped, SockState, MsgState

(* The pointers that are written through are addresses. *)
LEMMA Pointers ==
    ASSUME IInv, Running
    PROVE  /\ msg.pc \in {"setsync", "handle"} => msg.cur \in Heap
           /\ sock.pc \in {"removing", "deleting"} => sock.cur \in Heap
           /\ \A o \in Opener : open[o].pc \in {"addref", "move", "network"} => open[o].node \in Heap
<1>1. NodesTypeOK /\ SockSound /\ MsgSound /\ OpenSound
  BY DEF IInv
<1>2. QED
  BY <1>1, TypedParts DEF SockSound, MsgSound, OpenSound, HasNode

(* All steps but these are quiet. *)
LEMMA QuietSteps ==
    ASSUME IInv, Running, Next
    PROVE  \/ Quiet
           \/ \E n \in Heap : RemoveNode(n)
           \/ HoldDisconnected \/ DeleteNode \/ AcceptConnection \/ SockCopy \/ SockRelease
           \/ MsgCopy \/ MsgRelease
           \/ \E o \in Opener : StartOpening(o) \/ OpenConnection(o)
<1>1. NodesTypeOK
  BY DEF IInv
<1>2. UNCHANGED node => SameLife(node') /\ SameCounts(node')
  BY <1>1, TypedParts DEF NodesTyped, SameLife, SameCounts
<1>3. \A n \in Heap : node' = Closed(n) => SameLife(node') /\ SameCounts(node')
  BY <1>1, TypedParts, ClosedEffect
<1>4. ASSUME NEW n \in Heap, KeepNode(n) \/ TryDelete(n) PROVE Quiet
  <2>1. CASE KeepNode(n)
    BY <1>1, <1>2, <2>1, TypedParts DEF Quiet, SockState, Removing, KeepNode
  <2>2. CASE TryDelete(n)
    <3>1. n \in vNodesDisconnected
      BY <2>2 DEF IInv, SockSound, TryDelete
    <3>2. QED
      BY <1>1, <1>2, <2>2, <3>1, TypedParts DEF Quiet, SockState, Removing, TryDelete
  <2>3. QED
    BY <1>4, <2>1, <2>2
<1>5. ASSUME NEW n \in Heap, ServiceNode(n) PROVE Quiet
  BY <1>1, <1>2, <1>3, <1>5, TypedParts DEF Quiet, SockState, Removing, ServiceNode
<1>6. ASSUME RemovalDone \/ FreeingDone \/ AcceptNothing PROVE Quiet
  BY <1>1, <1>2, <1>6, TypedParts DEF Quiet, SockState, Removing, RemovalDone, FreeingDone, AcceptNothing
<1>7. ASSUME NEW n \in Heap, ChooseSync(n) \/ PollNode(n) PROVE Quiet
  BY <1>1, <1>2, <1>7, TypedParts DEF Quiet, MsgState, Removing, ChooseSync, PollNode
<1>8. CASE NoSyncCandidate
  BY <1>1, <1>2, <1>8, TypedParts DEF Quiet, MsgState, Removing, NoSyncCandidate
<1>9. CASE SetSync
  BY <1>1, <1>2, <1>9, TypedParts, Pointers DEF Quiet, MsgState, Removing, SetSync
<1>10. CASE HandleNode
  BY <1>1, <1>2, <1>3, <1>10, TypedParts, Pointers DEF Quiet, MsgState, Removing, HandleNode
<1>11. QED
  BY <1>4, <1>5, <1>6, <1>7, <1>8, <1>9, <1>10 DEF Next, SockLoop, MsgLoop

-----------------------------------------------------------------------------
(* Types *)

(* The type of the nodes is preserved. *)
LEMMA NodeTypeStep == ASSUME IInv, Running, Next PROVE NodesTyped'
<1>a. NodesTypeOK
  BY DEF IInv
<1>1. CASE Quiet
  BY <1>1 DEF Quiet, SameLife, NodesTyped
<1>2. ASSUME NEW n \in Heap, RemoveNode(n) PROVE NodesTyped'
  BY <1>a, <1>2, TypedParts, NodeAfter, RemoveEffect DEF NodesTyped
<1>3. CASE HoldDisconnected
  BY <1>a, <1>3, TypedParts, Referenced, ReleasesEffect DEF NodesTyped, SameLife, HoldDisconnected
<1>4. CASE DeleteNode
  BY <1>a, <1>4, TypedParts, Pointers, NewNodes DEF NodesTyped, DeleteNode
<1>5. CASE AcceptConnection
  <2>1. PICK n \in Heap, a \in Addr : node' = [node EXCEPT ![n] = FreshNode(a, TRUE)]
    BY <1>5 DEF AcceptConnection, Free
  <2>2. QED
    BY <1>a, <2>1, TypedParts, NewNodes DEF NodesTyped
<1>6. CASE SockCopy
  BY <1>a, <1>6, TypedParts, AddRefsEffect DEF NodesTyped, SameLife, SockCopy
<1>7. CASE SockRelease
  BY <1>a, <1>7, TypedParts, Referenced, ReleasesEffect DEF NodesTyped, SameLife, SockRelease
<1>8. CASE MsgCopy
  BY <1>a, <1>8, TypedParts, AddRefsEffect DEF NodesTyped, SameLife, MsgCopy
<1>9. CASE MsgRelease
  BY <1>a, <1>9, TypedParts, Referenced, ReleasesEffect DEF NodesTyped, SameLife, MsgRelease
<1>10. ASSUME NEW o \in Opener, StartOpening(o) \/ OpenConnection(o) PROVE NodesTyped'
  <2>1. CASE UNCHANGED node
    BY <1>a, <2>1, TypedParts DEF NodesTyped
  <2>2. CASE AddRefFound(o)
    BY <1>a, <2>2, TypedParts, Pointers, AddRefsEffect DEF NodesTyped, SameLife, AddRefFound
  <2>3. CASE Connect(o)
    <3>1. PICK n \in Heap : node' = [node EXCEPT ![n] = Made(open[o].addr, open[o].grant)]
      BY <2>3 DEF Connect, Free, Made
    <3>2. open[o].addr \in Addr /\ open[o].grant \in BOOLEAN
      BY <1>a, TypedParts DEF OpenState
    <3>3. QED
      BY <1>a, <3>1, <3>2, TypedParts, MadeNodes DEF NodesTyped
  <2>4. CASE MoveGrant(o)
    <3>1. node' = Granting(open[o].node) /\ open[o].node \in Heap
      BY <2>4, Pointers, NodeAfter
    <3>2. QED
      BY <1>a, <3>1, TypedParts, GrantEffect DEF NodesTyped
  <2>5. CASE SetNetworkNode(o)
    <3>1. node' = Networked(open[o].node) /\ open[o].node \in Heap
      BY <2>5, Pointers, NodeAfter
    <3>2. QED
      BY <1>a, <3>1, TypedParts, NetworkEffect DEF NodesTyped
  <2>6. QED
    BY <1>10, <2>1, <2>2, <2>3, <2>4, <2>5
       DEF StartOpening, Acquire, ConnectTo, OneTry, OpenConnection, AlreadyConnected, NotConnected, FindNode, ConnectFails, UseFreed
<1>11. QED
  BY <1>1, <1>2, <1>3, <1>4, <1>5, <1>6, <1>7, <1>8, <1>9, <1>10, QuietSteps

(* So is that of the openers' states, *)
LEMMA OpenTypeStep == ASSUME IInv, Running, Next PROVE (open \in [Opener -> OpenState])'
<1>a. NodesTypeOK /\ open \in [Opener -> OpenState]
  BY DEF IInv, NodesTypeOK
<1>1. CASE UNCHANGED open
  BY <1>a, <1>1
<1>2. CASE DeleteNode
  <2>1. \A o \in Opener, b \in BOOLEAN : [open[o] EXCEPT !.stale = @ \/ b] \in OpenState
    BY <1>a DEF OpenState
  <2>2. QED
    BY <1>2, <2>1 DEF DeleteNode
<1>3. ASSUME NEW o \in Opener, StartOpening(o) \/ NotConnected(o) \/ AddRefFound(o) \/ MoveGrant(o)
      PROVE  open' \in [Opener -> OpenState]
  <2>1. CASE StartOpening(o)
    BY <1>a, <2>1, StartEffect
  <2>2. CASE NotConnected(o)
    BY <1>a, <2>2 DEF OpenState, NotConnected
  <2>3. CASE AddRefFound(o)
    BY <1>a, <2>3 DEF OpenState, AddRefFound
  <2>4. CASE MoveGrant(o)
    <3>1. open' = [open EXCEPT ![o] = [open[o] EXCEPT !.pc = "network", !.grant = FALSE]]
      BY <2>4 DEF MoveGrant
    <3>2. [open[o] EXCEPT !.pc = "network", !.grant = FALSE] \in OpenState
      BY <1>a DEF OpenState
    <3>3. QED
      BY <1>a, <3>1, <3>2
  <2>5. QED
    BY <1>3, <2>1, <2>2, <2>3, <2>4
<1>4. ASSUME NEW o \in Opener, AlreadyConnected(o) \/ ConnectFails(o) \/ SetNetworkNode(o)
      PROVE  open' \in [Opener -> OpenState]
  <2>1. Finish(o)
    BY <1>4 DEF AlreadyConnected, ConnectFails, SetNetworkNode
  <2>2. QED
    BY <1>a, <2>1, FinishEffect
<1>5. ASSUME NEW o \in Opener, FindNode(o) PROVE open' \in [Opener -> OpenState]
  <2>1. CASE open' = [open EXCEPT ![o].pc = "connect"]
    BY <1>a, <2>1 DEF OpenState
  <2>2. ASSUME NEW n \in Heap, open' = [open EXCEPT ![o].pc = "addref", ![o].node = n, ![o].found = TRUE]
        PROVE  open' \in [Opener -> OpenState]
    <3>1. [open[o] EXCEPT !.pc = "addref", !.node = n, !.found = TRUE] \in OpenState
      BY <1>a DEF OpenState
    <3>2. open' = [open EXCEPT ![o] = [open[o] EXCEPT !.pc = "addref", !.node = n, !.found = TRUE]]
      BY <2>2
    <3>3. QED
      BY <1>a, <3>1, <3>2
  <2>3. Connected(open[o].addr) \subseteq Heap
    BY <1>a, TypedParts DEF Connected
  <2>4. QED
    BY <1>5, <2>1, <2>2, <2>3 DEF FindNode
<1>6. ASSUME NEW o \in Opener, UseFreed(o) PROVE open' \in [Opener -> OpenState]
  <2>1. \A p \in Opener : [open[p] EXCEPT !.pc = "undefined"] \in OpenState
    BY <1>a DEF OpenState
  <2>2. QED
    BY <1>6, <2>1 DEF UseFreed
<1>7. ASSUME NEW o \in Opener, Connect(o) PROVE open' \in [Opener -> OpenState]
  BY <1>a, <1>7, OpenedEffect
<1>8. QED
  BY <1>1, <1>2, <1>3, <1>4, <1>5, <1>6, <1>7, OpenFrame DEF OpenConnection

(* that of the pointer to the sync node, *)
LEMMA SyncTypeStep == ASSUME IInv, Running, Next PROVE (pnodeSync \in Heap \cup {NULL})'
<1>a. NodesTypeOK /\ pnodeSync \in Heap \cup {NULL}
  BY DEF IInv, NodesTypeOK
<1>1. SockLoop \/ MsgLoop => UNCHANGED pnodeSync \/ SetSync \/ \E n \in Heap : pnodeSync' = SyncWithout(n)
  <2>1. SockLoop => UNCHANGED pnodeSync \/ \E n \in Heap : pnodeSync' = SyncWithout(n)
    BY DEF SockLoop, KeepNode, RemoveNode, TryDelete, ServiceNode, HoldDisconnected, RemovalDone, DeleteNode,
           FreeingDone, AcceptConnection, AcceptNothing, SockCopy, SockRelease
  <2>2. HandleNode => UNCHANGED pnodeSync \/ \E n \in Heap : pnodeSync' = SyncWithout(n)
    BY Pointers DEF HandleNode
  <2>3. MsgLoop => UNCHANGED pnodeSync \/ SetSync \/ HandleNode
    BY DEF MsgLoop, MsgCopy, NoSyncCandidate, ChooseSync, PollNode, MsgRelease
  <2>4. QED
    BY <2>1, <2>2, <2>3, Zenon
<1>2. SetSync => pnodeSync' \in Heap
  BY Pointers DEF SetSync
<1>3. \A n \in Heap : SyncWithout(n) \in Heap \cup {NULL}
  BY <1>a DEF SyncWithout
<1>4. \A o \in Opener : StartOpening(o) \/ OpenConnection(o) => UNCHANGED pnodeSync
  BY DEF StartOpening, Acquire, ConnectTo, OneTry, OpenConnection, AlreadyConnected, NotConnected, FindNode, AddRefFound, UseFreed, Connect, ConnectFails,
         MoveGrant, SetNetworkNode
<1>5. QED
  BY <1>a, <1>1, <1>2, <1>3, <1>4 DEF Next

(* those of the socket thread's state and its lists, *)
LEMMA SockTypeStep ==
    ASSUME IInv, Running, Next
    PROVE  (sock \in SockState /\ vNodes \subseteq Heap /\ vNodesDisconnected \subseteq Heap)'
<1>a. sock \in SockState /\ vNodes \subseteq Heap /\ vNodesDisconnected \subseteq Heap
  BY DEF IInv, NodesTypeOK
<1> DEFINE P == sock \in SockState /\ vNodes \subseteq Heap /\ vNodesDisconnected \subseteq Heap
<1>1. ASSUME NEW n \in Heap, KeepNode(n) \/ RemoveNode(n) \/ TryDelete(n) \/ ServiceNode(n) PROVE P'
  BY <1>a, <1>1 DEF SockState, KeepNode, RemoveNode, TryDelete, ServiceNode
<1>2. ASSUME RemovalDone \/ FreeingDone \/ AcceptNothing \/ SockCopy \/ SockRelease PROVE P'
  BY <1>a, <1>2 DEF SockState, RemovalDone, FreeingDone, AcceptNothing, SockCopy, SockRelease
<1>3. CASE HoldDisconnected
  BY <1>a, <1>3, Pointers DEF SockState, HoldDisconnected
<1>4. CASE DeleteNode
  BY <1>a, <1>4 DEF SockState, DeleteNode
<1>5. CASE AcceptConnection
  BY <1>a, <1>5 DEF SockState, AcceptConnection, Free
<1>6. ASSUME NEW o \in Opener, Disturbs(o) PROVE P'
  BY <1>a, <1>6 DEF SockState, Disturbs, UseFreed, Connect, Free
<1>7. QED
  BY <1>a, <1>1, <1>2, <1>3, <1>4, <1>5, <1>6, SockFrame DEF SockLoop

(* and that of the message thread's state. *)
LEMMA MsgTypeStep == ASSUME IInv, Running, Next PROVE (msg \in MsgState)'
<1>a. NodesTypeOK /\ msg \in MsgState
  BY DEF IInv, NodesTypeOK
<1>1. ASSUME NEW n \in Heap, ChooseSync(n) \/ PollNode(n) PROVE msg' \in MsgState
  <2>1. CASE ChooseSync(n)
    BY <1>a, <2>1 DEF MsgState, ChooseSync
  <2>2. CASE PollNode(n)
    BY <1>a, <2>2 DEF MsgState, PollNode
  <2>3. QED
    BY <1>1, <2>1, <2>2
<1>2. ASSUME NoSyncCandidate \/ SetSync \/ HandleNode \/ MsgRelease PROVE msg' \in MsgState
  BY <1>a, <1>2 DEF MsgState, NoSyncCandidate, SetSync, HandleNode, MsgRelease
<1>3. CASE MsgCopy
  BY <1>a, <1>3, TypedParts DEF MsgState, MsgCopy
<1>4. ASSUME NEW o \in Opener, UseFreed(o) PROVE msg' \in MsgState
  BY <1>a, <1>4 DEF MsgState, UseFreed
<1>5. QED
  BY <1>a, <1>1, <1>2, <1>3, <1>4, MsgFrame DEF MsgLoop

-----------------------------------------------------------------------------
(* The threads *)

(* After a write to freed memory nothing is known to run. *)
LEMMA UseFreedEnds == ASSUME IInv, NEW o \in Opener, UseFreed(o) PROVE ~Running'
BY DEF IInv, NodesTypeOK, SockState, UseFreed, Running

(* Only Connect makes an opener one that has made a node. *)
LEMMA OpensStays ==
    ASSUME IInv, Running, Next, NEW p \in Opener, NEW m \in Heap, Opens(p, m)', ~Connect(p)
    PROVE  Opens(p, m) /\ (open'[p].pc = "move" => open[p].pc = "move")
<1> DEFINE P == Opens(p, m) /\ (open'[p].pc = "move" => open[p].pc = "move")
<1>a. open \in [Opener -> OpenState] /\ OpenSound
  BY DEF IInv, NodesTypeOK
<1> USE DEF OpenState, Opens
<1>1. CASE UNCHANGED open
  BY <1>1
<1>2. CASE DeleteNode
  BY <1>a, <1>2 DEF DeleteNode
<1>3. ASSUME NEW o \in Opener, StartOpening(o) \/ NotConnected(o) PROVE P
  <2>1. CASE StartOpening(o)
    BY <1>a, <2>1, StartEffect
  <2>2. CASE NotConnected(o)
    BY <1>a, <2>2 DEF NotConnected
  <2>3. QED
    BY <1>3, <2>1, <2>2
<1>4. ASSUME NEW o \in Opener, AlreadyConnected(o) \/ ConnectFails(o) \/ SetNetworkNode(o) PROVE P
  <2>1. Finish(o)
    BY <1>4 DEF AlreadyConnected, ConnectFails, SetNetworkNode
  <2>2. QED
    BY <1>a, <2>1, FinishEffect
<1>5. ASSUME NEW o \in Opener, FindNode(o) PROVE P
  <2>1. open'[p] = open[p] \/ open'[p].pc \in {"connect", "addref"}
    BY <1>a, <1>5, FindEffect
  <2>2. QED
    BY <2>1
<1>6. ASSUME NEW o \in Opener, AddRefFound(o) PROVE P
  BY <1>a, <1>6 DEF AddRefFound, OpenSound, Progress
<1>7. ASSUME NEW o \in Opener, UseFreed(o) PROVE P
  BY <1>a, <1>7 DEF UseFreed
<1>8. ASSUME NEW o \in Opener, Connect(o) PROVE P
  <2>1. open'[p] = open[p]
    BY <1>a, <1>8, OpenedEffect
  <2>2. QED
    BY <2>1
<1>9. ASSUME NEW o \in Opener, MoveGrant(o) PROVE P
  BY <1>a, <1>9 DEF MoveGrant
<1>10. QED
  BY <1>1, <1>2, <1>3, <1>4, <1>5, <1>6, <1>7, <1>8, <1>9, OpenFrame DEF OpenConnection

(* Where the socket thread stands is preserved, while it runs. *)
LEMMA SockStep == ASSUME IInv, Running, Next, Running' PROVE SockSound'
<1>a. sock \in SockState /\ vNodes \subseteq Heap /\ vNodesDisconnected \subseteq Heap
  BY DEF IInv, NodesTypeOK
<1>b. SockSound /\ DeletingSound /\ NodesInUseAreAlive
  BY DEF IInv
<1>1. ASSUME NEW n \in Heap, KeepNode(n) \/ ServiceNode(n) PROVE SockSound'
  BY <1>a, <1>b, <1>1 DEF SockSound, SockState, KeepNode, ServiceNode
<1>2. ASSUME NEW n \in Heap, RemoveNode(n) PROVE SockSound'
  BY <1>a, <1>b, <1>2 DEF SockSound, SockState, RemoveNode
<1>3. ASSUME NEW n \in Heap, TryDelete(n) PROVE SockSound'
  BY <1>a, <1>b, <1>3 DEF SockSound, SockState, TryDelete
<1>4. CASE HoldDisconnected
  BY <1>a, <1>b, <1>4 DEF SockSound, SockState, HoldDisconnected
<1>5. ASSUME RemovalDone \/ FreeingDone \/ AcceptNothing PROVE SockSound'
  BY <1>a, <1>b, <1>5 DEF SockSound, SockState, RemovalDone, FreeingDone, AcceptNothing
<1>6. CASE DeleteNode
  BY <1>a, <1>b, <1>6 DEF SockSound, DeletingSound, SockState, DeleteNode
<1>7. CASE AcceptConnection
  BY <1>a, <1>b, <1>7 DEF SockSound, SockState, AcceptConnection, Free, Alive, NodesInUseAreAlive, SockUses
<1>8. ASSUME SockCopy \/ SockRelease PROVE SockSound'
  <2>1. CASE SockCopy
    BY <1>a, <1>b, <2>1 DEF SockSound, SockState, SockCopy
  <2>2. CASE SockRelease
    BY <1>a, <1>b, <2>2 DEF SockSound, SockState, SockRelease
  <2>3. QED
    BY <1>8, <2>1, <2>2
<1>9. ASSUME NEW o \in Opener, Connect(o) PROVE SockSound'
  BY <1>a, <1>b, <1>9 DEF SockSound, SockState, Connect, Free, Alive, NodesInUseAreAlive, SockUses, CsFree
<1>10. CASE UNCHANGED <<sock, vNodes, vNodesDisconnected>>
  BY <1>b, <1>10 DEF SockSound
<1>11. QED
  BY <1>1, <1>2, <1>3, <1>4, <1>5, <1>6, <1>7, <1>8, <1>9, <1>10, SockFrame, UseFreedEnds DEF SockLoop, Disturbs

(* So is where the message thread stands. *)
LEMMA MsgStep == ASSUME IInv, Running, Next, Running' PROVE MsgSound'
<1>a. msg \in MsgState /\ MsgSound
  BY DEF IInv, NodesTypeOK
<1>1. ASSUME NEW n \in Heap, ChooseSync(n) \/ PollNode(n) PROVE MsgSound'
  <2>1. CASE ChooseSync(n)
    BY <1>a, <2>1 DEF MsgSound, MsgState, ChooseSync
  <2>2. CASE PollNode(n)
    BY <1>a, <2>2 DEF MsgSound, MsgState, PollNode
  <2>3. QED
    BY <1>1, <2>1, <2>2
<1>2. ASSUME MsgCopy \/ NoSyncCandidate \/ SetSync \/ HandleNode \/ MsgRelease PROVE MsgSound'
  BY <1>a, <1>2 DEF MsgSound, MsgState, MsgCopy, NoSyncCandidate, SetSync, HandleNode, MsgRelease
<1>3. CASE UNCHANGED msg
  BY <1>a, <1>3 DEF MsgSound
<1>4. QED
  BY <1>1, <1>2, <1>3, MsgFrame, UseFreedEnds DEF MsgLoop

(* The message thread gets its nodes from vNodes. *)
LEMMA MsgKeeps == ASSUME IInv, Next PROVE msg'.copy \subseteq msg.copy \cup vNodes
<1>1. msg \in MsgState
  BY DEF IInv, NodesTypeOK
<1>2. MsgLoop => msg'.copy \subseteq msg.copy \cup vNodes
  BY <1>1 DEF MsgState, MsgLoop, MsgCopy, NoSyncCandidate, SetSync, ChooseSync, PollNode, HandleNode, MsgRelease
<1>3. \A o \in Opener : UseFreed(o) => msg'.copy = msg.copy
  BY <1>1 DEF MsgState, UseFreed
<1>4. QED
  BY <1>2, <1>3, MsgFrame

(* Nobody gets hold of the node that TryDelete chose before DeleteNode deletes it. *)
LEMMA DeletingStep == ASSUME IInv, Running, Next, Running' PROVE DeletingSound'
<1>a. NodesTyped /\ sock \in SockState /\ vNodesDisconnected \subseteq Heap
  BY TypedParts DEF IInv
<1>b. SockSound /\ DeletingSound /\ CountsSound /\ NodesInUseAreAlive
  BY DEF IInv
<1> SUFFICES ASSUME sock'.pc = "deleting", NEW c, c = sock'.cur
             PROVE  /\ c \in vNodesDisconnected' \ (sock'.todo \cup msg'.copy)
                    /\ \A o \in Opener : ~Opens(o, c)'
  BY DEF DeletingSound, Opens
<1>1. ASSUME NEW n \in Heap, TryDelete(n)
      PROVE  /\ c \in vNodesDisconnected' \ (sock'.todo \cup msg'.copy)
             /\ \A o \in Opener : ~Opens(o, c)'
  <2>1. n \in vNodesDisconnected /\ n \in Alive /\ n \notin vNodes
    BY <1>a, <1>b, <1>1 DEF TryDelete, SockSound, NodesInUseAreAlive
  <2>2. /\ MayDelete(n) /\ sock' = [sock EXCEPT !.pc = "deleting", !.todo = @ \ {n}, !.cur = n]
        /\ UNCHANGED <<vNodesDisconnected, msg, open>>
    BY <1>a, <1>1 DEF TryDelete, SockState
  <2>3. node[n].nRefCount \in Nat /\ node[n].nRefCount <= 0
    BY <1>a, <2>2 DEF MayDelete, NodesTyped, NodeState
  <2>4. Holders(n) \in Nat /\ (Holders(n) = 0 => n \notin msg.copy) /\ Listed(n) \in Nat
    BY DEF Holders, Listed
  <2>5. n \notin msg.copy
    BY <1>b, <2>1, <2>3, <2>4 DEF CountsSound, Counted
  <2>6. \A o \in Opener : ~Opens(o, n)
    BY <1>b, <2>1, <2>3, <2>4 DEF CountsSound, Counted
  <2>7. sock'.cur = n /\ sock'.todo = sock.todo \ {n}
    BY <1>a, <2>2 DEF SockState
  <2>8. QED
    BY <2>1, <2>2, <2>5, <2>6, <2>7 DEF Opens
<1>2. ASSUME UNCHANGED <<sock, vNodesDisconnected>>
      PROVE  /\ c \in vNodesDisconnected' \ (sock'.todo \cup msg'.copy)
             /\ \A o \in Opener : ~Opens(o, c)'
  <2>1. /\ c \in vNodesDisconnected \ (sock.todo \cup msg.copy)
        /\ \A o \in Opener : ~Opens(o, c)
        /\ c \in Heap
    BY <1>a, <1>b, <1>2 DEF DeletingSound
  <2>2. c \notin msg'.copy
    BY <1>b, <2>1, MsgKeeps DEF SockSound
  <2>3. ASSUME NEW o \in Opener, Connect(o) PROVE ~Opens(o, c)'
    <3>1. \A n \in Free : n # c
      BY <1>b, <2>1 DEF Free, NodesInUseAreAlive, Alive
    <3>2. open'[o].pc = "idle" \/ open'[o].node \in Free
      BY <2>3, OpenedEffect, IdleEffect DEF IInv, NodesTypeOK
    <3>3. QED
      BY <3>1, <3>2, <1>2 DEF Opens
  <2>4. \A o \in Opener : ~Opens(o, c)'
    BY <1>a, <2>1, <2>3, OpensStays
  <2>5. QED
    BY <1>2, <2>1, <2>2, <2>4 DEF Opens
<1>3. SockLoop => (\E n \in Heap : TryDelete(n)) \/ UNCHANGED <<sock, vNodesDisconnected>>
  BY <1>a DEF SockState, SockLoop, KeepNode, RemoveNode, ServiceNode, HoldDisconnected, RemovalDone, DeleteNode,
              FreeingDone, AcceptConnection, AcceptNothing, SockCopy, SockRelease
<1>4. \A o \in Opener : Connect(o) => UNCHANGED <<sock, vNodesDisconnected>>
  BY DEF Connect
<1>5. QED
  BY <1>1, <1>2, <1>3, <1>4, SockFrame, UseFreedEnds DEF Disturbs

-----------------------------------------------------------------------------
(* The openers *)

(* Where an opener stands is preserved; a stale node is one that it found. *)
LEMMA ProgressStep ==
    ASSUME IInv, Running, Next, Running', NEW p \in Opener
    PROVE  /\ Progress(p)' /\ (open'[p].stale => open'[p].found)
           /\ open'[p].pc \in {"addref", "move", "network"} => open'[p].node \in Heap
<1> DEFINE P == /\ Progress(p)' /\ (open'[p].stale => open'[p].found)
                /\ open'[p].pc \in {"addref", "move", "network"} => open'[p].node \in Heap
<1>a. open \in [Opener -> OpenState] /\ vNodes \subseteq Heap /\ vNodesDisconnected \subseteq Heap
  BY DEF IInv, NodesTypeOK
<1>b. /\ Progress(p) /\ (open[p].stale => open[p].found)
      /\ open[p].pc \in {"addref", "move", "network"} => open[p].node \in Heap
  BY Pointers DEF IInv, OpenSound, NodesInUseAreAlive
<1>c. DeleteNode => sock.cur # NULL /\ ~Opens(p, sock.cur)
  BY Pointers DEF IInv, DeletingSound, DeleteNode
<1> USE DEF Progress, OpenState
<1>1. ASSUME open'[p] = open[p] PROVE P
  BY <1>b, <1>1
<1>2. CASE DeleteNode
  <2>1. open'[p] = [open[p] EXCEPT !.stale = @ \/ open[p].node = sock.cur]
    BY <1>a, <1>2 DEF DeleteNode
  <2>2. /\ open'[p].pc = open[p].pc /\ open'[p].grant = open[p].grant /\ open'[p].node = open[p].node
        /\ open'[p].found = open[p].found /\ open'[p].stale = (open[p].stale \/ open[p].node = sock.cur)
        /\ open'[p].named = open[p].named
    BY <1>a, <2>1
  <2>3. open[p].node = sock.cur => open[p].found
    BY <1>a, <1>b, <1>c, <1>2 DEF Opens
  <2>4. QED
    BY <1>b, <1>c, <1>2, <2>2, <2>3
<1>3. ASSUME NEW o \in Opener, StartOpening(o) PROVE P
  BY <1>1, <1>a, <1>3, StartEffect
<1>4. ASSUME NEW o \in Opener, AlreadyConnected(o) \/ ConnectFails(o) \/ SetNetworkNode(o) PROVE P
  <2>1. Finish(o)
    BY <1>4 DEF AlreadyConnected, ConnectFails, SetNetworkNode
  <2>2. QED
    BY <1>1, <1>a, <2>1, FinishEffect
<1>5. ASSUME NEW o \in Opener, NotConnected(o) PROVE P
  BY <1>1, <1>a, <1>b, <1>5 DEF NotConnected
<1>6. ASSUME NEW o \in Opener, FindNode(o) PROVE P
  <2>1. CASE open' = [open EXCEPT ![o].pc = "connect"]
    <3>1. CASE p = o
      <4>1. open'[p] = [open[p] EXCEPT !.pc = "connect"]
        BY <1>a, <2>1, <3>1
      <4>2. /\ open'[p].pc = "connect" /\ open'[p].node = open[p].node /\ open'[p].found = open[p].found
            /\ open'[p].grant = open[p].grant /\ open'[p].stale = open[p].stale
        BY <1>a, <4>1
      <4>3. open[p].pc = "find"
        BY <1>6, <3>1 DEF FindNode
      <4>4. QED
        BY <1>b, <4>2, <4>3
    <3>2. CASE p # o
      BY <1>1, <1>a, <2>1, <3>2
    <3>3. QED
      BY <3>1, <3>2
  <2>2. ASSUME NEW n \in Heap, open' = [open EXCEPT ![o].pc = "addref", ![o].node = n, ![o].found = TRUE] PROVE P
    <3>1. CASE p = o
      <4>1. open'[o] = [open[o] EXCEPT !.pc = "addref", !.node = n, !.found = TRUE]
        BY <1>a, <2>2
      <4>2. /\ open'[o].pc = "addref" /\ open'[o].node = n /\ open'[o].found
            /\ open'[o].grant = open[o].grant /\ open'[o].stale = open[o].stale
        BY <1>a, <4>1
      <4>3. QED
        BY <1>b, <1>6, <3>1, <4>2 DEF FindNode
    <3>2. QED
      BY <1>1, <1>a, <2>2, <3>1
  <2>3. QED
    BY <1>a, <1>6, <2>1, <2>2 DEF FindNode, Connected
<1>7. ASSUME NEW o \in Opener, AddRefFound(o) PROVE P
  BY <1>1, <1>a, <1>b, <1>7 DEF AddRefFound
<1>8. ASSUME NEW o \in Opener, Connect(o) PROVE P
  <2>1. Free \subseteq Heap
    BY DEF Free
  <2>2. CASE p = o
    BY <1>a, <1>b, <1>8, <2>1, <2>2, OpenedEffect, IdleEffect
  <2>3. CASE p # o
    BY <1>1, <1>a, <1>8, <2>3, OpenedEffect
  <2>4. QED
    BY <2>2, <2>3
<1>9. ASSUME NEW o \in Opener, MoveGrant(o) PROVE P
  <2>1. CASE p = o
    <3>1. open'[o] = [open[o] EXCEPT !.pc = "network", !.grant = FALSE]
      BY <1>a, <1>9 DEF MoveGrant
    <3>2. QED
      BY <1>a, <1>b, <1>9, <2>1, <3>1 DEF MoveGrant
  <2>2. QED
    BY <1>1, <1>a, <1>9, <2>1 DEF MoveGrant
<1>10. QED
  BY <1>1, <1>2, <1>3, <1>4, <1>5, <1>6, <1>7, <1>8, <1>9, OpenFrame, UseFreedEnds DEF OpenConnection

(* An opener changes nobody else's state. *)
LEMMA OwnState ==
    ASSUME IInv, Running', NEW o \in Opener, StartOpening(o) \/ OpenConnection(o)
    PROVE  \A p \in Opener \ {o} : open'[p] = open[p]
<1>a. open \in [Opener -> OpenState]
  BY DEF IInv, NodesTypeOK
<1>1. CASE AlreadyConnected(o) \/ ConnectFails(o) \/ SetNetworkNode(o)
  <2>1. Finish(o)
    BY <1>1 DEF AlreadyConnected, ConnectFails, SetNetworkNode
  <2>2. QED
    BY <1>a, <2>1, FinishEffect
<1>2. CASE StartOpening(o)
  BY <1>a, <1>2, StartEffect
<1>3. CASE NotConnected(o)
  BY <1>a, <1>3 DEF NotConnected
<1>4. CASE FindNode(o)
  BY <1>a, <1>4 DEF FindNode
<1>5. CASE AddRefFound(o)
  BY <1>a, <1>5 DEF AddRefFound
<1>6. CASE Connect(o)
  BY <1>a, <1>6, OpenedEffect
<1>7. CASE MoveGrant(o)
  BY <1>a, <1>7 DEF MoveGrant
<1>8. QED
  BY <1>1, <1>2, <1>3, <1>4, <1>5, <1>6, <1>7, UseFreedEnds DEF OpenConnection

(* What Connect makes, and for whom. *)
LEMMA ConnectEffect ==
    ASSUME IInv, Running, NEW o \in Opener, Connect(o)
    PROVE  \E n \in Free, f \in NodeState :
              /\ node' = [node EXCEPT ![n] = f] /\ f = node'[n]
              /\ n \in Alive' /\ ~node'[n].fInbound /\ ~node'[n].fNetworkNode /\ ~node'[n].grantOutbound
              /\ node'[n].nRefCount = 1
              /\ vNodes' = vNodes \cup {n}
              /\ ~open'[o].stale /\ ~open'[o].found /\ open'[o].pc \in {"idle", "move", "network"}
              /\ open'[o].pc # "idle" => Opens(o, n)' /\ open'[o].node = n
              /\ \A m \in Heap : ~Joined(o, m)' /\ (Opens(o, m)' => m = n)
              /\ open'[o].grant = open[o].grant
              /\ node'[n].granted => open'[o].pc = "move"
              /\ \A p \in Opener \ {o} : open'[p] = open[p]
<1>a. NodesTypeOK /\ OpenSound
  BY DEF IInv
<1>b. open \in [Opener -> OpenState] /\ node \in [Heap -> NodeState]
  BY <1>a DEF NodesTypeOK
<1> DEFINE f == Made(open[o].addr, open[o].grant)
<1>1. PICK n \in Free :
          /\ node' = [node EXCEPT ![n] = f] /\ vNodes' = vNodes \cup {n}
          /\ open[o].pc = "onetry" => open'[o] = Idle
          /\ open[o].pc = "connect" =>
                /\ open'[o].pc = IF open[o].grant THEN "move" ELSE "network"
                /\ open'[o].node = n /\ open'[o].grant = open[o].grant
                /\ open'[o].found = open[o].found /\ open'[o].stale = open[o].stale
          /\ \A p \in Opener \ {o} : open'[p] = open[p]
  BY <1>b, OpenedEffect
<1>2. /\ open[o].addr \in Addr /\ open[o].grant \in BOOLEAN /\ n \in Heap
      /\ ~open[o].found /\ ~open[o].stale /\ (open[o].grant => open[o].pc = "connect")
      /\ open[o].pc \in {"connect", "onetry"}
  BY <1>a, <1>b DEF OpenState, Free, OpenSound, Progress, Connect
<1>3. /\ f \in NodeState
      /\ f.alive /\ f.nRefCount = 1 /\ ~f.fInbound /\ ~f.fNetworkNode /\ ~f.grantOutbound /\ f.granted = open[o].grant
  BY <1>2, MadeNodes
<1>4. node'[n] = f
  BY <1>b, <1>1, <1>2
<1> HIDE DEF f
<1>5. /\ ~open'[o].stale /\ ~open'[o].found /\ open'[o].pc \in {"idle", "move", "network"}
      /\ open'[o].pc # "idle" => open'[o].node = n
      /\ open'[o].grant = open[o].grant /\ (open[o].grant => open'[o].pc = "move")
  <2>1. CASE open[o].pc = "onetry"
    <3>1. open[o].grant = FALSE
      BY <1>2, <2>1
    <3>2. QED
      BY <1>1, <2>1, <3>1, IdleEffect
  <2>2. CASE open[o].pc = "connect"
    BY <1>1, <1>2, <2>2
  <2>3. QED
    BY <1>2, <2>1, <2>2
<1>6. /\ open'[o].pc # "idle" => Opens(o, n)'
      /\ \A m \in Heap : ~Joined(o, m)' /\ (Opens(o, m)' => m = n)
  BY <1>5 DEF Opens, Joined
<1>7. n \in Alive'
  BY <1>2, <1>3, <1>4 DEF Alive
<1>8. QED
  BY <1>1, <1>3, <1>4, <1>5, <1>6, <1>7

(* An opener keeps its node, unless it has just got it. *)
LEMMA NodeKept ==
    ASSUME IInv, Running, Next, NEW p \in Opener, ~Connect(p), ~FindNode(p), Running',
           open'[p].pc \in {"addref", "move", "network"}, ~open'[p].stale
    PROVE  /\ open'[p].node = open[p].node /\ open[p].pc \in {"addref", "move", "network"} /\ ~open[p].stale
           /\ open'[p].found = open[p].found
           /\ open[p].pc = "addref" /\ open'[p].pc # "addref" => AddRefFound(p)
           /\ DeleteNode => open[p].node # sock.cur
<1> DEFINE P == /\ open'[p].node = open[p].node /\ open[p].pc \in {"addref", "move", "network"} /\ ~open[p].stale
                /\ open'[p].found = open[p].found
                /\ open[p].pc = "addref" /\ open'[p].pc # "addref" => AddRefFound(p)
<1>a. open \in [Opener -> OpenState]
  BY DEF IInv, NodesTypeOK
<1>1. ASSUME open'[p] = open[p] PROVE P
  BY <1>1
<1>2. ASSUME DeleteNode PROVE P /\ open[p].node # sock.cur
  <2>1. open'[p] = [open[p] EXCEPT !.stale = @ \/ open[p].node = sock.cur]
    BY <1>a, <1>2 DEF DeleteNode
  <2>2. /\ open'[p].pc = open[p].pc /\ open'[p].node = open[p].node /\ open'[p].found = open[p].found
        /\ open'[p].stale = (open[p].stale \/ open[p].node = sock.cur)
    BY <1>a, <2>1 DEF OpenState
  <2>3. QED
    BY <2>2
<1>3. ASSUME NEW o \in Opener, StartOpening(o) \/ NotConnected(o) PROVE P
  <2>1. CASE StartOpening(o)
    BY <1>1, <1>a, <2>1, StartEffect
  <2>2. CASE NotConnected(o)
    BY <1>1, <1>a, <2>2 DEF NotConnected, OpenState
  <2>3. QED
    BY <1>3, <2>1, <2>2
<1>4. ASSUME NEW o \in Opener, AlreadyConnected(o) \/ ConnectFails(o) \/ SetNetworkNode(o) PROVE P
  <2>1. Finish(o)
    BY <1>4 DEF AlreadyConnected, ConnectFails, SetNetworkNode
  <2>2. QED
    BY <1>1, <1>a, <2>1, FinishEffect
<1>5. ASSUME NEW o \in Opener, FindNode(o) PROVE P
  BY <1>1, <1>a, <1>5 DEF FindNode
<1>6. ASSUME NEW o \in Opener, AddRefFound(o) PROVE P
  BY <1>1, <1>a, <1>6 DEF AddRefFound, OpenState
<1>7. ASSUME NEW o \in Opener, Connect(o) PROVE P
  BY <1>1, <1>a, <1>7, OpenedEffect
<1>8. ASSUME NEW o \in Opener, MoveGrant(o) PROVE P
  BY <1>1, <1>a, <1>8 DEF MoveGrant, OpenState
<1>9. QED
  BY <1>1, <1>2, <1>3, <1>4, <1>5, <1>6, <1>7, <1>8, OpenFrame, UseFreedEnds DEF OpenConnection

(* Only AddRefFound makes an opener one that has joined a node. *)
LEMMA JoinedStays ==
    ASSUME IInv, Running, Next, Running', NEW p \in Opener, NEW m \in Heap, Joined(p, m)', ~AddRefFound(p)
    PROVE  Joined(p, m) /\ (DeleteNode => m # sock.cur)
<1>a. open \in [Opener -> OpenState]
  BY DEF IInv, NodesTypeOK
<1>1. ~Connect(p)
  BY ConnectEffect
<1>2. ~FindNode(p)
  <2>1. FindNode(p) => open'[p].pc \in {"connect", "addref"}
    BY <1>a, FindEffect
  <2>2. QED
    BY <2>1 DEF Joined
<1>3. QED
  BY <1>1, <1>2, NodeKept DEF Joined

-----------------------------------------------------------------------------
(* The life of a node *)

(* Only DeleteNode ends it, and who made the node stays. *)
LEMMA LivesOn ==
    ASSUME IInv, Running, Next, NEW m \in Alive, ~DeleteNode \/ m # sock.cur
    PROVE  m \in Alive' /\ node'[m].fInbound = node[m].fInbound
<1> DEFINE P == node'[m].alive /\ node'[m].fInbound = node[m].fInbound
<1>a. NodesTypeOK /\ m \in Heap /\ node[m].alive
  BY DEF IInv, Alive
<1>b. SUFFICES P
  BY <1>a DEF Alive
<1>1. CASE Quiet
  BY <1>a, <1>1 DEF Quiet, SameLife
<1>2. ASSUME NEW n \in Heap, RemoveNode(n) PROVE P
  <2>1. node' = Removed(n)
    BY <1>2, NodeAfter
  <2>2. \A k \in Heap : Removed(n)[k].alive = node[k].alive /\ Removed(n)[k].fInbound = node[k].fInbound
    BY <1>a, TypedParts, RemoveEffect
  <2>3. QED
    BY <1>a, <2>1, <2>2
<1>3. CASE HoldDisconnected
  BY <1>a, <1>3, TypedParts, Referenced, ReleasesEffect DEF SameLife, HoldDisconnected
<1>4. CASE DeleteNode
  BY <1>a, <1>4, TypedParts DEF NodesTyped, DeleteNode
<1>5. CASE AcceptConnection
  <2>1. PICK n \in Free, a \in Addr : node' = [node EXCEPT ![n] = FreshNode(a, TRUE)]
    BY <1>5 DEF AcceptConnection
  <2>2. QED
    BY <1>a, <2>1, TypedParts DEF NodesTyped, Free
<1>6. CASE SockCopy
  BY <1>a, <1>6, TypedParts, AddRefsEffect DEF SameLife, SockCopy
<1>7. CASE SockRelease
  BY <1>a, <1>7, TypedParts, Referenced, ReleasesEffect DEF SameLife, SockRelease
<1>8. CASE MsgCopy
  BY <1>a, <1>8, TypedParts, AddRefsEffect DEF SameLife, MsgCopy
<1>9. CASE MsgRelease
  BY <1>a, <1>9, TypedParts, Referenced, ReleasesEffect DEF SameLife, MsgRelease
<1>10. ASSUME NEW o \in Opener, StartOpening(o) \/ OpenConnection(o) PROVE P
  <2>1. CASE UNCHANGED node
    BY <1>a, <2>1
  <2>2. CASE AddRefFound(o)
    BY <1>a, <2>2, TypedParts, Pointers, AddRefsEffect DEF SameLife, AddRefFound
  <2>3. CASE Connect(o)
    <3>1. PICK n \in Free, f \in NodeState : node' = [node EXCEPT ![n] = f]
      BY <2>3, ConnectEffect
    <3>2. QED
      BY <1>a, <3>1, TypedParts DEF NodesTyped, Free
  <2>4. CASE MoveGrant(o)
    BY <1>a, <2>4, TypedParts, Pointers, NodeAfter, GrantEffect
  <2>5. CASE SetNetworkNode(o)
    BY <1>a, <2>5, TypedParts, Pointers, NodeAfter, NetworkEffect
  <2>6. QED
    BY <1>10, <2>1, <2>2, <2>3, <2>4, <2>5
       DEF StartOpening, Acquire, ConnectTo, OneTry, OpenConnection, AlreadyConnected, NotConnected, FindNode, ConnectFails, UseFreed
<1>11. QED
  BY <1>1, <1>2, <1>3, <1>4, <1>5, <1>6, <1>7, <1>8, <1>9, <1>10, QuietSteps

(* What AcceptConnection makes. *)
LEMMA AcceptEffect ==
    ASSUME IInv, AcceptConnection
    PROVE  \E n \in Free, a \in Addr :
              /\ node' = [node EXCEPT ![n] = FreshNode(a, TRUE)]
              /\ n \in Alive' /\ node'[n].fInbound /\ ~node'[n].granted /\ ~node'[n].grantOutbound /\ node'[n].nRefCount = 1
              /\ vNodes' = vNodes \cup {n}
<1>a. node \in [Heap -> NodeState]
  BY DEF IInv, NodesTypeOK
<1>1. PICK n \in Free, a \in Addr : node' = [node EXCEPT ![n] = FreshNode(a, TRUE)] /\ vNodes' = vNodes \cup {n}
  BY DEF AcceptConnection
<1>2. n \in Heap
  BY DEF Free
<1>3. node'[n] = FreshNode(a, TRUE)
  BY <1>a, <1>1, <1>2
<1>4. QED
  BY <1>1, <1>2, <1>3, NewNodes DEF Alive

(* No node that is used is deleted. *)
LEMMA AliveStep == ASSUME IInv, Running, Next, Running' PROVE NodesInUseAreAlive'
<1>a. NodesTypeOK /\ NodesInUseAreAlive /\ SockSound /\ DeletingSound /\ OpenSound
  BY DEF IInv
<1>b. open \in [Opener -> OpenState] /\ open' \in [Opener -> OpenState]
  BY <1>a, TypedParts, OpenTypeStep
<1>c. /\ sock.copy \cup msg.copy \cup vNodes \cup vNodesDisconnected \subseteq Alive
      /\ sock.cur # NULL => sock.cur \in Alive
  BY <1>a DEF NodesInUseAreAlive, SockUses, MsgUses
<1>1. (SockUses \cup MsgUses \cup vNodes \cup vNodesDisconnected)' \subseteq Alive'
  <2>1. CASE DeleteNode
    <3>1. /\ vNodes' = vNodes /\ vNodesDisconnected' = vNodesDisconnected \ {sock.cur} /\ msg'.copy = msg.copy
          /\ sock'.copy = {} /\ sock'.cur = NULL
      BY <1>a, <2>1, TypedParts DEF DeleteNode, SockState, SockSound
    <3>2. sock.cur \notin vNodes \cup msg.copy
      BY <1>a, <2>1 DEF DeleteNode, SockSound, DeletingSound
    <3>3. QED
      BY <1>c, <3>1, <3>2, LivesOn DEF SockUses, MsgUses
  <2>2. CASE ~DeleteNode
    <3>1. Alive \subseteq Alive'
      BY <2>2, LivesOn
    <3>2. msg'.copy \subseteq Alive
      BY <1>c, MsgKeeps
    <3>3. sock'.copy \subseteq sock.copy \cup vNodes /\ sock'.cur \in {NULL, sock.cur} \cup vNodes \cup vNodesDisconnected
          /\ vNodesDisconnected' \subseteq vNodesDisconnected \cup ({sock.cur} \ {NULL})
      <4>1. CASE Quiet
        BY <4>1 DEF Quiet
      <4>2. ASSUME NEW n \in Heap, RemoveNode(n) PROVE sock'.copy = sock.copy /\ sock'.cur \in vNodes
                                                       /\ vNodesDisconnected' = vNodesDisconnected
        BY <1>a, <4>2, TypedParts DEF RemoveNode, SockState, SockSound
      <4>3. CASE HoldDisconnected
        BY <1>a, <4>3, TypedParts DEF HoldDisconnected, SockState, SockSound
      <4>4. ASSUME AcceptConnection \/ SockCopy \/ SockRelease \/ MsgCopy \/ MsgRelease
            PROVE  /\ sock'.copy \subseteq sock.copy \cup vNodes /\ sock'.cur = sock.cur
                   /\ UNCHANGED vNodesDisconnected
        BY <1>a, <4>4, TypedParts DEF AcceptConnection, SockCopy, SockRelease, MsgCopy, MsgRelease, SockState
      <4>5. ASSUME NEW o \in Opener, StartOpening(o) \/ OpenConnection(o) PROVE UNCHANGED <<sock, vNodesDisconnected>>
        <5>1. ~UseFreed(o)
          BY UseFreedEnds
        <5>2. AlreadyConnected(o) \/ NotConnected(o) \/ FindNode(o) => UNCHANGED <<sock, vNodesDisconnected>>
          BY DEF AlreadyConnected, NotConnected, FindNode
        <5>3. AddRefFound(o) \/ Connect(o) \/ ConnectFails(o) => UNCHANGED <<sock, vNodesDisconnected>>
          BY DEF AddRefFound, Connect, ConnectFails
        <5>4. StartOpening(o) \/ MoveGrant(o) \/ SetNetworkNode(o) => UNCHANGED <<sock, vNodesDisconnected>>
          BY DEF StartOpening, Acquire, ConnectTo, OneTry, MoveGrant, SetNetworkNode
        <5>5. QED
          BY <4>5, <5>1, <5>2, <5>3, <5>4 DEF OpenConnection
      <4>6. QED
        BY <2>2, <4>1, <4>2, <4>3, <4>4, <4>5, QuietSteps
    <3>4. vNodes' \subseteq Alive'
      <4>1. CASE AcceptConnection
        <5>1. PICK n : n \in Alive' /\ vNodes' = vNodes \cup {n}
          BY <1>a, <4>1, AcceptEffect
        <5>2. QED
          BY <1>c, <3>1, <5>1
      <4>2. ASSUME NEW o \in Opener, Connect(o) PROVE vNodes' \subseteq Alive'
        <5>1. PICK n : n \in Alive' /\ vNodes' = vNodes \cup {n}
          BY <4>2, ConnectEffect
        <5>2. QED
          BY <1>c, <3>1, <5>1
      <4>3. SockLoop => AcceptConnection \/ vNodes' \subseteq vNodes
        BY DEF SockLoop, KeepNode, RemoveNode, TryDelete, ServiceNode, HoldDisconnected, RemovalDone, DeleteNode,
               FreeingDone, AcceptNothing, SockCopy, SockRelease
      <4>4. QED
        BY <1>c, <3>1, <4>1, <4>2, <4>3, SockFrame, UseFreedEnds DEF Disturbs
    <3>5. QED
      BY <1>c, <3>1, <3>2, <3>3, <3>4 DEF SockUses, MsgUses
  <2>3. QED
    BY <2>1, <2>2
<1>2. ASSUME NEW p \in Opener PROVE OpenUses(p)' \subseteq Alive'
  <2>1. CASE Connect(p)
    BY <2>1, ConnectEffect DEF OpenUses
  <2>2. ASSUME ~Connect(p), NEW m \in Heap, Opens(p, m)' PROVE m \in Alive'
    <3>1. Opens(p, m)
      BY <2>2, OpensStays
    <3>2. m \in Alive
      BY <1>a, <3>1 DEF NodesInUseAreAlive, OpenUses, Opens
    <3>3. DeleteNode => m # sock.cur
      BY <1>a, <3>1 DEF DeletingSound, DeleteNode
    <3>4. QED
      BY <3>2, <3>3, LivesOn
  <2>3. open'[p].pc \in {"move", "network"} /\ ~open'[p].found => open'[p].node \in Heap
    BY ProgressStep
  <2>4. QED
    BY <2>1, <2>2, <2>3 DEF OpenUses, Opens
<1>3. ASSUME NEW p \in Opener PROVE open'[p].stale => open'[p].found
  BY ProgressStep
<1>4. QED
  BY <1>1, <1>2, <1>3 DEF NodesInUseAreAlive

(* An opener's node is alive unless it is known to be stale, is not an inbound
   one, and is its own. *)
LEMMA HasNodeStep == ASSUME IInv, Running, Next, Running', NEW p \in Opener PROVE HasNode(p)'
<1>a. NodesTypeOK /\ NodesInUseAreAlive /\ SockSound /\ DeletingSound /\ OpenSound
  BY DEF IInv
<1>b. open \in [Opener -> OpenState] /\ open' \in [Opener -> OpenState] /\ vNodes \subseteq Alive /\ Alive \subseteq Heap
  BY <1>a, TypedParts, OpenTypeStep DEF NodesInUseAreAlive, Alive
(* A node an opener has is in use... *)
<1>1. \A q \in Opener, m \in Heap : Opens(q, m) => m \in Alive /\ (DeleteNode => m # sock.cur)
  BY <1>a DEF NodesInUseAreAlive, OpenUses, Opens, DeletingSound, DeleteNode
(* ... so it is not the one that Connect makes. *)
<1>2. ASSUME NEW q \in Opener, Connect(q)
      PROVE  \E n \in Heap \ Alive : /\ n \in Alive' /\ ~node'[n].fInbound
                                     /\ open'[q].pc # "idle" => open'[q].node = n
                                     /\ \A r \in Opener \ {q} : open'[r] = open[r]
  BY <1>2, ConnectEffect DEF Free, Alive
<1>3. ASSUME open'[p].pc \in {"addref", "move", "network"}, ~open'[p].stale PROVE open'[p].node \in Alive'
  <2>1. CASE Connect(p)
    <3>1. open'[p].pc # "idle"
      BY <1>3
    <3>2. QED
      BY <1>2, <2>1, <3>1
  <2>2. CASE FindNode(p)
    <3>1. open'[p].node \in vNodes
      <4>1. open' # [open EXCEPT ![p].pc = "connect"]
        BY <1>b, <1>3 DEF OpenState
      <4>2. PICK n \in vNodes : open' = [open EXCEPT ![p].pc = "addref", ![p].node = n, ![p].found = TRUE]
        BY <2>2, <4>1 DEF FindNode, Connected
      <4>3. QED
        BY <1>b, <4>2
    <3>2. ~DeleteNode
      BY <1>a, <2>2, TypedParts DEF FindNode, DeleteNode, SockState
    <3>3. QED
      BY <1>b, <3>1, <3>2, LivesOn
  <2>3. CASE ~Connect(p) /\ ~FindNode(p)
    <3>1. /\ open'[p].node = open[p].node /\ open[p].pc \in {"addref", "move", "network"} /\ ~open[p].stale
          /\ DeleteNode => open[p].node # sock.cur
      BY <1>b, <1>3, <2>3, NodeKept
    <3>2. open[p].node \in Alive
      BY <1>a, <1>b, <3>1 DEF OpenSound, HasNode, Alive
    <3>3. QED
      BY <3>1, <3>2, LivesOn
  <2>4. QED
    BY <2>1, <2>2, <2>3
<1>4. ASSUME NEW m \in Heap, Opens(p, m)' PROVE ~node'[m].fInbound
  <2>1. CASE Connect(p)
    BY <1>2, <1>4, <2>1 DEF Opens
  <2>2. CASE ~Connect(p)
    <3>1. Opens(p, m)
      BY <1>4, <2>2, OpensStays
    <3>2. QED
      BY <1>1, <1>a, <3>1, LivesOn DEF OpenSound, HasNode
  <2>3. QED
    BY <2>1, <2>2
<1>5. ASSUME NEW q \in Opener, NEW m \in Heap, Opens(p, m)', Opens(q, m)' PROVE p = q
  <2>1. CASE ~Connect(p) /\ ~Connect(q)
    BY <1>5, <1>a, <2>1, OpensStays DEF OpenSound, HasNode
  <2>2. ASSUME NEW r \in Opener, NEW s \in Opener, Connect(r), r # s, Opens(r, m)', Opens(s, m)' PROVE FALSE
    <3>1. m \notin Alive /\ open'[s] = open[s]
      BY <1>2, <2>2 DEF Opens
    <3>2. Opens(s, m)
      BY <2>2, <3>1 DEF Opens
    <3>3. QED
      BY <1>1, <3>1, <3>2
  <2>3. QED
    BY <1>5, <2>1, <2>2
<1>6. QED
  <2>1. open'[p].pc \in {"addref", "move", "network"} => open'[p].node \in Heap
    BY ProgressStep
  <2>2. \A n \in Alive' : node'[n].alive
    BY DEF Alive
  <2>3. QED
    BY <1>3, <1>4, <1>5, <2>1, <2>2 DEF HasNode

-----------------------------------------------------------------------------
(* The references *)

(* A node whose count keeps up with its users is still counted. *)
LEMMA CountedKept ==
    ASSUME IInv, Running, NEW m \in Alive, node[m].nRefCount \in Nat, node'[m].nRefCount \in Nat,
           node'[m].nRefCount - Holders(m)' - Listed(m)' >= node[m].nRefCount - Holders(m) - Listed(m),
           \A o \in Opener :
              /\ Opens(o, m)' => /\ Opens(o, m) /\ node'[m].fNetworkNode = node[m].fNetworkNode
                                 /\ ~node[m].fNetworkNode =>
                                        node'[m].nRefCount - Holders(m)' >= node[m].nRefCount - Holders(m)
              /\ Joined(o, m)' => Joined(o, m)
    PROVE  Counted(m)'
<1>1. Holders(m) \in Nat /\ Holders(m)' \in Nat /\ Listed(m) \in Nat /\ Listed(m)' \in Nat
  BY DEF Holders, Listed
<1>2. Counted(m)
  BY DEF IInv, CountsSound
<1>3. node'[m].nRefCount >= Holders(m)' + Listed(m)'
  BY <1>1, <1>2 DEF Counted
<1>4. ASSUME NEW o \in Opener
      PROVE  /\ Opens(o, m)' /\ ~node'[m].fNetworkNode => node'[m].nRefCount >= Holders(m)' + 1
             /\ Opens(o, m)' /\ node'[m].fNetworkNode => node'[m].nRefCount >= Holders(m)' + Listed(m)' + 1
             /\ Joined(o, m)' => node'[m].nRefCount >= Holders(m)' + Listed(m)' + 1
  BY <1>1, <1>2 DEF Counted
<1>5. QED
  BY <1>3, <1>4 DEF Counted

(* So is a new one. *)
LEMMA FreshCounted ==
    ASSUME NEW m \in Alive', node'[m].nRefCount = 1, ~node'[m].fNetworkNode \/ \A o \in Opener : ~Opens(o, m)',
           m \notin sock'.copy \cup msg'.copy, \A o \in Opener : ~Joined(o, m)'
    PROVE  Counted(m)'
<1>1. Holders(m)' = 0 /\ Listed(m)' \in {0, 1}
  BY DEF Holders, Listed
<1>2. QED
  BY <1>1 DEF Counted

(* The references of every node stay counted. *)
LEMMA CountStep == ASSUME IInv, Running, Next, Running', NEW m \in Alive' PROVE Counted(m)'
<1>a. NodesTypeOK /\ NodesInUseAreAlive /\ SockSound /\ MsgSound /\ OpenSound
  BY DEF IInv
<1>b. /\ m \in Heap /\ node'[m].nRefCount \in Nat /\ node[m].nRefCount \in Nat
      /\ \A n \in Heap : n \in Alive <=> node[n].alive
      /\ node \in [Heap -> NodeState] /\ sock \in SockState /\ msg \in MsgState
      /\ open \in [Opener -> OpenState]
  BY <1>a, NodeTypeStep, TypedParts DEF NodesTyped, NodeState, Alive
<1>c. ASSUME NEW o \in Opener
      PROVE  /\ Opens(o, m)' /\ ~Connect(o) => Opens(o, m)
             /\ Joined(o, m)' /\ ~AddRefFound(o) => Joined(o, m)
             /\ Opens(o, m) \/ Joined(o, m) => m \in Alive
  <2>1. Opens(o, m) \/ Joined(o, m) => m \in Alive
    BY <1>a, <1>b DEF Opens, Joined, NodesInUseAreAlive, OpenUses, OpenSound, HasNode
  <2>2. QED
    BY <1>b, <2>1, OpensStays, JoinedStays
<1>d. sock.copy \cup msg.copy \subseteq Alive
  BY <1>a DEF NodesInUseAreAlive, SockUses, MsgUses
<1>e. Holders(m) \in Nat /\ Holders(m)' \in Nat /\ Listed(m) \in Nat /\ Listed(m)' \in Nat
  BY DEF Holders, Listed
(* A step in which no opener gets a node *)
<1>f. ASSUME \A o \in Opener : (Opens(o, m)' => Opens(o, m)) /\ (Joined(o, m)' => Joined(o, m)),
             m \in Alive, node'[m].fNetworkNode = node[m].fNetworkNode,
             node'[m].nRefCount - Holders(m)' - Listed(m)' >= node[m].nRefCount - Holders(m) - Listed(m),
             \/ node'[m].nRefCount - Holders(m)' >= node[m].nRefCount - Holders(m)
             \/ \A o \in Opener : Opens(o, m) => node[m].fNetworkNode
      PROVE  Counted(m)'
  BY <1>b, <1>f, CountedKept
<1>g. UNCHANGED open => \A o \in Opener : (Opens(o, m)' => Opens(o, m)) /\ (Joined(o, m)' => Joined(o, m))
  BY DEF Opens, Joined
<1>1. CASE Quiet
  <2>1. /\ node'[m].nRefCount = node[m].nRefCount /\ node'[m].fNetworkNode = node[m].fNetworkNode
        /\ m \in Alive
    BY <1>b, <1>1 DEF Quiet, SameLife, SameCounts, Alive
  <2>2. Holders(m)' = Holders(m) /\ Listed(m)' = Listed(m)
    BY <1>1 DEF Quiet, Holders, Listed
  <2>3. QED
    BY <1>b, <1>e, <1>f, <1>g, <1>1, <2>1, <2>2 DEF Quiet
<1>2. ASSUME NEW n \in Heap, RemoveNode(n) PROVE Counted(m)'
  <2>1. /\ node' = Removed(n) /\ vNodes' = vNodes \ {n} /\ UNCHANGED <<msg, open>>
        /\ sock'.pc = "removing" /\ sock'.cur = n /\ sock'.copy = sock.copy /\ n \in vNodes /\ sock.pc = "top"
    BY <1>a, <1>b, <1>2 DEF Removed, RemoveNode, SockState, SockSound
  <2>2. /\ node'[m].nRefCount = node[m].nRefCount /\ node'[m].fNetworkNode = node[m].fNetworkNode
        /\ node'[m].alive = node[m].alive
    <3>1. node' = Removed(n) /\ m \in Heap /\ NodesTypeOK
      BY <1>a, <1>b, <2>1
    <3>2. QED
      BY <3>1, TypedParts, RemoveEffect DEF SameCounts
  <2>3. m \in Alive
    BY <1>b, <2>2 DEF Alive
  <2>4. Holders(m)' = Holders(m) /\ Listed(m)' = Listed(m)
    BY <2>1 DEF Holders, Listed, Removing
  <2>5. QED
    BY <1>b, <1>e, <1>f, <1>g, <2>1, <2>2, <2>3, <2>4
<1>3. CASE HoldDisconnected
  <2> DEFINE n == sock.cur
  <2>1. /\ node' = IF node[n].fNetworkNode \/ node[n].fInbound THEN Releases({n}) ELSE node
        /\ UNCHANGED <<vNodes, msg, open>>
        /\ sock.pc = "removing" /\ sock'.pc = "top" /\ sock'.copy = sock.copy
        /\ n \in Heap /\ n \notin vNodes /\ node[n].nRefCount >= 1
    BY <1>a, <1>b, <1>3, Referenced DEF HoldDisconnected, SockState, SockSound
  <2>2. /\ node'[m].fNetworkNode = node[m].fNetworkNode /\ node'[m].alive = node[m].alive
        /\ m # n \/ ~(node[n].fNetworkNode \/ node[n].fInbound) => node'[m].nRefCount = node[m].nRefCount
        /\ m = n /\ (node[n].fNetworkNode \/ node[n].fInbound) => node'[m].nRefCount = node[m].nRefCount - 1
    BY <1>a, <1>b, <2>1, TypedParts, ReleasesEffect DEF SameLife
  <2>3. m \in Alive
    BY <1>b, <2>2 DEF Alive
  <2>4. Holders(m)' = Holders(m) /\ Listed(m)' = IF m = n THEN Listed(m) - 1 ELSE Listed(m)
    BY <2>1 DEF Holders, Listed, Removing
  <2>5. \A o \in Opener : Opens(o, m) => ~node[m].fInbound
    BY <1>a, <1>b DEF OpenSound, HasNode
  <2>6. CASE m # n \/ ~(node[n].fNetworkNode \/ node[n].fInbound)
    BY <1>b, <1>e, <1>f, <1>g, <2>1, <2>2, <2>3, <2>4, <2>6
  <2>7. CASE m = n /\ (node[n].fNetworkNode \/ node[n].fInbound)
    BY <1>b, <1>e, <1>f, <1>g, <2>1, <2>2, <2>3, <2>4, <2>5, <2>7
  <2>8. QED
    BY <2>6, <2>7
<1>4. CASE DeleteNode
  <2>1. /\ node' = [node EXCEPT ![sock.cur] = Deleted] /\ UNCHANGED <<vNodes, msg>>
        /\ sock'.pc = "free" /\ sock'.copy = sock.copy /\ sock.pc = "deleting" /\ sock.cur \in Heap
    BY <1>b, <1>4, Pointers DEF DeleteNode, SockState
  <2>2. m # sock.cur
    BY <1>b, <2>1, NewNodes DEF Alive
  <2>3. node'[m] = node[m]
    BY <1>b, <2>1, <2>2
  <2>4. m \in Alive
    BY <1>b, <2>3 DEF Alive
  <2>5. Holders(m)' = Holders(m) /\ Listed(m)' = Listed(m)
    BY <2>1 DEF Holders, Listed, Removing
  <2>6. \A o \in Opener : ~Connect(o) /\ ~AddRefFound(o)
    BY <1>b, <1>4 DEF DeleteNode, Connect, AddRefFound, SockState
  <2>7. QED
    BY <1>b, <1>c, <1>e, <1>f, <2>3, <2>4, <2>5, <2>6
<1>5. CASE AcceptConnection
  <2>1. PICK n \in Free, a \in Addr :
            /\ node' = [node EXCEPT ![n] = FreshNode(a, TRUE)]
            /\ node'[n].nRefCount = 1 /\ vNodes' = vNodes \cup {n}
    BY <1>5, AcceptEffect
  <2>2. UNCHANGED <<msg, open>> /\ sock.pc = "accept" /\ sock'.pc = "copy" /\ sock'.copy = sock.copy
    BY <1>b, <1>5 DEF AcceptConnection, SockState
  <2>3. CASE m = n
    <3>1. m \notin Alive
      BY <2>1, <2>3 DEF Free, Alive
    <3>2. \A o \in Opener : ~Opens(o, m)' /\ ~Joined(o, m)'
      BY <1>c, <1>g, <2>2, <3>1
    <3>3. QED
      BY <1>d, <2>1, <2>2, <2>3, <3>1, <3>2, FreshCounted
  <2>4. CASE m # n
    <3>1. node'[m] = node[m] /\ m \in Alive
      BY <1>b, <2>1, <2>4 DEF Alive
    <3>2. Holders(m)' = Holders(m) /\ Listed(m)' = Listed(m)
      BY <2>1, <2>2, <2>4 DEF Holders, Listed, Removing
    <3>3. QED
      BY <1>b, <1>e, <1>f, <1>g, <2>2, <3>1, <3>2
  <2>5. QED
    BY <2>3, <2>4
<1>6. CASE SockCopy
  <2>1. /\ node' = AddRefs(vNodes) /\ UNCHANGED <<vNodes, msg, open>>
        /\ sock'.copy = vNodes /\ sock'.pc # "removing" /\ sock.pc # "removing" /\ sock.copy = {}
    BY <1>a, <1>b, <1>6 DEF SockCopy, SockState, SockSound
  <2>2. /\ node'[m].nRefCount = node[m].nRefCount + (IF m \in vNodes THEN 1 ELSE 0)
        /\ node'[m].fNetworkNode = node[m].fNetworkNode /\ node'[m].alive = node[m].alive
    BY <1>a, <1>b, <2>1, TypedParts, AddRefsEffect DEF SameLife
  <2>3. m \in Alive
    BY <1>b, <2>2 DEF Alive
  <2>4. Holders(m)' = Holders(m) + (IF m \in vNodes THEN 1 ELSE 0) /\ Listed(m)' = Listed(m)
    BY <2>1 DEF Holders, Listed, Removing
  <2>5. QED
    BY <1>b, <1>e, <1>f, <1>g, <2>1, <2>2, <2>3, <2>4
<1>7. CASE SockRelease
  <2>1. /\ node' = Releases(sock.copy) /\ UNCHANGED <<vNodes, msg, open>>
        /\ sock'.copy = {} /\ sock'.pc # "removing" /\ sock.pc # "removing"
    BY <1>a, <1>b, <1>7 DEF SockRelease, SockState, SockSound
  <2>2. /\ node'[m].nRefCount = node[m].nRefCount - (IF m \in sock.copy THEN 1 ELSE 0)
        /\ node'[m].fNetworkNode = node[m].fNetworkNode /\ node'[m].alive = node[m].alive
    BY <1>a, <1>b, <2>1, TypedParts, ReleasesEffect, Referenced DEF SameLife
  <2>3. m \in Alive
    BY <1>b, <2>2 DEF Alive
  <2>4. Holders(m)' = Holders(m) - (IF m \in sock.copy THEN 1 ELSE 0) /\ Listed(m)' = Listed(m)
    BY <2>1 DEF Holders, Listed, Removing
  <2>5. QED
    BY <1>b, <1>e, <1>f, <1>g, <2>1, <2>2, <2>3, <2>4
<1>8. CASE MsgCopy
  <2>1. /\ node' = AddRefs(vNodes) /\ UNCHANGED <<vNodes, sock, open>>
        /\ msg'.copy = vNodes /\ msg.copy = {}
    BY <1>a, <1>b, <1>8 DEF MsgCopy, MsgState, MsgSound
  <2>2. /\ node'[m].nRefCount = node[m].nRefCount + (IF m \in vNodes THEN 1 ELSE 0)
        /\ node'[m].fNetworkNode = node[m].fNetworkNode /\ node'[m].alive = node[m].alive
    BY <1>a, <1>b, <2>1, TypedParts, AddRefsEffect DEF SameLife
  <2>3. m \in Alive
    BY <1>b, <2>2 DEF Alive
  <2>4. Holders(m)' = Holders(m) + (IF m \in vNodes THEN 1 ELSE 0) /\ Listed(m)' = Listed(m)
    BY <2>1 DEF Holders, Listed, Removing
  <2>5. QED
    BY <1>b, <1>e, <1>f, <1>g, <2>1, <2>2, <2>3, <2>4
<1>9. CASE MsgRelease
  <2>1. /\ node' = Releases(msg.copy) /\ UNCHANGED <<vNodes, sock, open>>
        /\ msg'.copy = {}
    BY <1>a, <1>b, <1>9 DEF MsgRelease, MsgState, MsgSound
  <2>2. /\ node'[m].nRefCount = node[m].nRefCount - (IF m \in msg.copy THEN 1 ELSE 0)
        /\ node'[m].fNetworkNode = node[m].fNetworkNode /\ node'[m].alive = node[m].alive
    BY <1>a, <1>b, <2>1, TypedParts, ReleasesEffect, Referenced DEF SameLife
  <2>3. m \in Alive
    BY <1>b, <2>2 DEF Alive
  <2>4. Holders(m)' = Holders(m) - (IF m \in msg.copy THEN 1 ELSE 0) /\ Listed(m)' = Listed(m)
    BY <2>1 DEF Holders, Listed, Removing
  <2>5. QED
    BY <1>b, <1>e, <1>f, <1>g, <2>1, <2>2, <2>3, <2>4
<1>10. ASSUME NEW o \in Opener, StartOpening(o) \/ OpenConnection(o) PROVE Counted(m)'
  <2>a. UNCHANGED sock /\ UNCHANGED msg
    BY <1>10, UseFreedEnds DEF StartOpening, Acquire, ConnectTo, OneTry, OpenConnection, AlreadyConnected, NotConnected, FindNode, AddRefFound,
       Connect, ConnectFails, MoveGrant, SetNetworkNode
  <2>b. Holders(m)' = Holders(m) /\ (UNCHANGED vNodes => Listed(m)' = Listed(m))
    BY <2>a DEF Holders, Listed, Removing
  <2>c. \A p \in Opener \ {o} : (Opens(p, m)' => Opens(p, m)) /\ (Joined(p, m)' => Joined(p, m))
    BY <1>10, OwnState DEF Opens, Joined
  <2>1. CASE StartOpening(o) \/ AlreadyConnected(o) \/ NotConnected(o) \/ FindNode(o) \/ ConnectFails(o)
    <3>1. UNCHANGED <<node, vNodes>>
      BY <2>1 DEF StartOpening, Acquire, ConnectTo, OneTry, AlreadyConnected, NotConnected, FindNode, ConnectFails
    <3>2. m \in Alive
      BY <1>b, <3>1 DEF Alive
    <3>3. QED
      <4>1. open'[o].pc \notin {"move", "network"}
        <5>1. AlreadyConnected(o) \/ ConnectFails(o) => Finish(o)
          BY DEF AlreadyConnected, ConnectFails
        <5>2. Finish(o) => open'[o].pc = "idle"
          BY <1>b, FinishEffect
        <5>3. StartOpening(o) => open'[o].pc \in {"check", "onetry"}
          BY <1>b, StartEffect
        <5>4. NotConnected(o) => open'[o].pc \in {"find", "connect"}
          BY <1>b DEF NotConnected, OpenState
        <5>5. FindNode(o) => open'[o].pc \in {"connect", "addref"}
          BY <1>b, FindEffect
        <5>6. QED
          BY <2>1, <5>1, <5>2, <5>3, <5>4, <5>5
      <4>2. ~Opens(o, m)' /\ ~Joined(o, m)'
        BY <4>1 DEF Opens, Joined
      <4>3. QED
        BY <1>b, <1>e, <1>f, <2>b, <2>c, <3>1, <3>2, <4>2
  <2>2. CASE AddRefFound(o)
    <3> DEFINE n == open[o].node
    <3>1. /\ node' = AddRefs({n}) /\ UNCHANGED vNodes /\ n \in Heap /\ ~Connect(o)
          /\ open'[o].found
      BY <1>a, <1>b, <2>2, Pointers DEF AddRefFound, Connect, OpenState, OpenSound, Progress
    <3>2. /\ node'[m].nRefCount = node[m].nRefCount + (IF m \in {n} THEN 1 ELSE 0)
          /\ node'[m].fNetworkNode = node[m].fNetworkNode /\ node'[m].alive = node[m].alive
      BY <1>a, <1>b, <3>1, TypedParts, AddRefsEffect DEF SameLife
    <3>3. m \in Alive
      BY <1>b, <3>2 DEF Alive
    <3>4. CASE m # n
      <4>1. ~Opens(o, m)' /\ ~Joined(o, m)'
        BY <1>b, <2>2, <3>4 DEF AddRefFound, OpenState, Opens, Joined
      <4>2. QED
        BY <1>b, <1>e, <1>f, <2>b, <2>c, <3>1, <3>2, <3>3, <3>4, <4>1
    <3>5. CASE m = n
      <4>1. ~Opens(o, m)'
        BY <3>1 DEF Opens
      <4>2. Counted(m)
        BY <3>3 DEF IInv, CountsSound
      <4>3. node'[m].nRefCount = node[m].nRefCount + 1
        BY <3>2, <3>5
      <4>4. QED
        <5>1. node'[m].nRefCount >= Holders(m)' + Listed(m)' + 1
          BY <1>b, <1>e, <2>b, <3>1, <4>2, <4>3 DEF Counted
        <5>2. QED
          BY <1>b, <1>e, <5>1 DEF Counted
    <3>6. QED
      BY <3>4, <3>5
  <2>3. CASE Connect(o)
    <3>1. PICK n \in Free, f \in NodeState :
              /\ node' = [node EXCEPT ![n] = f]
              /\ node'[n].nRefCount = 1 /\ ~node'[n].fNetworkNode
              /\ vNodes' = vNodes \cup {n}
              /\ \A k \in Heap : ~Joined(o, k)' /\ (Opens(o, k)' => k = n)
      BY <2>3, ConnectEffect
    <3>2. ~Joined(o, m)' /\ (Opens(o, m)' => m = n)
      BY <1>b, <3>1
    <3>3. CASE m = n
      <4>1. m \notin Alive
        BY <3>1, <3>3 DEF Free, Alive
      <4>2. \A p \in Opener : ~Joined(p, m)'
        BY <1>c, <2>c, <3>2, <4>1
      <4>3. QED
        BY <1>d, <2>a, <3>1, <3>3, <4>1, <4>2, FreshCounted
    <3>4. CASE m # n
      <4>1. node'[m] = node[m] /\ m \in Alive
        BY <1>b, <3>1, <3>4 DEF Alive
      <4>2. Listed(m)' = Listed(m)
        BY <2>a, <3>1, <3>4 DEF Listed, Removing
      <4>3. QED
        BY <1>b, <1>e, <1>f, <2>b, <2>c, <3>2, <3>4, <4>1, <4>2
    <3>5. QED
      BY <3>3, <3>4
  <2>4. CASE MoveGrant(o)
    <3>1. /\ node' = Granting(open[o].node) /\ UNCHANGED vNodes /\ open[o].node \in Heap
          /\ ~Connect(o) /\ ~AddRefFound(o)
      BY <2>4, Pointers DEF Granting, MoveGrant, Connect, AddRefFound
    <3>2. /\ node'[m].nRefCount = node[m].nRefCount
          /\ node'[m].fNetworkNode = node[m].fNetworkNode /\ node'[m].alive = node[m].alive
      BY <1>a, <1>b, <3>1, TypedParts, GrantEffect DEF SameCounts
    <3>3. m \in Alive
      BY <1>b, <3>2 DEF Alive
    <3>4. QED
      BY <1>b, <1>c, <1>e, <1>f, <2>b, <2>c, <3>1, <3>2, <3>3
  <2>5. CASE SetNetworkNode(o)
    <3> DEFINE n == open[o].node
    <3>1. /\ node' = Networked(n) /\ UNCHANGED vNodes /\ n \in Heap
          /\ Finish(o) /\ open[o].pc = "network" /\ ~open[o].stale
      BY <2>5, Pointers DEF Networked, SetNetworkNode
    <3>2. /\ node'[m].nRefCount = node[m].nRefCount /\ node'[m].alive = node[m].alive
          /\ m # n => node'[m].fNetworkNode = node[m].fNetworkNode
      <4> HIDE DEF n
      <4>1. node' = Networked(n) /\ n \in Heap /\ m \in Heap /\ NodesTyped
        BY <1>a, <1>b, <3>1, TypedParts
      <4>2. /\ SameCounts(Networked(n))
            /\ \A k \in Heap : /\ Networked(n)[k].alive = node[k].alive
                               /\ Networked(n)[k].fNetworkNode = (k = n \/ node[k].fNetworkNode)
        BY <4>1, NetworkEffect
      <4>3. m # n => Networked(n)[m].fNetworkNode = node[m].fNetworkNode
        <5>1. node[m].fNetworkNode \in BOOLEAN
          BY <4>1 DEF NodesTyped, NodeState
        <5>2. QED
          BY <4>1, <4>2, <5>1
      <4>4. QED
        BY <4>1, <4>2, <4>3 DEF SameCounts
    <3>3. m \in Alive
      BY <1>b, <3>2 DEF Alive
    <3>4. ~Opens(o, m)' /\ ~Joined(o, m)'
      BY <1>b, <3>1, FinishEffect DEF Opens, Joined
    <3>5. CASE m # n
      BY <1>b, <1>e, <1>f, <2>b, <2>c, <3>1, <3>2, <3>3, <3>4, <3>5
    <3>6. CASE m = n
      <4>1. Counted(m)
        BY <3>3 DEF IInv, CountsSound
      <4>2. CASE Opens(o, m)
        (* its maker: nobody else has it as a new node *)
        <5>1. \A p \in Opener : ~Opens(p, m)'
          BY <1>a, <1>b, <2>c, <3>4, <4>2 DEF OpenSound, HasNode
        <5>2. QED
          BY <1>b, <1>e, <2>b, <2>c, <3>1, <3>2, <3>4, <4>1, <5>1 DEF Counted
      <4>3. CASE Joined(o, m)
        (* somebody who found it: its reference covers the maker as well *)
        <5>1. node[m].nRefCount >= Holders(m) + Listed(m) + 1
          BY <4>1, <4>3 DEF Counted
        <5>2. QED
          BY <1>b, <1>e, <2>b, <3>1, <3>2, <5>1 DEF Counted
      <4>4. Opens(o, m) \/ Joined(o, m)
        BY <1>a, <3>1, <3>6 DEF Opens, Joined
      <4>5. QED
        BY <4>2, <4>3, <4>4
    <3>7. QED
      BY <3>5, <3>6
  <2>6. QED
    BY <1>10, <2>1, <2>2, <2>3, <2>4, <2>5, UseFreedEnds DEF OpenConnection
<1>11. QED
  BY <1>1, <1>2, <1>3, <1>4, <1>5, <1>6, <1>7, <1>8, <1>9, <1>10, QuietSteps

-----------------------------------------------------------------------------
(* The grants *)

(* Every connection made under a grant keeps it, or its opener is about to move it there. *)
LEMMA GrantedStep == ASSUME IInv, Running, Next, Running', NEW m \in vNodes' PROVE Granted(m)'
<1>a. NodesTypeOK /\ NodesInUseAreAlive /\ SockSound /\ OpenSound
  BY DEF IInv
<1>b. /\ m \in Heap /\ node \in [Heap -> NodeState] /\ open \in [Opener -> OpenState]
      /\ vNodes \subseteq Heap
  BY <1>a, SockTypeStep, TypedParts DEF NodesTypeOK
<1>c. m \in vNodes => Granted(m)
  BY DEF IInv, GrantsSound
(* A step that keeps the openers' nodes, or gives one its grant *)
<1>d. ASSUME m \in vNodes,
             node'[m].granted = node[m].granted,
             node'[m].grantOutbound = node[m].grantOutbound,
             \A o \in Opener : Opens(o, m) /\ open[o].pc = "move" => Opens(o, m)' /\ open'[o].pc = "move"
      PROVE  Granted(m)'
  BY <1>c, <1>d DEF Granted
<1>e. UNCHANGED open => \A o \in Opener : Opens(o, m) /\ open[o].pc = "move" => Opens(o, m)' /\ open'[o].pc = "move"
  BY DEF Opens
<1>1. ASSUME SameLife(node'), UNCHANGED <<vNodes, open>> PROVE Granted(m)'
  BY <1>b, <1>d, <1>e, <1>1 DEF SameLife
<1>2. CASE Quiet
  BY <1>1, <1>2 DEF Quiet
<1>3. ASSUME NEW n \in Heap, RemoveNode(n) PROVE Granted(m)'
  <2>1. /\ node' = Removed(n) /\ m \in vNodes \ {n} /\ UNCHANGED open
    BY <1>3 DEF Removed, RemoveNode
  <2>2. node'[m].granted = node[m].granted /\ node'[m].grantOutbound = node[m].grantOutbound
    <3>1. node' = Removed(n) /\ m \in Heap /\ m # n /\ NodesTyped
      BY <1>a, <1>b, <2>1, TypedParts
    <3>2. QED
      <4>1. /\ node'[m].granted = (m # n /\ node[m].granted)
            /\ node'[m].grantOutbound = (m # n /\ node[m].grantOutbound)
        BY <3>1, RemoveEffect
      <4>2. node[m].grantOutbound \in BOOLEAN /\ node[m].granted \in BOOLEAN
        BY <3>1 DEF NodesTyped, NodeState
      <4>3. QED
        BY <3>1, <4>1, <4>2
  <2>3. QED
    BY <1>d, <1>e, <2>1, <2>2
<1>4. CASE HoldDisconnected
  BY <1>a, <1>1, <1>4, TypedParts, Referenced, ReleasesEffect DEF HoldDisconnected, NodesTyped, SameLife
<1>5. CASE DeleteNode
  <2>1. node' = [node EXCEPT ![sock.cur] = Deleted] /\ m \in vNodes /\ m # sock.cur
    BY <1>5, <1>a DEF DeleteNode, IInv, DeletingSound, SockSound
  <2>2. node'[m] = node[m]
    BY <1>b, <2>1
  <2>3. \A o \in Opener : open'[o].pc = open[o].pc /\ open'[o].found = open[o].found /\ open'[o].node = open[o].node
    BY <1>b, <1>5 DEF DeleteNode, OpenState
  <2>4. QED
    BY <1>d, <2>1, <2>2, <2>3 DEF Opens
<1>6. CASE AcceptConnection
  <2>1. PICK n \in Free, a \in Addr :
            node' = [node EXCEPT ![n] = FreshNode(a, TRUE)] /\ ~node'[n].granted /\ vNodes' = vNodes \cup {n}
    BY <1>6, AcceptEffect
  <2>2. CASE m = n
    BY <2>1, <2>2 DEF Granted
  <2>3. CASE m # n
    BY <1>b, <1>d, <1>e, <1>6, <2>1, <2>3 DEF AcceptConnection
  <2>4. QED
    BY <2>2, <2>3
<1>7. CASE SockCopy
  BY <1>a, <1>1, <1>7, TypedParts, AddRefsEffect DEF SockCopy
<1>8. CASE SockRelease
  BY <1>a, <1>1, <1>8, TypedParts, Referenced, ReleasesEffect DEF SockRelease
<1>9. CASE MsgCopy
  BY <1>a, <1>1, <1>9, TypedParts, AddRefsEffect DEF MsgCopy
<1>10. CASE MsgRelease
  BY <1>a, <1>1, <1>10, TypedParts, Referenced, ReleasesEffect DEF MsgRelease
<1>11. ASSUME NEW o \in Opener, StartOpening(o) \/ OpenConnection(o) PROVE Granted(m)'
  <2>a. \A p \in Opener \ {o} : Opens(p, m) /\ open[p].pc = "move" => Opens(p, m)' /\ open'[p].pc = "move"
    BY <1>11, OwnState DEF Opens
  <2>1. ASSUME open[o].pc # "move" \/ ~Opens(o, m), UNCHANGED vNodes, node'[m].granted = node[m].granted,
               node'[m].grantOutbound = node[m].grantOutbound
        PROVE  Granted(m)'
    BY <1>d, <2>a, <2>1
  <2>2. CASE UNCHANGED <<node, vNodes>> /\ open[o].pc # "move"
    BY <2>1, <2>2
  <2>3. CASE AddRefFound(o)
    <3>1. SameLife(node') /\ UNCHANGED vNodes /\ open[o].pc # "move"
      BY <1>a, <2>3, TypedParts, Pointers, AddRefsEffect DEF AddRefFound
    <3>2. QED
      BY <1>b, <2>1, <3>1 DEF SameLife
  <2>4. CASE Connect(o)
    <3>1. PICK n \in Free, f \in NodeState :
              /\ node' = [node EXCEPT ![n] = f] /\ vNodes' = vNodes \cup {n}
              /\ node'[n].granted => Opens(o, n)' /\ open'[o].pc = "move"
      BY <2>4, ConnectEffect
    <3>2. CASE m = n
      BY <3>1, <3>2 DEF Granted
    <3>3. CASE m # n
      <4>1. open[o].pc # "move"
        BY <2>4 DEF Connect
      <4>2. QED
        BY <1>b, <1>d, <2>a, <3>1, <3>3, <4>1
    <3>4. QED
      BY <3>2, <3>3
  <2>5. CASE MoveGrant(o)
    <3> DEFINE n == open[o].node
    <3>1. node' = Granting(n) /\ UNCHANGED vNodes /\ n \in Heap
      BY <2>5, Pointers DEF Granting, MoveGrant
    <3>2. CASE m = n
      <4>1. node'[m].grantOutbound
        <5>1. node' = Granting(m) /\ m \in Heap /\ NodesTyped
          BY <1>a, <3>1, <3>2, TypedParts
        <5>2. QED
          BY <5>1, GrantEffect
      <4>2. QED
        BY <4>1 DEF Granted
    <3>3. CASE m # n
      <4>1. node'[m] = node[m]
        BY <1>b, <3>1, <3>3 DEF Granting
      <4>2. QED
        BY <2>1, <3>1, <3>3, <4>1 DEF Opens
    <3>4. QED
      BY <3>2, <3>3
  <2>6. CASE SetNetworkNode(o)
    <3>1. /\ node' = Networked(open[o].node) /\ open[o].node \in Heap
          /\ UNCHANGED vNodes /\ open[o].pc # "move"
      BY <2>6, Pointers DEF Networked, SetNetworkNode
    <3>2. node'[m].granted = node[m].granted /\ node'[m].grantOutbound = node[m].grantOutbound
      BY <1>a, <1>b, <3>1, TypedParts, NetworkEffect
    <3>3. QED
      BY <2>1, <3>1, <3>2
  <2>7. QED
    BY <1>11, <2>2, <2>3, <2>4, <2>5, <2>6, UseFreedEnds
       DEF OpenConnection, StartOpening, Acquire, ConnectTo, OneTry, AlreadyConnected, NotConnected, FindNode, ConnectFails
<1>12. QED
  BY <1>2, <1>3, <1>4, <1>5, <1>6, <1>7, <1>8, <1>9, <1>10, <1>11, QuietSteps

(* Every step moves a unit of the semaphore from one place to another. *)
LEMMA GrantsStep == ASSUME IInv, Running, Next, Running' PROVE GrantsAreConserved' /\ semOutbound' \in 0..MaxOutbound
<1> DEFINE G == {o \in Opener : open[o].grant}
           H == {n \in Alive : node[n].grantOutbound}
<1>a. NodesTypeOK /\ GrantsAreConserved /\ SockSound /\ OpenSound
  BY DEF IInv
<1>b. /\ node \in [Heap -> NodeState] /\ open \in [Opener -> OpenState] /\ semOutbound \in 0..MaxOutbound
      /\ open' \in [Opener -> OpenState] /\ node' \in [Heap -> NodeState]
  BY <1>a, OpenTypeStep, NodeTypeStep DEF NodesTypeOK, NodesTyped
<1>c. IsFiniteSet(G) /\ IsFiniteSet(H) /\ IsFiniteSet(G') /\ IsFiniteSet(H')
  BY FS_Subset DEF Alive
<1>d. /\ Cardinality(G) \in Nat /\ Cardinality(H) \in Nat /\ Cardinality(G') \in Nat /\ Cardinality(H') \in Nat
      /\ semOutbound + Cardinality(G) + Cardinality(H) = MaxOutbound
  BY <1>a, <1>c, FS_CardinalityType DEF GrantsAreConserved
<1> DEFINE Kept == semOutbound' \in Nat /\ semOutbound' + Cardinality(G') + Cardinality(H') = MaxOutbound
<1>e. SUFFICES Kept
  BY <1>d DEF GrantsAreConserved
<1>f. ASSUME NEW S, IsFiniteSet(S), NEW x
      PROVE  /\ x \in S => Cardinality(S \ {x}) = Cardinality(S) - 1
             /\ x \notin S => Cardinality(S \cup {x}) = Cardinality(S) + 1
             /\ Cardinality(S) \in Nat
  BY <1>f, FS_AddElement, FS_RemoveElement, FS_CardinalityType
<1>g. UNCHANGED open => G' = G
  OBVIOUS
<1>h. SameLife(node') => H' = H
  BY <1>b DEF SameLife, Alive
<1>i. /\ \A o \in Opener : o \in G <=> open[o].grant
      /\ \A n \in Heap : n \in H <=> node[n].alive /\ node[n].grantOutbound
      /\ \A o \in Opener : o \in G' <=> open'[o].grant
      /\ \A n \in Heap : n \in H' <=> node'[n].alive /\ node'[n].grantOutbound
      /\ G \subseteq Opener /\ G' \subseteq Opener /\ H \subseteq Heap /\ H' \subseteq Heap
  BY DEF Alive
<1>j. semOutbound \in Nat
  BY <1>b
<1> HIDE DEF G, H
<1>1. ASSUME SameLife(node'), UNCHANGED <<open, semOutbound>> PROVE Kept
  BY <1>d, <1>g, <1>h, <1>j, <1>1
<1>2. CASE Quiet
  BY <1>1, <1>2 DEF Quiet
(* The destruction of a node's grant *)
<1>3. ASSUME NEW n \in Heap, UNCHANGED open, H' = H \ {n}, n \in Alive,
             semOutbound' = IF node[n].grantOutbound THEN semOutbound + 1 ELSE semOutbound
      PROVE  Kept
  <2>1. n \in H <=> node[n].grantOutbound
    BY <1>i, <1>3 DEF Alive
  <2>2. n \notin H => H' = H
    BY <1>3
  <2>3. n \in H => Cardinality(H') = Cardinality(H) - 1
    BY <1>c, <1>f, <1>3
  <2>4. QED
    <3>1. G' = G
      BY <1>g, <1>3
    <3>2. semOutbound' = IF n \in H THEN semOutbound + 1 ELSE semOutbound
      BY <1>3, <2>1
    <3>3. QED
      BY <1>d, <1>j, <2>2, <2>3, <3>1, <3>2
<1>4. ASSUME NEW n \in Heap, RemoveNode(n) PROVE Kept
  <2>1. node' = Removed(n) /\ NodesTyped
    BY <1>a, <1>4, TypedParts DEF Removed, RemoveNode
  <2>2. \A m \in Heap : node'[m].alive = node[m].alive /\ node'[m].grantOutbound = (m # n /\ node[m].grantOutbound)
    BY <2>1, RemoveEffect
  <2>3. H' = H \ {n}
    BY <1>i, <2>2
  <2>4. n \in Alive
    BY <1>4 DEF IInv, NodesInUseAreAlive, SockSound, RemoveNode
  <2>5. QED
    BY <1>3, <1>4, <2>3, <2>4 DEF RemoveNode
<1>5. CASE DeleteNode
  <2> DEFINE n == sock.cur
  <2>1. n \in Heap /\ n \in Alive /\ node' = [node EXCEPT ![n] = Deleted]
    BY <1>a, <1>5, Pointers DEF DeleteNode, IInv, NodesInUseAreAlive, DeletingSound
  <2>2. ~node'[n].alive /\ \A m \in Heap \ {n} : node'[m] = node[m]
    BY <1>b, <2>1, NewNodes
  <2>3. H' = H \ {n}
    BY <1>i, <2>2
  <2>4. \A o \in Opener : open'[o].grant = open[o].grant
    BY <1>b, <1>5 DEF DeleteNode, OpenState
  <2>5. G' = G
    BY <1>i, <2>4
  <2>6. n \in H <=> node[n].grantOutbound
    BY <1>i, <2>1 DEF Alive
  <2>7. n \notin H => H' = H
    BY <2>3
  <2>8. n \in H => Cardinality(H') = Cardinality(H) - 1
    BY <1>c, <1>f, <2>3
  <2>9. semOutbound' = IF n \in H THEN semOutbound + 1 ELSE semOutbound
    BY <1>5, <2>6 DEF DeleteNode
  <2> HIDE DEF n
  <2>10. QED
    BY <1>d, <1>j, <2>5, <2>7, <2>8, <2>9
(* A new node has no grant *)
<1>6. ASSUME NEW n \in Free, NEW f \in NodeState, node' = [node EXCEPT ![n] = f], ~f.grantOutbound PROVE H' = H
  <2>1. n \in Heap /\ ~node[n].alive
    BY DEF Free
  <2>2. node'[n] = f /\ \A m \in Heap \ {n} : node'[m] = node[m]
    BY <1>b, <1>6, <2>1
  <2>3. QED
    BY <1>6, <1>i, <2>1, <2>2
<1>7. CASE AcceptConnection
  <2>1. PICK n \in Free, a \in Addr : node' = [node EXCEPT ![n] = FreshNode(a, TRUE)]
    BY <1>7, AcceptEffect
  <2>2. H' = H
    BY <1>6, <2>1, NewNodes
  <2>3. QED
    BY <1>d, <1>g, <1>j, <1>7, <2>2 DEF AcceptConnection
<1>8. ASSUME HoldDisconnected \/ SockCopy \/ SockRelease \/ MsgCopy \/ MsgRelease PROVE Kept
  <2>a. NodesTyped /\ SameLife(node)
    BY <1>a, TypedParts DEF NodesTyped, SameLife
  <2>1. CASE HoldDisconnected
    BY <1>1, <2>1, <2>a, Referenced, ReleasesEffect DEF HoldDisconnected
  <2>2. CASE SockCopy
    BY <1>a, <1>1, <2>2, TypedParts, AddRefsEffect DEF SockCopy
  <2>3. CASE SockRelease
    BY <1>a, <1>1, <2>3, TypedParts, Referenced, ReleasesEffect DEF SockRelease
  <2>4. CASE MsgCopy
    BY <1>a, <1>1, <2>4, TypedParts, AddRefsEffect DEF MsgCopy
  <2>5. CASE MsgRelease
    BY <1>a, <1>1, <2>5, TypedParts, Referenced, ReleasesEffect DEF MsgRelease
  <2>6. QED
    BY <1>8, <2>1, <2>2, <2>3, <2>4, <2>5
<1>9. ASSUME NEW o \in Opener, StartOpening(o) \/ OpenConnection(o) PROVE Kept
  <2>a. \A p \in Opener \ {o} : open'[p] = open[p]
    BY <1>9, OwnState
  <2>b. /\ open[o].grant => open[o].pc \in {"check", "find", "addref", "connect", "move"}
        /\ open[o].pc = "move" => open[o].grant
    BY <1>a DEF OpenSound, Progress
  <2>c. /\ open'[o].grant = open[o].grant => G' = G
        /\ ~open[o].grant /\ open'[o].grant => G' = G \cup {o} /\ o \notin G
        /\ open[o].grant /\ ~open'[o].grant => G' = G \ {o} /\ o \in G
    BY <1>i, <2>a
  <2>d. /\ ~open[o].grant /\ open'[o].grant => Cardinality(G') = Cardinality(G) + 1
        /\ open[o].grant /\ ~open'[o].grant => Cardinality(G') = Cardinality(G) - 1
    BY <1>c, <1>f, <2>c
  <2>e. ASSUME open'[o].grant = open[o].grant, H' = H, UNCHANGED semOutbound PROVE Kept
    BY <1>d, <1>j, <2>c, <2>e
  <2>f. UNCHANGED node => H' = H
    BY <1>i
  <2>1. CASE StartOpening(o)
    <3>1. /\ open[o].pc = "idle" /\ UNCHANGED node
          /\ IF open'[o].grant THEN semOutbound > 0 /\ semOutbound' = semOutbound - 1 ELSE semOutbound' = semOutbound
      BY <1>b, <2>1, StartEffect
    <3>2. ~open[o].grant
      BY <2>b, <3>1
    <3>3. CASE open'[o].grant
      BY <1>d, <1>j, <2>d, <2>f, <3>1, <3>2, <3>3
    <3>4. CASE ~open'[o].grant
      <4>1. G' = G
        BY <1>i, <2>a, <3>2, <3>4
      <4>2. QED
        BY <1>d, <1>j, <2>f, <3>1, <3>4, <4>1
    <3>5. QED
      BY <3>3, <3>4
  <2>2. CASE AlreadyConnected(o) \/ ConnectFails(o)
    <3>1. ~open'[o].grant /\ semOutbound' = IF open[o].grant THEN semOutbound + 1 ELSE semOutbound
      BY <1>b, <2>2, FinishEffect DEF AlreadyConnected, ConnectFails, Finish
    <3>2. UNCHANGED node
      BY <2>2 DEF AlreadyConnected, ConnectFails
    <3>3. CASE open[o].grant
      BY <1>d, <1>j, <2>d, <2>f, <3>1, <3>2, <3>3
    <3>4. CASE ~open[o].grant
      <4>1. G' = G
        BY <1>i, <2>a, <3>1, <3>4
      <4>2. QED
        BY <1>d, <1>j, <2>f, <3>1, <3>2, <3>4, <4>1
    <3>5. QED
      BY <3>3, <3>4
  <2>3. CASE NotConnected(o)
    BY <1>b, <2>3, <2>e, <2>f DEF NotConnected, OpenState
  <2>4. CASE FindNode(o)
    BY <1>b, <2>4, <2>e, <2>f, FindEffect DEF FindNode
  <2>5. CASE AddRefFound(o)
    <3>1. SameLife(node')
      BY <1>a, <2>5, TypedParts, Pointers, AddRefsEffect DEF AddRefFound
    <3>2. open'[o].grant = open[o].grant
      BY <1>b, <2>5 DEF AddRefFound, OpenState
    <3>3. QED
      BY <1>h, <2>5, <2>e, <3>1, <3>2 DEF AddRefFound
  <2>6. CASE Connect(o)
    <3>1. PICK n \in Free, f \in NodeState :
              /\ node' = [node EXCEPT ![n] = f] /\ f = node'[n] /\ ~node'[n].grantOutbound
              /\ open'[o].grant = open[o].grant
      BY <2>6, ConnectEffect
    <3>2. H' = H
      BY <1>6, <3>1
    <3>3. QED
      BY <2>6, <2>e, <3>1, <3>2 DEF Connect
  <2>7. CASE MoveGrant(o)
    <3> DEFINE n == open[o].node
    <3>1. n \in Heap /\ node[n].alive /\ open[o].grant
      BY <1>a, <2>7, <2>b DEF OpenSound, HasNode, MoveGrant
    <3>2. ~open'[o].grant
      BY <1>b, <2>7 DEF MoveGrant, OpenState
    <3>3. node' = Granting(n) /\ NodesTyped
      BY <1>a, <2>7, TypedParts DEF Granting, MoveGrant
    <3>4. \A m \in Heap : node'[m].alive = node[m].alive /\ node'[m].grantOutbound = (m = n \/ node[m].grantOutbound)
      BY <3>1, <3>3, GrantEffect
    <3>5. H' = H \cup {n} /\ (n \in H <=> node[n].grantOutbound)
      <4>1. n \in H <=> node[n].grantOutbound
        BY <1>i, <3>1
      <4>2. \A m \in Heap : m \in H' <=> m \in H \/ m = n
        BY <1>i, <3>1, <3>4
      <4>3. QED
        BY <1>i, <3>1, <4>1, <4>2
    <3>6. (n \in H => H' = H) /\ (n \notin H => Cardinality(H') = Cardinality(H) + 1)
      BY <1>c, <1>f, <3>5
    <3>7. semOutbound' = IF n \in H THEN semOutbound + 1 ELSE semOutbound
      BY <2>7, <3>5 DEF MoveGrant
    <3>8. Cardinality(G') = Cardinality(G) - 1
      BY <2>d, <3>1, <3>2
    <3>9. QED
      BY <1>d, <1>j, <3>6, <3>7, <3>8
  <2>8. CASE SetNetworkNode(o)
    <3>1. ~open[o].grant /\ open[o].pc = "network"
      BY <2>8, <2>b DEF SetNetworkNode
    <3>2. ~open'[o].grant /\ semOutbound' = semOutbound
      BY <1>b, <2>8, <3>1, FinishEffect DEF SetNetworkNode, Finish
    <3>3. node' = Networked(open[o].node) /\ open[o].node \in Heap /\ NodesTyped
      BY <1>a, <2>8, TypedParts, Pointers DEF Networked, SetNetworkNode
    <3>4. \A m \in Heap : node'[m].alive = node[m].alive /\ node'[m].grantOutbound = node[m].grantOutbound
      BY <3>3, NetworkEffect
    <3>5. H' = H /\ G' = G
      BY <1>i, <2>a, <3>1, <3>2, <3>4
    <3>6. QED
      BY <1>d, <1>j, <3>2, <3>5
  <2>9. QED
    BY <1>9, <2>1, <2>2, <2>3, <2>4, <2>5, <2>6, <2>7, <2>8, UseFreedEnds DEF OpenConnection
<1>10. QED
  BY <1>2, <1>4, <1>5, <1>7, <1>8, <1>9, QuietSteps

-----------------------------------------------------------------------------
(* The connections *)

(* What has a grant of H, or is in the hand of one of G, is no more than     *)
(* both together.                                                            *)
LEMMA GrantedOrInHand ==
    ASSUME NEW G, IsFiniteSet(G), NEW H, IsFiniteSet(H), NEW S, NEW f,
           \A n \in S : n \in H \/ \E o \in G : f[o] = n
    PROVE  IsFiniteSet(S) /\ Cardinality(S) <= Cardinality(G) + Cardinality(H)
<1> DEFINE A == {f[o] : o \in G}
<1>1. IsFiniteSet(A) /\ Cardinality(A) <= Cardinality(G)
  <2> DEFINE g == [o \in G |-> f[o]]
  <2>1. g \in Surjection(G, A)
    BY DEF Surjection
  <2>2. QED
    BY <2>1, FS_Surjection
<1>2. IsFiniteSet(A \cup H) /\ Cardinality(A \cup H) = Cardinality(A) + Cardinality(H) - Cardinality(A \cap H)
  BY <1>1, FS_Union
<1>3. IsFiniteSet(A \cap H)
  BY <1>1, FS_Intersection
<1>4. /\ Cardinality(A) \in Nat /\ Cardinality(H) \in Nat /\ Cardinality(G) \in Nat
      /\ Cardinality(A \cap H) \in Nat /\ Cardinality(A \cup H) \in Nat
  BY <1>1, <1>2, <1>3, FS_CardinalityType
<1>5. S \subseteq A \cup H
  OBVIOUS
<1>6. IsFiniteSet(S) /\ Cardinality(S) <= Cardinality(A \cup H) /\ Cardinality(S) \in Nat
  BY <1>2, <1>5, FS_Subset, FS_CardinalityType
<1>7. QED
  BY <1>1, <1>2, <1>4, <1>6

(* There are never more connections made under a grant than units of the semaphore. *)
LEMMA OutboundStep ==
    ASSUME IInv, Running, Next, Running'
    PROVE  Cardinality({n \in vNodes : node[n].granted})' <= MaxOutbound
<1> DEFINE G == {o \in Opener : open'[o].grant}
           H == {n \in Alive' : node'[n].grantOutbound}
           S == {n \in vNodes' : node'[n].granted}
           f == [o \in Opener |-> open'[o].node]
<1>1. vNodes' \subseteq Alive'
  BY AliveStep DEF NodesInUseAreAlive
<1>2. \A o \in Opener : open'[o].pc = "move" => open'[o].grant
  BY ProgressStep DEF Progress
<1>3. ASSUME NEW n \in S PROVE n \in H \/ \E o \in G : f[o] = n
  <2>1. n \in Alive' /\ Granted(n)'
    BY <1>1, GrantedStep
  <2>2. QED
    BY <1>2, <2>1 DEF Granted, Opens
<1>4. IsFiniteSet(G) /\ IsFiniteSet(H)
  BY FS_Subset DEF Alive
<1>5. IsFiniteSet(S) /\ Cardinality(S) <= Cardinality(G) + Cardinality(H)
  <2> HIDE DEF G, H, S, f
  <2>1. QED
    BY <1>3, <1>4, GrantedOrInHand
<1>6. semOutbound' + Cardinality(G) + Cardinality(H) = MaxOutbound /\ semOutbound' \in Nat
  BY GrantsStep DEF GrantsAreConserved
<1>7. Cardinality(G) \in Nat /\ Cardinality(H) \in Nat /\ Cardinality(S) \in Nat
  BY <1>4, <1>5, FS_CardinalityType
<1>8. Cardinality(S) <= MaxOutbound
  <2> HIDE DEF G, H, S
  <2>1. QED
    BY <1>5, <1>6, <1>7
<1>9. QED
  BY <1>8

(* ThreadSocketHandler accepts no more than the limit allows. *)
LEMMA InboundStep == ASSUME IInv, Running, Next, Running' PROVE nInbound' <= MaxInbound
<1> DEFINE S == {n \in vNodes : node[n].fInbound}
<1>a. NodesTypeOK /\ NodesInUseAreAlive /\ vNodes \subseteq Heap /\ vNodes \subseteq Alive
  BY DEF IInv, NodesTypeOK, NodesInUseAreAlive
<1>b. node \in [Heap -> NodeState] /\ SockSound /\ DeletingSound
  BY <1>a DEF IInv, NodesTypeOK
<1>c. IsFiniteSet(S) /\ Cardinality(S) <= MaxInbound /\ Cardinality(S) \in Nat /\ nInbound = Cardinality(S)
  <2>1. IsFiniteSet(S)
    BY <1>a, FS_Subset
  <2>2. QED
    BY <2>1, FS_CardinalityType DEF IInv, ConnectionsAreBounded, nInbound
<1>1. CASE AcceptConnection
  <2>1. PICK n \in Free, a \in Addr : node' = [node EXCEPT ![n] = FreshNode(a, TRUE)] /\ vNodes' = vNodes \cup {n}
    BY <1>1, AcceptEffect
  <2>2. n \in Heap /\ n \notin vNodes
    BY <1>a, <2>1 DEF Free, Alive
  <2>3. S' \subseteq S \cup {n}
    BY <1>a, <1>b, <2>1, <2>2
  <2>4. Cardinality(S) + 1 <= MaxInbound
    BY <1>1, <1>c DEF AcceptConnection
  <2> HIDE DEF S
  <2>5. IsFiniteSet(S \cup {n}) /\ Cardinality(S \cup {n}) <= Cardinality(S) + 1 /\ Cardinality(S \cup {n}) \in Nat
    <3>1. IsFiniteSet(S \cup {n}) /\ Cardinality(S \cup {n}) = IF n \in S THEN Cardinality(S) ELSE Cardinality(S) + 1
      BY <1>c, FS_AddElement
    <3>2. QED
      BY <1>c, <3>1, FS_CardinalityType
  <2>6. Cardinality(S') <= Cardinality(S \cup {n}) /\ Cardinality(S') \in Nat
    BY <2>3, <2>5, FS_Subset, FS_CardinalityType
  <2>7. Cardinality(S') <= MaxInbound
    BY <1>c, <2>4, <2>5, <2>6
  <2>8. QED
    BY <2>7 DEF nInbound, S
<1>2. CASE ~AcceptConnection
  <2>1. \A n \in vNodes : ~DeleteNode \/ n # sock.cur
    BY <1>b DEF DeletingSound, SockSound, DeleteNode
  <2>2. \A n \in vNodes : node'[n].fInbound = node[n].fInbound
    BY <1>a, <2>1, LivesOn
  <2>3. S' \subseteq S
    <3>1. CASE vNodes' \subseteq vNodes
      BY <2>2, <3>1
    <3>2. ASSUME NEW o \in Opener, Connect(o) PROVE S' \subseteq S
      <4>1. PICK n \in Free : ~node'[n].fInbound /\ vNodes' = vNodes \cup {n}
        BY <3>2, ConnectEffect
      <4>2. QED
        BY <2>2, <4>1
    <3>3. SockLoop => AcceptConnection \/ vNodes' \subseteq vNodes
      BY DEF SockLoop, KeepNode, RemoveNode, TryDelete, ServiceNode, HoldDisconnected, RemovalDone, DeleteNode,
             FreeingDone, AcceptNothing, SockCopy, SockRelease
    <3>4. QED
      BY <1>2, <3>1, <3>2, <3>3, SockFrame, UseFreedEnds DEF Disturbs
  <2> HIDE DEF S
  <2>4. Cardinality(S') <= Cardinality(S) /\ Cardinality(S') \in Nat
    BY <1>c, <2>3, FS_Subset, FS_CardinalityType
  <2>5. Cardinality(S') <= MaxInbound
    BY <1>c, <2>4
  <2>6. QED
    BY <2>5 DEF nInbound, S
<1>3. QED
  BY <1>1, <1>2

-----------------------------------------------------------------------------
(* The theorems *)

(* The initial state. *)
LEMMA InitInv == Init => IInv
<1> SUFFICES ASSUME Init PROVE IInv
  OBVIOUS
<1>a. /\ \A n \in Heap : node[n] = Deleted
      /\ vNodes = {} /\ vNodesDisconnected = {} /\ semOutbound = MaxOutbound
      /\ sock.pc = "top" /\ sock.copy = {} /\ sock.todo = {} /\ sock.cur = NULL
      /\ msg.pc = "copy" /\ msg.copy = {} /\ msg.todo = {}
      /\ \A o \in Opener : /\ open[o].pc = "idle" /\ open[o].node = NULL
                           /\ ~open[o].grant /\ ~open[o].found /\ ~open[o].stale
  BY IdleEffect DEF Init
<1>b. Alive = {}
  BY <1>a, NewNodes DEF Alive
<1>c. \A o \in Opener, n \in Heap \cup {NULL} : ~Opens(o, n)
  BY <1>a DEF Opens
<1>1. NodesTypeOK
  BY NewNodes, IdleEffect DEF Init, NodesTypeOK, SockState, MsgState, OpenState
<1>2. NodesInUseAreAlive
  BY <1>a DEF NodesInUseAreAlive, SockUses, MsgUses, OpenUses
<1>3. {o \in Opener : open[o].grant} = {} /\ {n \in Alive : node[n].grantOutbound} = {}
  BY <1>a, <1>b
<1>4. GrantsAreConserved
  <2>1. /\ Cardinality({o \in Opener : open[o].grant}) = 0
        /\ Cardinality({n \in Alive : node[n].grantOutbound}) = 0
    BY <1>3, FS_EmptySet
  <2> QED
    BY <1>a, <2>1 DEF GrantsAreConserved
<1>5. {n \in vNodes : node[n].granted} = {} /\ {n \in vNodes : node[n].fInbound} = {}
  BY <1>a
<1>6. ConnectionsAreBounded
  <2>1. Cardinality({n \in vNodes : node[n].granted}) = 0 /\ Cardinality({n \in vNodes : node[n].fInbound}) = 0
    BY <1>5, FS_EmptySet
  <2>2. QED
    BY <2>1 DEF ConnectionsAreBounded, nInbound
<1>7. SockSound /\ DeletingSound /\ MsgSound
  BY <1>a DEF SockSound, DeletingSound, MsgSound
<1>8. OpenSound
  BY <1>a, <1>c DEF OpenSound, Progress, HasNode
<1>9. CountsSound /\ GrantsSound
  BY <1>a, <1>b DEF CountsSound, GrantsSound
<1>10. Running
  BY <1>a DEF Running
<1>11. QED
  BY <1>1, <1>2, <1>4, <1>6, <1>7, <1>8, <1>9, <1>10 DEF IInv

(* A write to freed memory changes no node and no list. *)
LEMMA UndefinedStep == ASSUME IInv, Running, Next, NEW o \in Opener, UseFreed(o) PROVE IInv'
<1>a. /\ NodesTypeOK /\ NodesInUseAreAlive /\ GrantsAreConserved /\ ConnectionsAreBounded
      /\ open \in [Opener -> OpenState] /\ sock \in SockState /\ msg \in MsgState
  BY DEF IInv, NodesTypeOK
<1>1. /\ UNCHANGED <<node, vNodes, vNodesDisconnected, pnodeSync, semOutbound>>
      /\ sock'.copy = sock.copy /\ sock'.cur = sock.cur /\ msg'.copy = msg.copy /\ msg'.pc = "undefined"
      /\ \A p \in Opener : /\ open'[p].pc = "undefined" /\ open'[p].grant = open[p].grant
                           /\ open'[p].found = open[p].found /\ open'[p].stale = open[p].stale
  BY <1>a DEF UseFreed, OpenState, SockState, MsgState
<1>2. Alive' = Alive /\ {p \in Opener : open[p].grant}' = {p \in Opener : open[p].grant}
  BY <1>1 DEF Alive
<1>3. NodesTypeOK'
  BY <1>a, <1>1, OpenTypeStep, SockTypeStep, MsgTypeStep DEF NodesTypeOK
<1>4. NodesInUseAreAlive'
  BY <1>a, <1>1, <1>2 DEF NodesInUseAreAlive, SockUses, MsgUses, OpenUses
<1>5. GrantsAreConserved' /\ ConnectionsAreBounded'
  BY <1>a, <1>1, <1>2 DEF GrantsAreConserved, ConnectionsAreBounded, nInbound
<1>6. QED
  BY <1>1, <1>3, <1>4, <1>5, UseFreedEnds DEF IInv

(* Until then, every step keeps what the threads rely on. *)
LEMMA RunningStep == ASSUME IInv, Running, Next, Running' PROVE IInv'
<1>1. NodesTypeOK'
  BY NodeTypeStep, OpenTypeStep, SyncTypeStep, SockTypeStep, MsgTypeStep, GrantsStep DEF NodesTypeOK, NodesTyped
<1>2. NodesInUseAreAlive' /\ GrantsAreConserved'
  BY AliveStep, GrantsStep
<1>3. ConnectionsAreBounded'
  BY OutboundStep, InboundStep DEF ConnectionsAreBounded
<1>4. SockSound' /\ DeletingSound' /\ MsgSound'
  BY SockStep, DeletingStep, MsgStep
<1>5. OpenSound'
  BY ProgressStep, HasNodeStep DEF OpenSound
<1>6. CountsSound' /\ GrantsSound'
  BY CountStep, GrantedStep DEF CountsSound, GrantsSound
<1>7. QED
  BY <1>1, <1>2, <1>3, <1>4, <1>5, <1>6 DEF IInv

(* After it, nobody takes a step. *)
LEMMA Stopped == ASSUME IInv, ~Running, Next PROVE FALSE
<1>1. sock.pc = "undefined" /\ msg.pc = "undefined" /\ \A o \in Opener : open[o].pc = "undefined"
  BY DEF IInv, Running
<1>2. ~SockLoop
  BY <1>1 DEF SockLoop, KeepNode, RemoveNode, TryDelete, ServiceNode, HoldDisconnected, RemovalDone, DeleteNode,
              FreeingDone, AcceptConnection, AcceptNothing, SockCopy, SockRelease
<1>3. ~MsgLoop
  BY <1>1 DEF MsgLoop, MsgCopy, NoSyncCandidate, SetSync, ChooseSync, PollNode, HandleNode, MsgRelease
<1>4. \A o \in Opener : ~StartOpening(o) /\ ~OpenConnection(o)
  BY <1>1 DEF StartOpening, Acquire, ConnectTo, OneTry, OpenConnection, AlreadyConnected, NotConnected, FindNode, AddRefFound, UseFreed, Connect,
              ConnectFails, MoveGrant, SetNetworkNode
<1>5. QED
  BY <1>2, <1>3, <1>4 DEF Next

(* A step of the rest of the system changes nothing. *)
LEMMA InvStays == ASSUME IInv, UNCHANGED vars PROVE IInv'
<1>1. /\ UNCHANGED <<node, vNodes, vNodesDisconnected, pnodeSync, semOutbound, sock, msg, open>>
  BY DEF vars
<1>2. (NodesTypeOK /\ NodesInUseAreAlive /\ GrantsAreConserved /\ ConnectionsAreBounded)'
  BY <1>1 DEF IInv, NodesTypeOK, NodesInUseAreAlive, SockUses, MsgUses, OpenUses, Alive, GrantsAreConserved,
              ConnectionsAreBounded, nInbound
<1>3. /\ SockSound' = SockSound /\ DeletingSound' = DeletingSound /\ MsgSound' = MsgSound
      /\ OpenSound' = OpenSound /\ CountsSound' = CountsSound /\ GrantsSound' = GrantsSound /\ Running' = Running
  BY <1>1 DEF SockSound, DeletingSound, MsgSound, OpenSound, Progress, HasNode, Opens, CountsSound, Counted, Joined,
              Holders, Listed, Removing, Alive, GrantsSound, Granted, Running
<1>4. QED
  BY <1>1, <1>2, <1>3 DEF IInv

(* Only a write to freed memory ends the run. *)
LEMMA EndsOnlySo == ASSUME IInv, Running, Next, ~Running' PROVE \E o \in Opener : UseFreed(o)
<1>a. sock \in SockState
  BY DEF IInv, NodesTypeOK
<1>1. ASSUME NEW n \in Heap, KeepNode(n) \/ RemoveNode(n) \/ TryDelete(n) \/ ServiceNode(n) PROVE Running'
  BY <1>a, <1>1 DEF SockState, Running, KeepNode, RemoveNode, TryDelete, ServiceNode
<1>2. HoldDisconnected \/ RemovalDone \/ DeleteNode \/ FreeingDone \/ AcceptConnection => Running'
  BY <1>a DEF SockState, Running, HoldDisconnected, RemovalDone, DeleteNode, FreeingDone, AcceptConnection
<1>3. AcceptNothing \/ SockCopy \/ SockRelease => Running'
  BY <1>a DEF SockState, Running, AcceptNothing, SockCopy, SockRelease
<1>4. UNCHANGED sock => Running'
  BY DEF Running
<1>5. \A o \in Opener : Connect(o) => UNCHANGED sock
  BY DEF Connect
<1>6. QED
  BY <1>1, <1>2, <1>3, <1>4, <1>5, SockFrame DEF SockLoop, Disturbs

(* The inductive invariant. *)
THEOREM Invariance == Spec => []IInv
<1>1. Init => IInv
  BY InitInv
<1>2. IInv /\ [Next]_vars => IInv'
  BY RunningStep, UndefinedStep, EndsOnlySo, Stopped, InvStays
<1>3. QED
  BY <1>1, <1>2, PTL DEF Spec

-----------------------------------------------------------------------------
(* Each part of it, by itself *)

(* It implies both properties. *)
LEMMA InvImplies == IInv => UsedNodesAreKept /\ ConnectionsAreGranted
<1> SUFFICES ASSUME IInv PROVE UsedNodesAreKept /\ ConnectionsAreGranted
  OBVIOUS
<1>1. ASSUME Running, NEW n \in Alive
      PROVE  /\ node[n].nRefCount >= Holders(n) + (IF n \in vNodes THEN 1 ELSE 0)
             /\ ~LocksFree(n) => node[n].nRefCount > 0
  <2>1. Counted(n) /\ node[n].nRefCount \in Nat
    BY <1>1 DEF IInv, CountsSound, NodesTypeOK, NodeState, Alive
  <2>2. Holders(n) \in Nat /\ (n \in msg.copy => Holders(n) >= 1)
    BY DEF Holders
  <2>3. Listed(n) \in Nat /\ Listed(n) >= (IF n \in vNodes THEN 1 ELSE 0)
    BY DEF Listed
  <2>4. node[n].nRefCount >= Holders(n) + Listed(n)
    BY <2>1 DEF Counted
  <2>5. ~LocksFree(n) => n \in msg.copy
    BY <1>1 DEF IInv, MsgSound, LocksFree
  <2>6. QED
    BY <2>1, <2>2, <2>3, <2>4, <2>5
<1>2. ReferencesAreCounted
  BY <1>1 DEF ReferencesAreCounted
<1>3. QED
  BY <1>2 DEF IInv, UsedNodesAreKept, ConnectionsAreGranted

(* Whatever the three kinds of threads do to the nodes, in any order: no     *)
(* thread has a deleted node in its snapshot, in hand or in vNodes, and the  *)
(* count of a node is never below its users.                                 *)
THEOREM UsedNodesAreKeptAlways == Spec => []UsedNodesAreKept
BY Invariance, InvImplies, PTL

(* No order of connecting, moving a grant, being disconnected and being      *)
(* deleted loses or doubles a unit of the outbound semaphore, and the        *)
(* connections made under a grant, and the inbound ones, keep within their   *)
(* limits, whatever -connect and addnode open besides.                       *)
THEOREM ConnectionsAreGrantedAlways == Spec => []ConnectionsAreGranted
BY Invariance, InvImplies, PTL
=============================================================================
