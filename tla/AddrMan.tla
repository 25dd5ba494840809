------------------------------ MODULE AddrMan ------------------------------
(***************************************************************************)
(* The address manager (src/addrman.cpp, src/addrman.h): addresses in      *)
(* "new" buckets, counted by reference, and in "tried" buckets, with the   *)
(* indexes mapInfo, mapAddr and vRandom, and what saving it in peers.dat   *)
(* and loading it again makes of them.  Each operation holds cs throughout *)
(* and so is one step.                                                     *)
(*                                                                         *)
(* Abstracted: which bucket an address falls into is a constant; times     *)
(* only order the entries of the tried buckets (success); whether an entry *)
(* is terrible, which random numbers are drawn and whether an address that *)
(* is known already is taken in again are choices.  A restart with an      *)
(* older peers.dat is a Reload of an earlier state.                        *)
(***************************************************************************)
EXTENDS Order, Sequences, SequencesExt

CONSTANTS
    NetAddr, Source, NewBucket, TriedBucket,   \* bucket numbers are model values
    GetNewBucket,       \* by address and source
    GetTriedBucket,     \* by address
    ADDRMAN_NEW_BUCKET_SIZE, ADDRMAN_TRIED_BUCKET_SIZE,
    ADDRMAN_NEW_BUCKETS_PER_ADDRESS,
    ADDRMAN_TRIED_ENTRIES_INSPECT_ON_EVICT,
    nNodes,             \* GetAddr_'s count, for each size of vRandom
    MaxId               \* ids a behaviour may use between two reloads

ASSUME BucketsAssumption ==
    /\ IsFiniteSet(NetAddr) /\ IsFiniteSet(NewBucket)
    /\ GetNewBucket \in [NetAddr -> [Source -> NewBucket]]
    /\ GetTriedBucket \in [NetAddr -> TriedBucket]
ASSUME AddrManLimitsAssumption ==
    /\ ADDRMAN_NEW_BUCKET_SIZE \in Nat \ {0} /\ ADDRMAN_TRIED_BUCKET_SIZE \in Nat \ {0}
    /\ ADDRMAN_NEW_BUCKETS_PER_ADDRESS \in Nat \ {0}
    /\ ADDRMAN_TRIED_ENTRIES_INSPECT_ON_EVICT \in Nat \ {0}
    /\ MaxId \in Nat
    /\ nNodes \in [0..Cardinality(NetAddr) -> Nat] /\ \A n \in DOMAIN nNodes : nNodes[n] <= n

VARIABLES
    mapInfo,    \* by id: the address, its source, nRefCount, fInTried, nRandomPos
    mapAddr,
    vRandom,
    nTried, nNew,
    vvTried, vvNew,
    nIdCount,
    success     \* the tried entries' addresses by nLastSuccess, the oldest first

addrmanVars == <<mapInfo, mapAddr, vRandom, nTried, nNew, vvTried, vvNew, nIdCount, success>>

(* The tables as one value, for the operations that work on them in steps. *)
Tables == [info |-> mapInfo, addr |-> mapAddr, random |-> vRandom, tried |-> nTried, new |-> nNew,
           vvTried |-> vvTried, vvNew |-> vvNew, ids |-> nIdCount]

Become(t) ==
    /\ mapInfo' = t.info /\ mapAddr' = t.addr /\ vRandom' = t.random
    /\ nTried' = t.tried /\ nNew' = t.new
    /\ vvTried' = t.vvTried /\ vvNew' = t.vvNew /\ nIdCount' = t.ids

With(f, x, y) == [z \in DOMAIN f \cup {x} |-> IF z = x THEN y ELSE f[z]]
Without(f, x) == [y \in DOMAIN f \ {x} |-> f[y]]

Empty == [x \in {} |-> 0]

(* the subsequence of s of what is in S *)
Only(s, S) ==
    LET kept == {n \in DOMAIN s : s[n] \in S}
    IN  [i \in 1..Cardinality(kept) |-> s[At(kept, i - 1)]]

AddrManInit ==
    /\ mapInfo = Empty /\ mapAddr = Empty /\ vRandom = <<>>
    /\ nTried = 0 /\ nNew = 0
    /\ vvTried = [k \in TriedBucket |-> <<>>] /\ vvNew = [u \in NewBucket |-> {}]
    /\ nIdCount = 0 /\ success = <<>>

-----------------------------------------------------------------------------
(* The steps of the operations, on tables t.  The variants named "Slip..."   *)
(* are not part of the model: each is a mistake that the property it is      *)
(* paired with in PROJECT.json would notice.                                 *)

(* SwapRandom, on positions from 1 *)
SwapRandom(t, p, q) ==
    [t EXCEPT !.info[t.random[p]].nRandomPos = q, !.info[t.random[q]].nRandomPos = p,
              !.random[p] = t.random[q], !.random[q] = t.random[p]]

Create(t, a, s) ==
    [t EXCEPT !.info = With(@, t.ids, [addr |-> a, source |-> s, nRefCount |-> 0, fInTried |-> FALSE,
                                       nRandomPos |-> Len(t.random) + 1]),
              !.addr = With(@, a, t.ids), !.random = Append(@, t.ids),
              !.new = @ + 1, !.ids = @ + 1]

(* the last entry of vRandom is dropped without being put in the gap *)
SlipDelete(t, id) ==
    [t EXCEPT !.random = Front(@), !.info = Without(@, id), !.addr = Without(@, t.info[id].addr), !.new = @ - 1]

Delete(t, id) ==
    LET swapped == SwapRandom(t, t.info[id].nRandomPos, Len(t.random)) IN
    [swapped EXCEPT !.random = Front(@), !.info = Without(@, id),
                    !.addr = Without(@, t.info[id].addr), !.new = @ - 1]

(* ShrinkNew removes any entry: the first terrible one, or the oldest of four  *)
(* that were drawn with replacement.                                           *)
ShrinkNew(t, u, id) ==
    LET less == [t EXCEPT !.info[id].nRefCount = @ - 1, !.vvNew[u] = @ \ {id}] IN
    IF less.info[id].nRefCount = 0 THEN Delete(less, id) ELSE less

Referred(t, u, id) == IF id \in t.vvNew[u] THEN t ELSE [t EXCEPT !.info[id].nRefCount = @ + 1]

(* the tables after id was put into bucket u, by what may have had to go *)
PutInNew(t, u, id) ==
    LET r == Referred(t, u, id)
        Put(x) == [x EXCEPT !.vvNew[u] = @ \cup {id}]
    IN IF id \notin t.vvNew[u] /\ Cardinality(t.vvNew[u]) = ADDRMAN_NEW_BUCKET_SIZE
       THEN {Put(ShrinkNew(r, u, victim)) : victim \in t.vvNew[u]}
       ELSE {Put(r)}

(* SelectTried: the first few entries are drawn at random and swapped to the   *)
(* front.  nOldestPos is where the oldest was drawn from, not where it is now. *)
SwapTried(v, i, p) == [v EXCEPT ![i] = v[p], ![p] = v[i]]
Age(t, id) == CHOOSE n \in DOMAIN success : success[n] = t.info[id].addr
Inspect(t, found, i, p) ==
    LET id == found.v[p]
        older == found.nOldest = 0 \/ Age(t, id) < found.nOldest
    IN [v          |-> SwapTried(found.v, i, p),
        nOldest    |-> IF older THEN Age(t, id) ELSE found.nOldest,
        nOldestPos |-> IF older THEN p ELSE found.nOldestPos]

Draws(n, from) == {d \in [1..n -> 1..from] : \A i \in 1..n : d[i] >= i}

(* what SelectTried has found after i entries *)
Inspecting(t, k, draw) ==
    LET inspecting[i \in 0..Len(draw)] ==
            IF i = 0 THEN [v |-> t.vvTried[k], nOldest |-> 0, nOldestPos |-> 0]
                     ELSE Inspect(t, inspecting[i - 1], i, draw[i])
    IN  inspecting

SelectTried(t, k, draw) == Inspecting(t, k, draw)[Len(draw)]

BucketBack(t, id, nOrigin) ==
    LET u == GetNewBucket[t.info[id].addr][t.info[id].source] IN
    IF Cardinality(t.vvNew[u]) < ADDRMAN_NEW_BUCKET_SIZE THEN u ELSE nOrigin

Evict(t, id, nOrigin) ==
    [t EXCEPT !.info[id].fInTried = FALSE, !.info[id].nRefCount = 1,
              !.vvNew[BucketBack(t, id, nOrigin)] = @ \cup {id}, !.new = @ + 1]

(* MakeTried, by what SelectTried may have drawn *)
MakeTried(t, id, nOrigin) ==
    LET k == GetTriedBucket[t.info[id].addr]
        out == [t EXCEPT !.vvNew = [u \in NewBucket |-> @[u] \ {id}], !.info[id].nRefCount = 0, !.new = @ - 1]
        n == Len(t.vvTried[k])
        inspected == IF n < ADDRMAN_TRIED_ENTRIES_INSPECT_ON_EVICT THEN n ELSE ADDRMAN_TRIED_ENTRIES_INSPECT_ON_EVICT
    IN IF n < ADDRMAN_TRIED_BUCKET_SIZE
       THEN {[out EXCEPT !.vvTried[k] = Append(@, id), !.tried = @ + 1, !.info[id].fInTried = TRUE]}
       ELSE {LET found == SelectTried(out, k, draw)
                 shuffled == [out EXCEPT !.vvTried[k] = found.v]
             IN [Evict(shuffled, found.v[found.nOldestPos], nOrigin)
                    EXCEPT !.vvTried[k][found.nOldestPos] = id, !.info[id].fInTried = TRUE]
             : draw \in Draws(inspected, n)}

-----------------------------------------------------------------------------
(* The operations *)

(* Add_ of an address that is not known *)
AddNew(a, s) ==
    /\ a \notin DOMAIN mapAddr
    /\ nIdCount < MaxId
    /\ \E t \in PutInNew(Create(Tables, a, s), GetNewBucket[a][s], nIdCount) : Become(t)
    /\ UNCHANGED success

(* Add_ of an address that is known, as far as it goes on to the buckets *)
AddAgain(a, s) ==
    /\ a \in DOMAIN mapAddr
    /\ LET id == mapAddr[a] IN
       /\ ~mapInfo[id].fInTried
       /\ mapInfo[id].nRefCount # ADDRMAN_NEW_BUCKETS_PER_ADDRESS
       /\ \E t \in PutInNew(Tables, GetNewBucket[a][s], id) : Become(t)
    /\ UNCHANGED success

Latest(s, a) == Append(Only(s, ToSet(s) \ {a}), a)

(* Good_ of an address that is in the tried table already *)
GoodAgain(a) ==
    /\ a \in DOMAIN mapAddr /\ mapInfo[mapAddr[a]].fInTried
    /\ success' = Latest(success, a)
    /\ UNCHANGED <<mapInfo, mapAddr, vRandom, nTried, nNew, vvTried, vvNew, nIdCount>>

(* Good_ of an address of the new table *)
Good(a) ==
    /\ a \in DOMAIN mapAddr /\ ~mapInfo[mapAddr[a]].fInTried
    /\ LET id == mapAddr[a] IN
       \E nOrigin \in {u \in NewBucket : id \in vvNew[u]} :
          \E t \in MakeTried(Tables, id, nOrigin) :
              /\ Become(t)
              /\ success' = Only(Latest(success, a), {x \in DOMAIN t.addr : t.info[t.addr[x]].fInTried})

(* the tables after i swaps *)
Shuffling(draw) ==
    LET shuffling[i \in 0..Len(draw)] ==
            IF i = 0 THEN Tables ELSE SwapRandom(shuffling[i - 1], i, draw[i])
    IN  shuffling

(* GetAddr_ *)
GetAddr ==
    /\ \E draw \in Draws(nNodes[Len(vRandom)], Len(vRandom)) : Become(Shuffling(draw)[Len(draw)])
    /\ UNCHANGED success

(* The entries go to the file in the order of their ids, from 0. *)
News == {id \in DOMAIN mapInfo : mapInfo[id].nRefCount # 0}
Trieds == {id \in DOMAIN mapInfo : mapInfo[id].fInTried}

(* an entry is saved under its place among all entries *)
SlipnIndex(id) == Rank(DOMAIN mapInfo, id)

(* mapUnkIds *)
nIndex(id) == Rank(News, id)

(* the n-th entry of the file *)
Saved(n) == IF n < Cardinality(News) THEN At(News, n) ELSE At(Trieds, n - Cardinality(News))

(* Save and load: the new entries get the first ids, then the tried ones,      *)
(* which go back into their buckets in that order.                             *)
Reload ==
    LET nSize == Cardinality(News) + Cardinality(Trieds)
        tried == [n \in 1..Cardinality(Trieds) |-> Cardinality(News) + n - 1]
        place(k) == Only(tried, {n \in ToSet(tried) : GetTriedBucket[mapInfo[Saved(n)].addr] = k})
        buckets == [u \in NewBucket |-> {nIndex(id) : id \in vvNew[u]}]
    IN /\ mapInfo' = [n \in 0..(nSize - 1) |->
                         [mapInfo[Saved(n)] EXCEPT !.nRandomPos = n + 1,
                                                   !.nRefCount = Cardinality({u \in NewBucket : n \in buckets[u]})]]
       /\ mapAddr' = [a \in DOMAIN mapAddr |-> CHOOSE n \in 0..(nSize - 1) : Saved(n) = mapAddr[a]]
       /\ vRandom' = [n \in 1..nSize |-> n - 1]
       /\ vvTried' = [k \in TriedBucket |-> place(k)]
       /\ vvNew' = buckets
       /\ nIdCount' = nSize
       /\ UNCHANGED <<nTried, nNew, success>>

AddrManNext ==
    \/ \E a \in NetAddr, s \in Source : AddNew(a, s) \/ AddAgain(a, s)
    \/ \E a \in NetAddr : Good(a) \/ GoodAgain(a)
    \/ GetAddr \/ Reload

AddrManSpec == AddrManInit /\ [][AddrManNext]_addrmanVars

-----------------------------------------------------------------------------
Ids == DOMAIN mapInfo
New == {id \in Ids : ~mapInfo[id].fInTried}
Tried == {id \in Ids : mapInfo[id].fInTried}
Buckets(id) == {u \in NewBucket : id \in vvNew[u]}

(* The type invariant of the address manager: also, the buckets hold only ids  *)
(* that mapInfo knows, as the assertions of the code want.                     *)
AddrManTypeOK ==
    /\ Ids \subseteq 0..(nIdCount - 1) /\ nIdCount \in 0..MaxId
    /\ mapInfo \in [Ids -> [addr : NetAddr, source : Source, nRefCount : 0..ADDRMAN_NEW_BUCKETS_PER_ADDRESS,
                            fInTried : BOOLEAN, nRandomPos : 1..Len(vRandom)]]
    /\ DOMAIN mapAddr \subseteq NetAddr
    /\ nTried \in Nat /\ nNew \in Nat
    /\ vvNew \in [NewBucket -> SUBSET Ids] /\ vvTried \in [TriedBucket -> Seq(Ids)]
    /\ ToSet(success) = {mapInfo[id].addr : id \in Tried} /\ Len(success) = Cardinality(Tried)

(* mapAddr and vRandom have every entry once, and the entry knows where: what  *)
(* Check_ calls -5 and -14.                                                    *)
IndexesAgree ==
    /\ \A a \in DOMAIN mapAddr : mapAddr[a] \in Ids /\ mapInfo[mapAddr[a]].addr = a
    /\ \A id \in Ids : mapInfo[id].addr \in DOMAIN mapAddr /\ mapAddr[mapInfo[id].addr] = id
    /\ Len(vRandom) = Cardinality(Ids)
    /\ \A id \in Ids : mapInfo[id].nRandomPos \in DOMAIN vRandom /\ vRandom[mapInfo[id].nRandomPos] = id

(* The counters that Select_ goes by are exact (-7, -9, -10): it would look    *)
(* for ever for an entry of a table it wrongly believes in.                    *)
CountsAreExact == nTried = Cardinality(Tried) /\ nNew = Cardinality(New)

(* A new entry is in as many buckets as it counts, at least in one; a tried    *)
(* one has one place, in its own bucket, and none among the new (-2 to -4 and  *)
(* -11 to -15).                                                                *)
ReferencesAreBuckets ==
    /\ \A id \in Ids : mapInfo[id].nRefCount = Cardinality(Buckets(id))
    /\ \A id \in New : Buckets(id) # {}
    /\ \A id \in Tried : Buckets(id) = {}
    /\ \A k \in TriedBucket :
          /\ IsInjective(vvTried[k])
          /\ ToSet(vvTried[k]) = {id \in Tried : GetTriedBucket[mapInfo[id].addr] = k}

(* "Only keep a limited number of addresses around": no bucket overflows, also *)
(* when an entry evicted from a tried bucket comes back ("there is certainly   *)
(* place there").                                                              *)
BucketsAreBounded ==
    /\ \A u \in NewBucket : Cardinality(vvNew[u]) <= ADDRMAN_NEW_BUCKET_SIZE
    /\ \A k \in TriedBucket : Len(vvTried[k]) <= ADDRMAN_TRIED_BUCKET_SIZE

(* "Perform consistency check" (addrman.h): what Check_ tests when it is       *)
(* compiled in, after every operation, at buckets that are full.               *)
Check_ == AddrManTypeOK /\ IndexesAgree /\ CountsAreExact /\ ReferencesAreBuckets /\ BucketsAreBounded

TriedAreKept ==
    LET was == {mapInfo[id].addr : id \in Tried}
        is == {mapInfo'[id].addr : id \in {i \in DOMAIN mapInfo' : mapInfo'[i].fInTried}}
    IN /\ was \subseteq DOMAIN mapAddr'
       /\ Cardinality(was \ is) <= Cardinality(is \ was)

Content == [a \in DOMAIN mapAddr |-> <<mapInfo[mapAddr[a]].fInTried, Buckets(mapAddr[a])>>]

(* Tried entries "are never deleted while in the tried table, only possibly    *)
(* evicted back to the new table", and one at a time, for another; and after   *)
(* saving and loading, which number them anew, all are where they were.        *)
TablesAreKept == [][TriedAreKept /\ (Reload => Content' = Content)]_addrmanVars

Index(s, x) == CHOOSE n \in DOMAIN s : s[n] = x

(* SelectTried's comment: "find the least recently tried among them".  It does *)
(* not hold of a bucket that is inspected whole: the position it returns is    *)
(* where the oldest was before it was swapped away.                            *)
EvictsTheOldest ==
    [][\A k \in TriedBucket :
          LET bucket == {mapInfo[id].addr : id \in ToSet(vvTried[k])}
              evicted == {a \in bucket : a \in DOMAIN mapAddr' /\ ~mapInfo'[mapAddr'[a]].fInTried}
          IN Len(vvTried[k]) <= ADDRMAN_TRIED_ENTRIES_INSPECT_ON_EVICT =>
                \A a \in evicted, b \in bucket : Index(success, a) <= Index(success, b)]_addrmanVars
=============================================================================
