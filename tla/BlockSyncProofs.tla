--------------------------- MODULE BlockSyncProofs ---------------------------
(***************************************************************************)
(* What BlockSync promises holds in every behaviour.                       *)
(*                                                                         *)
(* OrphansAreConsistent is inductive with the types of the variables it    *)
(* speaks of.  The heart of the proof is what ProcessBlock's work queue    *)
(* gets to (ProcessedIsLeast): that set is the least that is closed under  *)
(* "depends on an accepted block", so an orphan it leaves out is one whose *)
(* parent it has not accepted.                                             *)
(*                                                                         *)
(* DownloadIsConsistent follows from DownInv, which adds that no request   *)
(* is later than the clock and that no peer has more than the limit.  The  *)
(* proof goes from what erasing and appending do to a list (ListsRemove,   *)
(* OrderAppend, ...) to what each handler does to one peer (NodeDequeues,  *)
(* ...) and, since it touches one peer only, to all of them (QueueChange). *)
(***************************************************************************)
EXTENDS BlockSync, Counting, FunctionTheorems, SequenceTheorems

(* The part of the invariant about the holding area: what it consists of,    *)
(* and OrphansAreConsistent.                                                 *)
OrphanInv ==
    /\ mapBlockIndex \subseteq Block \cup Start
    /\ mapOrphanBlocks \subseteq Block
    /\ aborted \in BOOLEAN
    /\ OrphansAreConsistent

-----------------------------------------------------------------------------
(* What the work queue of ProcessBlock gets to *)

(* It gets to the block it starts with and, with a block that is accepted,   *)
(* to all that depend on it, and to an orphan only over its parent.          *)
LEMMA ProcessedIsLeast ==
    ASSUME OrphanMapsAgree, mapOrphanBlocks \subseteq Block, NEW h \in Block \ mapOrphanBlocks, NEW broken
    PROVE  LET R == Processed(h, broken) IN
           /\ h \in R /\ R \subseteq {h} \cup mapOrphanBlocks
           /\ \A k \in mapOrphanBlocks : k \in R <=> Parent[k] \in R \ (Bad \cup broken)
<1> DEFINE S == {h} \cup mapOrphanBlocks
           R == Processed(h, broken)
           Accepts(k) == k \notin Bad \cup broken
           IsClosed(T) == h \in T /\ \A k \in T : Accepts(k) => Dependents(k) \subseteq T
<1>1. R = {k \in S : \A T \in SUBSET S : IsClosed(T) => k \in T}
  BY Zenon DEF Processed
<1>2. \A k \in Block : Dependents(k) = {j \in mapOrphanBlocks : Parent[j] = k}
  BY DEF Dependents, OrphanMapsAgree
<1>3. h \in R
  BY <1>1
<1>4. R \subseteq S /\ S \subseteq Block
  BY <1>1
<1>5. IsClosed(R)
  <2>1. ASSUME NEW k \in R, Accepts(k), NEW j \in Dependents(k), NEW T \in SUBSET S, IsClosed(T) PROVE j \in T
    BY <1>1, <2>1
  <2>2. ASSUME NEW k \in R, NEW j \in Dependents(k) PROVE j \in S
    BY <1>2, <1>4, <2>2
  <2>3. QED
    BY <1>1, <1>3, <2>1, <2>2
<1>6. ASSUME NEW k \in mapOrphanBlocks, k \in R PROVE Parent[k] \in R \ (Bad \cup broken)
  <2>1. SUFFICES ASSUME Parent[k] \notin R \ (Bad \cup broken) PROVE FALSE
    OBVIOUS
  <2>2. IsClosed(R \ {k})
    <3>1. ASSUME NEW j \in R \ {k}, Accepts(j) PROVE k \notin Dependents(j)
      BY <1>2, <1>4, <2>1, <3>1
    <3>2. QED
      BY <1>5, <3>1
  <2>3. R \ {k} \in SUBSET S
    BY <1>4
  <2>4. QED
    BY <1>1, <1>6, <2>2, <2>3
<1>7. ASSUME NEW k \in mapOrphanBlocks, Parent[k] \in R \ (Bad \cup broken) PROVE k \in R
  <2>1. k \in Dependents(Parent[k])
    BY <1>2, <1>4, <1>7
  <2>2. QED
    BY <1>5, <1>7, <2>1
<1>8. QED
  BY <1>3, <1>4, <1>6, <1>7

-----------------------------------------------------------------------------
(* The holding area *)

USE SyncBlockAssumption, SyncBoundAssumption

(* There are no more orphans than entries in mapOrphanBlocksByPrev. *)
LEMMA OrphansFinite ==
    ASSUME mapOrphanBlocks \subseteq Block, OrphanMapsAgree
    PROVE  /\ IsFiniteSet(mapOrphanBlocks) /\ IsFiniteSet(mapOrphanBlocksByPrev)
           /\ Cardinality(mapOrphanBlocks) \in Nat
           /\ Cardinality(mapOrphanBlocks) <= Cardinality(mapOrphanBlocksByPrev)
<1> DEFINE f == [h \in mapOrphanBlocks |-> <<Parent[h], h>>]
<1>1. IsFiniteSet(mapOrphanBlocks)
  BY FS_Subset
<1>2. f \in Surjection(mapOrphanBlocks, mapOrphanBlocksByPrev)
  BY DEF OrphanMapsAgree, Surjection
<1>3. f \in Injection(mapOrphanBlocks, mapOrphanBlocksByPrev)
  <2>1. f \in [mapOrphanBlocks -> mapOrphanBlocksByPrev]
    BY DEF OrphanMapsAgree
  <2>2. \A a, b \in mapOrphanBlocks : f[a] = f[b] => a = b
    OBVIOUS
  <2>3. QED
    BY <2>1, <2>2 DEF Injection, IsInjective
<1>4. IsFiniteSet(mapOrphanBlocksByPrev)
  BY <1>1, <1>2, FS_Surjection
<1>5. QED
  BY <1>1, <1>3, <1>4, FS_Injection, FS_CardinalityType

(* A block that is held because its parent is not known, with an eviction   *)
(* when the area is full, keeps the invariant;                               *)
LEMMA HoldStep ==
    ASSUME OrphanInv, NEW h \in Block, ~AlreadyHave(h), Parent[h] \notin mapBlockIndex, HoldOrphan(h)
    PROVE  OrphanInv'
<1> USE DEF OrphanInv, OrphansAreConsistent
<1>1. PICK evicted \in Pruned :
          /\ mapOrphanBlocks' = (mapOrphanBlocks \ evicted) \cup {h}
          /\ mapOrphanBlocksByPrev' =
                 (mapOrphanBlocksByPrev \ {<<Parent[k], k>> : k \in evicted}) \cup {<<Parent[h], h>>}
          /\ UNCHANGED <<mapBlockIndex, aborted>>
  BY DEF HoldOrphan
<1>2. \/ evicted = {} /\ Cardinality(mapOrphanBlocksByPrev) <= MaxOrphans
      \/ \E k \in mapOrphanBlocks : evicted = {k}
  BY DEF Pruned
<1>3. OrphanMapsAgree'
  BY <1>1, <1>2 DEF OrphanMapsAgree
<1>4. NoOrphanIsReady'
  BY <1>1, <1>2 DEF NoOrphanIsReady, AlreadyHave
<1>5. OrphansAreBounded'
  <2>1. /\ IsFiniteSet(mapOrphanBlocks) /\ Cardinality(mapOrphanBlocks) \in Nat
        /\ Cardinality(mapOrphanBlocks) <= MaxOrphans + 1
        /\ Cardinality(mapOrphanBlocks) <= Cardinality(mapOrphanBlocksByPrev)
        /\ Cardinality(mapOrphanBlocksByPrev) \in Nat
    BY OrphansFinite, FS_CardinalityType DEF OrphansAreBounded
  <2>2. CASE evicted = {} /\ Cardinality(mapOrphanBlocksByPrev) <= MaxOrphans
    <3>1. mapOrphanBlocks' = mapOrphanBlocks \cup {h}
      BY <1>1, <2>2
    <3>2. Cardinality(mapOrphanBlocks \cup {h}) =
              IF h \in mapOrphanBlocks THEN Cardinality(mapOrphanBlocks) ELSE Cardinality(mapOrphanBlocks) + 1
      BY <2>1, FS_AddElement
    <3>3. QED
      BY <2>1, <2>2, <3>1, <3>2 DEF OrphansAreBounded
  <2>3. ASSUME NEW k \in mapOrphanBlocks, evicted = {k} PROVE OrphansAreBounded'
    <3> DEFINE S == mapOrphanBlocks \ {k}
    <3>1. IsFiniteSet(S) /\ Cardinality(S) = Cardinality(mapOrphanBlocks) - 1
      BY <2>1, FS_RemoveElement
    <3>2. mapOrphanBlocks' = S \cup {h}
      BY <1>1, <2>3
    <3> HIDE DEF S
    <3>3. Cardinality(S) \in Nat
      BY <3>1, FS_CardinalityType
    <3>4. Cardinality(S \cup {h}) = IF h \in S THEN Cardinality(S) ELSE Cardinality(S) + 1
      BY <3>1, FS_AddElement
    <3>5. Cardinality(S \cup {h}) <= MaxOrphans + 1
      BY <2>1, <3>1, <3>3, <3>4
    <3>6. QED
      BY <3>2, <3>5 DEF OrphansAreBounded
  <2>4. QED
    BY <1>2, <2>2, <2>3
<1>6. QED
  BY <1>1, <1>2, <1>3, <1>4, <1>5

(* and so does one that is connected with the orphans that wait for it.      *)
LEMMA ConnectStep ==
    ASSUME OrphanInv, NEW h \in Block, ~AlreadyHave(h), Connect(h)
    PROVE  OrphanInv'
<1>a. /\ mapBlockIndex \subseteq Block \cup Start /\ mapOrphanBlocks \subseteq Block /\ aborted \in BOOLEAN
      /\ OrphanMapsAgree /\ NoOrphanIsReady /\ OrphansAreBounded
  BY DEF OrphanInv, OrphansAreConsistent
<1>1. PICK broken, stored : LET R == Processed(h, broken) IN
          /\ broken \subseteq R \ Bad /\ stored \subseteq broken
          /\ mapBlockIndex' = mapBlockIndex \cup (R \ (Bad \cup broken)) \cup stored
          /\ mapOrphanBlocks' = mapOrphanBlocks \ R
          /\ mapOrphanBlocksByPrev' = {e \in mapOrphanBlocksByPrev : e[1] \notin R \ (Bad \cup broken)}
          /\ aborted' = (aborted \/ broken # {})
  BY Zenon DEF Connect
<1> DEFINE R == Processed(h, broken)
<1>2. /\ R \subseteq {h} \cup mapOrphanBlocks
      /\ \A k \in mapOrphanBlocks : k \in R <=> Parent[k] \in R \ (Bad \cup broken)
  <2>1. h \in Block \ mapOrphanBlocks
    BY DEF AlreadyHave
  <2>2. QED
    BY <1>a, <2>1, ProcessedIsLeast
<1>3. /\ broken \subseteq R \ Bad /\ stored \subseteq broken
      /\ mapBlockIndex' = mapBlockIndex \cup (R \ (Bad \cup broken)) \cup stored
      /\ mapOrphanBlocks' = mapOrphanBlocks \ R
      /\ mapOrphanBlocksByPrev' = {e \in mapOrphanBlocksByPrev : e[1] \notin R \ (Bad \cup broken)}
      /\ aborted' = (aborted \/ broken # {})
  BY <1>1
<1> HIDE DEF R
<1>4. OrphanMapsAgree'
  BY <1>a, <1>2, <1>3 DEF OrphanMapsAgree
<1>5. NoOrphanIsReady'
  BY <1>a, <1>2, <1>3 DEF NoOrphanIsReady
<1>6. OrphansAreBounded'
  <2>1. /\ IsFiniteSet(mapOrphanBlocks) /\ Cardinality(mapOrphanBlocks) \in Nat
        /\ Cardinality(mapOrphanBlocks) <= MaxOrphans + 1
    BY <1>a, OrphansFinite DEF OrphansAreBounded
  <2>2. mapOrphanBlocks' \subseteq mapOrphanBlocks
    BY <1>3
  <2>3. Cardinality(mapOrphanBlocks') <= Cardinality(mapOrphanBlocks) /\ Cardinality(mapOrphanBlocks') \in Nat
    BY <2>1, <2>2, FS_Subset, FS_CardinalityType
  <2>4. QED
    BY <2>1, <2>3 DEF OrphansAreBounded
<1>7. QED
  BY <1>a, <1>2, <1>3, <1>4, <1>5, <1>6 DEF OrphanInv, OrphansAreConsistent

(* The area is empty at the start, *)
LEMMA OrphanInit == Init => OrphanInv
<1> SUFFICES ASSUME Init PROVE OrphanInv
  OBVIOUS
<1>1. mapOrphanBlocks = {} /\ mapOrphanBlocksByPrev = {} /\ mapBlockIndex = Start /\ aborted = FALSE
  BY DEF Init
<1>2. Cardinality(mapOrphanBlocks) = 0
  BY <1>1, FS_EmptySet
<1>3. OrphansAreBounded
  BY <1>2 DEF OrphansAreBounded
<1>4. OrphanMapsAgree /\ NoOrphanIsReady
  BY <1>1 DEF OrphanMapsAgree, NoOrphanIsReady
<1>5. QED
  BY <1>1, <1>3, <1>4 DEF OrphanInv, OrphansAreConsistent

(* and only ProcessBlock changes it. *)
LEMMA OrphanStep == OrphanInv /\ [Next]_vars => OrphanInv'
<1> SUFFICES ASSUME OrphanInv, [Next]_vars PROVE OrphanInv'
  OBVIOUS
<1>1. CASE UNCHANGED chainVars
  BY <1>1 DEF chainVars, OrphanInv, OrphansAreConsistent, OrphanMapsAgree, NoOrphanIsReady, OrphansAreBounded
<1>2. ASSUME NEW h \in Block, NEW b \in BOOLEAN, ProcessBlock(h, b) PROVE OrphanInv'
  BY <1>1, <1>2, HoldStep, ConnectStep DEF ProcessBlock
<1>3. QED
  BY <1>1, <1>2 DEF Next, vars, ConnectPeer, ReceiveOther, ReceiveBytes, SendMessages, LosePeer, FinalizeNode, Announce,
                    ReceiveMalformed, ReceiveBlock, SubmitBlock, Tick

(* Whatever the order in which blocks arrive, are evicted and are refused,   *)
(* the two maps of orphans agree, no block stays in the holding area once    *)
(* its parent is known, and the area is bounded.                             *)
THEOREM OrphansAreConsistentAlways == Spec => []OrphansAreConsistent
<1>1. OrphanInv => OrphansAreConsistent
  BY DEF OrphanInv
<1>2. QED
  BY OrphanInit, OrphanStep, <1>1, PTL DEF Spec

-----------------------------------------------------------------------------
(* The lists of the peers *)

(* What RemoveAt leaves of a sequence. *)
LEMMA RemoveAtIs ==
    ASSUME NEW R, NEW s \in Seq(R), NEW i \in 1 .. Len(s)
    PROVE  /\ RemoveAt(s, i) \in Seq(R) /\ Len(RemoveAt(s, i)) = Len(s) - 1
           /\ \A j \in 1 .. Len(s) - 1 : RemoveAt(s, i)[j] = IF j < i THEN s[j] ELSE s[j + 1]
<1> DEFINE a == SubSeq(s, 1, i - 1)
           b == SubSeq(s, i + 1, Len(s))
           N == Len(s)
<1>1. N \in Nat /\ i \in 1 .. N /\ \A j \in 1 .. N : s[j] \in R
  BY ElementOfSeq
<1> HIDE DEF N
<1>2. a \in Seq(R) /\ Len(a) = i - 1 /\ \A j \in 1 .. i - 1 : a[j] = s[j]
  <2>1. 1 \in Int /\ i - 1 \in Int /\ \A j \in 1 .. i - 1 : s[j] \in R
    BY <1>1
  <2>2. /\ SubSeq(s, 1, i - 1) \in Seq(R) /\ Len(SubSeq(s, 1, i - 1)) = IF 1 <= i - 1 THEN i - 1 - 1 + 1 ELSE 0
        /\ \A j \in 1 .. i - 1 - 1 + 1 : SubSeq(s, 1, i - 1)[j] = s[1 + j - 1]
    BY <2>1, SubSeqProperties
  <2> HIDE DEF a
  <2>3. a \in Seq(R) /\ Len(a) = (IF 1 <= i - 1 THEN i - 1 - 1 + 1 ELSE 0) /\ \A j \in 1 .. i - 1 - 1 + 1 : a[j] = s[1 + j - 1]
    BY <2>2 DEF a
  <2>4. QED
    BY <1>1, <2>3
<1>3. b \in Seq(R) /\ Len(b) = N - i /\ \A j \in 1 .. N - i : b[j] = s[i + j]
  <2>1. i + 1 \in Int /\ N \in Int /\ \A j \in i + 1 .. N : s[j] \in R
    BY <1>1
  <2>2. /\ SubSeq(s, i + 1, N) \in Seq(R) /\ Len(SubSeq(s, i + 1, N)) = IF i + 1 <= N THEN N - (i + 1) + 1 ELSE 0
        /\ \A j \in 1 .. N - (i + 1) + 1 : SubSeq(s, i + 1, N)[j] = s[i + 1 + j - 1]
    BY <2>1, SubSeqProperties
  <2>3. b = SubSeq(s, i + 1, N)
    BY DEF N
  <2> HIDE DEF b
  <2>4. b \in Seq(R) /\ Len(b) = (IF i + 1 <= N THEN N - (i + 1) + 1 ELSE 0) /\ \A j \in 1 .. N - (i + 1) + 1 : b[j] = s[i + 1 + j - 1]
    BY <2>2, <2>3
  <2>5. QED
    BY <1>1, <2>4
<1>4. RemoveAt(s, i) = a \o b
  BY DEF RemoveAt
<1> HIDE DEF a, b
<1>5. /\ a \o b \in Seq(R) /\ Len(a \o b) = Len(a) + Len(b)
      /\ \A j \in 1 .. Len(a) + Len(b) : (a \o b)[j] = IF j <= Len(a) THEN a[j] ELSE b[j - Len(a)]
  <2>1. a \in Seq(R) /\ b \in Seq(R)
    BY <1>2, <1>3
  <2>2. QED
    BY <2>1, ConcatProperties
<1>6. Len(a) + Len(b) = N - 1
  BY <1>1, <1>2, <1>3
<1>7. ASSUME NEW j \in 1 .. N - 1 PROVE RemoveAt(s, i)[j] = IF j < i THEN s[j] ELSE s[j + 1]
  <2>1. RemoveAt(s, i)[j] = IF j <= Len(a) THEN a[j] ELSE b[j - Len(a)]
    BY <1>4, <1>5, <1>6
  <2>2. CASE j < i
    <3>1. j <= Len(a) /\ j \in 1 .. i - 1
      BY <1>1, <1>2, <2>2
    <3>2. QED
      BY <1>2, <2>1, <2>2, <3>1
  <2>3. CASE ~(j < i)
    <3>1. ~(j <= Len(a)) /\ j - Len(a) \in 1 .. N - i /\ i + (j - Len(a)) = j + 1
      BY <1>1, <1>2, <2>3
    <3>2. QED
      BY <1>3, <2>1, <2>3, <3>1
  <2>4. QED
    BY <2>2, <2>3
<1>8. QED
  BY <1>4, <1>5, <1>6, <1>7 DEF N

(* Erasing a block from a list. *)
LEMMA ListsRemove ==
    ASSUME NEW R, NEW s \in Seq(R), NEW S, Lists(s, S), NEW h \in S
    PROVE  /\ Place(s, h) \in 1 .. Len(s)
           /\ Lists(RemoveAt(s, Place(s, h)), S \ {h})
<1> DEFINE i == Place(s, h)
           t == RemoveAt(s, i)
           N == Len(s)
<1>1. N \in Nat /\ DOMAIN s = 1 .. N /\ (\A j, k \in 1 .. N : s[j] = s[k] => j = k) /\ S = {s[j] : j \in 1 .. N}
  BY DEF Lists, IsInjective, Range
<1>2. i \in 1 .. N /\ s[i] = h
  <2>1. \E j \in DOMAIN s : s[j] = h
    BY <1>1
  <2>2. QED
    BY <1>1, <2>1 DEF Place
<1> HIDE DEF i
<1>3. t \in Seq(R) /\ Len(t) = N - 1 /\ \A j \in 1 .. N - 1 : t[j] = IF j < i THEN s[j] ELSE s[j + 1]
  BY <1>2, RemoveAtIs
<1>4. DOMAIN t = 1 .. N - 1
  BY <1>1, <1>3
<1> HIDE DEF t, N
<1>5. \A j \in 1 .. N - 1 : t[j] \in S \ {h}
  BY <1>1, <1>2, <1>3
<1>6. \A j, k \in 1 .. N - 1 : t[j] = t[k] => j = k
  BY <1>1, <1>2, <1>3
<1>7. ASSUME NEW g \in S \ {h} PROVE \E j \in 1 .. N - 1 : t[j] = g
  <2>1. PICK k \in 1 .. N : s[k] = g
    BY <1>1
  <2>2. k # i
    BY <1>2, <2>1, <1>7
  <2>3. CASE k < i
    <3>1. k \in 1 .. N - 1
      BY <1>1, <1>2, <2>3
    <3>2. QED
      BY <1>3, <2>1, <2>3, <3>1
  <2>4. CASE i < k
    <3>1. k - 1 \in 1 .. N - 1 /\ ~(k - 1 < i) /\ k - 1 + 1 = k
      BY <1>1, <1>2, <2>4
    <3>2. QED
      BY <1>3, <2>1, <3>1
  <2>5. QED
    BY <1>1, <1>2, <2>2, <2>3, <2>4
<1>8. Range(t) = S \ {h}
  BY <1>4, <1>5, <1>7 DEF Range
<1>9. IsInjective(t)
  BY <1>4, <1>6 DEF IsInjective
<1>10. QED
  BY <1>2, <1>8, <1>9 DEF Lists, i, t, N

(* Putting one at the end of it. *)
LEMMA ListsAppend ==
    ASSUME NEW R, NEW s \in Seq(R), NEW S, Lists(s, S), NEW h \in R, h \notin S
    PROVE  Lists(Append(s, h), S \cup {h})
<1> DEFINE t == Append(s, h)
           N == Len(s)
<1>1. N \in Nat /\ DOMAIN s = 1 .. N /\ (\A j, k \in 1 .. N : s[j] = s[k] => j = k) /\ S = {s[j] : j \in 1 .. N}
  BY DEF Lists, IsInjective, Range
<1>2. t \in Seq(R) /\ Len(t) = N + 1 /\ (\A j \in 1 .. N : t[j] = s[j]) /\ t[N + 1] = h
  BY AppendProperties
<1>3. DOMAIN t = 1 .. N + 1
  BY <1>1, <1>2
<1> HIDE DEF t, N
<1>4. \A j \in 1 .. N + 1 : j \in 1 .. N \/ j = N + 1
  BY <1>1
<1>5. 1 .. N \subseteq 1 .. N + 1 /\ N + 1 \in 1 .. N + 1
  BY <1>1
<1>6. \A j, k \in 1 .. N + 1 : t[j] = t[k] => j = k
  BY <1>1, <1>2, <1>4
<1>7. Range(t) = S \cup {h}
  BY <1>1, <1>2, <1>3, <1>4, <1>5 DEF Range
<1>8. IsInjective(t)
  BY <1>3, <1>6 DEF IsInjective
<1>9. QED
  BY <1>7, <1>8 DEF Lists, t

InFlight == [hash : Block, nTime : 0 .. MaxTime]

(* The hashes of a list of requests. *)
LEMMA HashesAre ==
    ASSUME NEW f \in Seq(InFlight)
    PROVE  /\ Len(f) \in Nat /\ DOMAIN f = 1 .. Len(f)
           /\ Hashes(f) \in Seq(Block) /\ Len(Hashes(f)) = Len(f)
           /\ \A i \in 1 .. Len(f) : f[i] \in InFlight /\ Hashes(f)[i] = f[i].hash
<1> DEFINE k == Hashes(f)
           N == Len(f)
<1>1. N \in Nat /\ DOMAIN f = 1 .. N /\ \A i \in 1 .. N : f[i] \in InFlight
  BY ElementOfSeq
<1> HIDE DEF N
<1>2. k = [i \in 1 .. N |-> f[i].hash]
  BY <1>1 DEF Hashes
<1>3. \A i \in 1 .. N : f[i].hash \in Block
  BY <1>1 DEF InFlight
<1> HIDE DEF k
<1>4. k \in [1 .. N -> Block]
  BY <1>2, <1>3
<1>5. k \in Seq(Block) /\ Len(k) = N
  BY <1>1, <1>4
<1>6. \A i \in 1 .. N : k[i] = f[i].hash
  BY <1>2
<1>7. QED
  BY <1>1, <1>5, <1>6 DEF k, N

(* Those of a list that one is erased from, *)
LEMMA HashesRemove ==
    ASSUME NEW f \in Seq(InFlight), NEW i \in 1 .. Len(f)
    PROVE  Hashes(RemoveAt(f, i)) = RemoveAt(Hashes(f), i)
<1> DEFINE g == RemoveAt(f, i)
           k == Hashes(f)
           m == Hashes(g)
           n == RemoveAt(k, i)
           N == Len(f)
<1>1. N \in Nat /\ k \in Seq(Block) /\ Len(k) = N /\ \A j \in 1 .. N : k[j] = f[j].hash
  BY HashesAre
<1>2. g \in Seq(InFlight) /\ Len(g) = N - 1 /\ \A j \in 1 .. N - 1 : g[j] = IF j < i THEN f[j] ELSE f[j + 1]
  BY RemoveAtIs
<1> HIDE DEF g
<1>3. m \in Seq(Block) /\ Len(m) = N - 1 /\ \A j \in 1 .. N - 1 : m[j] = g[j].hash
  BY <1>2, HashesAre
<1> HIDE DEF k, m
<1>4. n \in Seq(Block) /\ Len(n) = N - 1 /\ \A j \in 1 .. N - 1 : n[j] = IF j < i THEN k[j] ELSE k[j + 1]
  BY <1>1, RemoveAtIs
<1> HIDE DEF n, N
<1>5. ASSUME NEW j \in 1 .. N - 1 PROVE m[j] = n[j]
  <2>1. j \in 1 .. N /\ j + 1 \in 1 .. N
    BY <1>1
  <2>2. QED
    BY <1>1, <1>2, <1>3, <1>4, <2>1
<1>6. m = n
  BY <1>3, <1>4, <1>5, SeqEqual
<1>7. QED
  BY <1>6 DEF m, n, g, k

(* and of one that a request is added to. *)
LEMMA HashesAppend ==
    ASSUME NEW f \in Seq(InFlight), NEW e \in InFlight
    PROVE  Hashes(Append(f, e)) = Append(Hashes(f), e.hash)
<1> DEFINE g == Append(f, e)
           k == Hashes(f)
           m == Hashes(g)
           h == e.hash
           n == Append(k, h)
           N == Len(f)
<1>1. N \in Nat /\ k \in Seq(Block) /\ Len(k) = N /\ \A j \in 1 .. N : k[j] = f[j].hash
  BY HashesAre
<1>2. g \in Seq(InFlight) /\ Len(g) = N + 1 /\ (\A j \in 1 .. N : g[j] = f[j]) /\ g[N + 1] = e
  BY AppendProperties
<1> HIDE DEF g
<1>3. m \in Seq(Block) /\ Len(m) = N + 1 /\ \A j \in 1 .. N + 1 : m[j] = g[j].hash
  BY <1>2, HashesAre
<1>a. h \in Block
  BY DEF InFlight
<1> HIDE DEF k, m, h
<1>4. n \in Seq(Block) /\ Len(n) = N + 1 /\ (\A j \in 1 .. N : n[j] = k[j]) /\ n[N + 1] = h
  BY <1>1, <1>a, AppendProperties
<1> HIDE DEF n, N
<1>5. ASSUME NEW j \in 1 .. N + 1 PROVE m[j] = n[j]
  <2>1. j \in 1 .. N \/ j = N + 1
    BY <1>1
  <2>2. QED
    BY <1>1, <1>2, <1>3, <1>4, <2>1 DEF h
<1>6. m = n
  BY <1>3, <1>4, <1>5, SeqEqual
<1>7. QED
  BY <1>6 DEF m, n, g, k, h

(* The requests of a list are in the order of their times, none later than t. *)
InOrder(f, t) ==
    /\ \A i, j \in DOMAIN f : i < j => f[i].nTime <= f[j].nTime
    /\ \A i \in DOMAIN f : f[i].nTime <= t

(* They stay in it when one is erased, *)
LEMMA OrderRemove ==
    ASSUME NEW f \in Seq(InFlight), NEW t, InOrder(f, t), NEW i \in 1 .. Len(f)
    PROVE  InOrder(RemoveAt(f, i), t)
<1> DEFINE g == RemoveAt(f, i)
           N == Len(f)
           Skip(j) == IF j < i THEN j ELSE j + 1
<1>1. N \in Nat /\ DOMAIN f = 1 .. N
  BY HashesAre
<1>2. g \in Seq(InFlight) /\ Len(g) = N - 1 /\ \A j \in 1 .. N - 1 : g[j] = IF j < i THEN f[j] ELSE f[j + 1]
  BY RemoveAtIs
<1> HIDE DEF g
<1>3. DOMAIN g = 1 .. N - 1
  BY <1>2, HashesAre
<1>4. i \in 1 .. N
  OBVIOUS
<1> HIDE DEF N
<1>5. \A j \in 1 .. N - 1 : Skip(j) \in 1 .. N /\ g[j] = f[Skip(j)]
  BY <1>1, <1>2
<1>6. \A j, k \in 1 .. N - 1 : j < k => Skip(j) < Skip(k)
  BY <1>1, <1>4
<1> HIDE DEF Skip
<1>7. \A j, k \in 1 .. N : j < k => f[j].nTime <= f[k].nTime
  BY <1>1 DEF InOrder
<1>8. \A j \in 1 .. N : f[j].nTime <= t
  BY <1>1 DEF InOrder
<1>9. \A j, k \in 1 .. N - 1 : j < k => g[j].nTime <= g[k].nTime
  BY <1>5, <1>6, <1>7
<1>10. \A j \in 1 .. N - 1 : g[j].nTime <= t
  BY <1>5, <1>8
<1>11. InOrder(g, t)
  BY <1>3, <1>9, <1>10 DEF InOrder
<1>12. QED
  BY <1>11 DEF g

(* and when one is added now. *)
LEMMA OrderAppend ==
    ASSUME NEW f \in Seq(InFlight), NEW t \in 0 .. MaxTime, InOrder(f, t), NEW h \in Block
    PROVE  InOrder(Append(f, [hash |-> h, nTime |-> t]), t)
<1> DEFINE e == [hash |-> h, nTime |-> t]
           g == Append(f, e)
           N == Len(f)
<1>1. e \in InFlight /\ e.nTime = t
  BY DEF InFlight
<1>2. N \in Nat /\ DOMAIN f = 1 .. N
  BY HashesAre
<1> HIDE DEF e
<1>3. g \in Seq(InFlight) /\ Len(g) = N + 1 /\ (\A j \in 1 .. N : g[j] = f[j]) /\ g[N + 1] = e
  BY <1>1, AppendProperties
<1> HIDE DEF g
<1>4. DOMAIN g = 1 .. N + 1
  BY <1>3
<1> HIDE DEF N
<1>5. \A j \in 1 .. N + 1 : (j \in 1 .. N /\ g[j] = f[j]) \/ (j = N + 1 /\ g[j] = e)
  BY <1>2, <1>3
<1>6. \A j, k \in 1 .. N + 1 : j < k => j \in 1 .. N
  BY <1>2
<1>7. t <= t
  OBVIOUS
<1>8. InOrder(g, t)
  BY <1>1, <1>2, <1>4, <1>5, <1>6, <1>7 DEF InOrder
<1>9. QED
  BY <1>8 DEF g, e

-----------------------------------------------------------------------------
(* The state of a peer *)

(* T are the blocks to ask the peer for, F those it was asked for. *)
NodeInv(s, T, F) ==
    /\ s \in NodeState
    /\ s.nBlocksToDownload = Len(s.vBlocksToDownload) /\ s.nBlocksInFlight = Len(s.vBlocksInFlight)
    /\ ~s.connected => s.nBlocksToDownload = 0 /\ s.nBlocksInFlight = 0
    /\ Lists(s.vBlocksToDownload, T) /\ Lists(Hashes(s.vBlocksInFlight), F)
    /\ s.nBlocksInFlight <= MaxInTransit
    /\ InOrder(s.vBlocksInFlight, clock)

(* The types of its fields. *)
LEMMA NodeFields ==
    ASSUME NEW s \in NodeState
    PROVE  /\ s.connected \in BOOLEAN /\ s.fDisconnect \in BOOLEAN
           /\ s.vBlocksToDownload \in Seq(Block) /\ s.nBlocksToDownload \in Nat
           /\ s.vBlocksInFlight \in Seq(InFlight) /\ s.nBlocksInFlight \in Nat
           /\ s.nLastBlockReceive \in 0 .. MaxTime /\ s.nLastBlockProcess \in 0 .. MaxTime
BY DEF NodeState, InFlight

(* A block leaves the list of those to ask for, *)
LEMMA NodeDequeues ==
    ASSUME NEW s, NEW T, NEW F, NodeInv(s, T, F), NEW h \in T, NEW s2, s2 = EraseToDownload(s, h)
    PROVE  /\ NodeInv(s2, T \ {h}, F)
           /\ s2.nBlocksToDownload = s.nBlocksToDownload - 1 /\ s2.nBlocksInFlight = s.nBlocksInFlight
           /\ s2.connected = s.connected
<1> DEFINE v == s.vBlocksToDownload
           w == RemoveAt(v, Place(v, h))
           n == s.nBlocksToDownload
<1>1. s \in NodeState /\ v \in Seq(Block) /\ n = Len(v) /\ Lists(v, T) /\ n \in Nat
  BY NodeFields DEF NodeInv
<1>2. Place(v, h) \in 1 .. Len(v) /\ Lists(w, T \ {h})
  <2> HIDE DEF v
  <2>1. QED
    BY <1>1, ListsRemove
<1>3. w \in Seq(Block) /\ Len(w) = n - 1
  <2> HIDE DEF v
  <2>1. QED
    BY <1>1, <1>2, RemoveAtIs
<1>4. n - 1 \in Nat
  <2> HIDE DEF v, w, n
  <2>1. QED
    BY <1>1, <1>2
<1>5. s2 = [s EXCEPT !.vBlocksToDownload = w, !.nBlocksToDownload = n - 1]
  BY DEF EraseToDownload
<1> HIDE DEF w
<1>6. /\ s2 \in NodeState /\ s2.vBlocksToDownload = w /\ s2.nBlocksToDownload = n - 1
      /\ s2.connected = s.connected /\ s2.vBlocksInFlight = s.vBlocksInFlight
      /\ s2.nBlocksInFlight = s.nBlocksInFlight
  BY <1>1, <1>3, <1>4, <1>5 DEF NodeState
<1>7. ~s2.connected => s2.nBlocksToDownload = 0 /\ s2.nBlocksInFlight = 0
  <2>1. ~s.connected => n = 0
    BY DEF NodeInv
  <2>2. s.connected
    BY <1>1, <1>4, <2>1
  <2>3. QED
    BY <1>6, <2>2
<1>8. QED
  BY <1>2, <1>3, <1>6, <1>7 DEF NodeInv

(* or that of those it was asked for. *)
LEMMA NodeLands ==
    ASSUME NEW s, NEW T, NEW F, NodeInv(s, T, F), clock \in 0 .. MaxTime, NEW h \in F, NEW b \in BOOLEAN, NEW s2,
           s2 = EraseInFlight(s, h, b)
    PROVE  NodeInv(s2, T, F \ {h})
<1> DEFINE v == s.vBlocksInFlight
           i == Place(Hashes(v), h)
           w == RemoveAt(v, i)
           n == s.nBlocksInFlight
<1>1. s \in NodeState /\ v \in Seq(InFlight) /\ n = Len(v) /\ Lists(Hashes(v), F) /\ n \in Nat /\ InOrder(v, clock)
  BY NodeFields DEF NodeInv
<1>2. i \in 1 .. Len(v) /\ Lists(RemoveAt(Hashes(v), i), F \ {h})
  <2> HIDE DEF v
  <2>1. Hashes(v) \in Seq(Block) /\ Len(Hashes(v)) = Len(v)
    BY <1>1, HashesAre
  <2>2. QED
    BY <1>1, <2>1, ListsRemove
<1>3. w \in Seq(InFlight) /\ Len(w) = n - 1 /\ InOrder(w, clock) /\ Lists(Hashes(w), F \ {h})
  <2> HIDE DEF v, i
  <2>1. Hashes(w) = RemoveAt(Hashes(v), i)
    BY <1>1, <1>2, HashesRemove
  <2>2. w \in Seq(InFlight) /\ Len(w) = n - 1
    BY <1>1, <1>2, RemoveAtIs
  <2>3. InOrder(w, clock)
    BY <1>1, <1>2, OrderRemove
  <2>4. QED
    BY <1>2, <2>1, <2>2, <2>3
<1>4. n - 1 \in Nat
  <2> HIDE DEF v, w, n, i
  <2>1. QED
    BY <1>1, <1>2
<1> DEFINE t == IF b THEN clock ELSE s.nLastBlockReceive
<1>5. s2 = [s EXCEPT !.vBlocksInFlight = w, !.nBlocksInFlight = n - 1, !.nLastBlockReceive = t]
  BY DEF EraseInFlight
<1>a. t \in 0 .. MaxTime
  BY <1>1, NodeFields
<1> HIDE DEF w, t
<1>6. /\ s2 \in NodeState /\ s2.vBlocksInFlight = w /\ s2.nBlocksInFlight = n - 1
      /\ s2.connected = s.connected /\ s2.vBlocksToDownload = s.vBlocksToDownload
      /\ s2.nBlocksToDownload = s.nBlocksToDownload
  BY <1>1, <1>3, <1>4, <1>5, <1>a DEF NodeState, InFlight
<1>7. ~s2.connected => s2.nBlocksToDownload = 0 /\ s2.nBlocksInFlight = 0
  <2>1. ~s.connected => n = 0
    BY DEF NodeInv
  <2>2. s.connected
    BY <1>1, <1>4, <2>1
  <2>3. QED
    BY <1>6, <2>2
<1>8. n <= MaxInTransit
  BY DEF NodeInv
<1>9. n - 1 <= MaxInTransit
  <2> HIDE DEF n
  <2>1. QED
    BY <1>1, <1>8
<1>10. QED
  BY <1>3, <1>6, <1>7, <1>9 DEF NodeInv

(* A block comes to the one, *)
LEMMA NodeQueues ==
    ASSUME NEW s, NEW T, NEW F, NodeInv(s, T, F), s.connected, NEW h \in Block \ T, NEW s2,
           s2 = InsertToDownload(s, h)
    PROVE  NodeInv(s2, T \cup {h}, F)
<1> DEFINE v == s.vBlocksToDownload
           w == Append(v, h)
           n == s.nBlocksToDownload
<1>1. s \in NodeState /\ v \in Seq(Block) /\ n = Len(v) /\ Lists(v, T) /\ n \in Nat
  BY NodeFields DEF NodeInv
<1>2. Lists(w, T \cup {h})
  <2> HIDE DEF v
  <2>1. QED
    BY <1>1, ListsAppend
<1>3. w \in Seq(Block) /\ Len(w) = n + 1
  <2> HIDE DEF v
  <2>1. QED
    BY <1>1, AppendProperties
<1>4. n + 1 \in Nat
  <2> HIDE DEF v, w, n
  <2>1. QED
    BY <1>1
<1>5. s2 = [s EXCEPT !.vBlocksToDownload = w, !.nBlocksToDownload = n + 1]
  BY DEF InsertToDownload
<1> HIDE DEF w
<1>6. /\ s2 \in NodeState /\ s2.vBlocksToDownload = w /\ s2.nBlocksToDownload = n + 1
      /\ s2.connected = s.connected /\ s2.vBlocksInFlight = s.vBlocksInFlight
      /\ s2.nBlocksInFlight = s.nBlocksInFlight
  BY <1>1, <1>3, <1>4, <1>5 DEF NodeState
<1>7. QED
  BY <1>2, <1>3, <1>6 DEF NodeInv

(* There is room for a request. *)
HasRoom(s) == s.connected /\ s.nBlocksInFlight < MaxInTransit

(* and to the other while there is room. *)
LEMMA NodeRequests ==
    ASSUME NEW s, NEW T, NEW F, NodeInv(s, T, F), HasRoom(s),
           clock \in 0 .. MaxTime, NEW h \in Block \ F, NEW s2, s2 = InsertInFlight(s, h)
    PROVE  /\ NodeInv(s2, T, F \cup {h})
           /\ s2.nBlocksToDownload = s.nBlocksToDownload /\ s2.nBlocksInFlight = s.nBlocksInFlight + 1
           /\ s2.connected
<1> DEFINE v == s.vBlocksInFlight
           e == [hash |-> h, nTime |-> clock]
           w == Append(v, e)
           n == s.nBlocksInFlight
<1>1. s \in NodeState /\ v \in Seq(InFlight) /\ n = Len(v) /\ Lists(Hashes(v), F) /\ n \in Nat /\ InOrder(v, clock)
  BY NodeFields DEF NodeInv
<1>2. e \in InFlight /\ e.hash = h
  BY DEF InFlight
<1>3. InOrder(w, clock)
  <2> HIDE DEF v
  <2>1. QED
    BY <1>1, OrderAppend
<1> HIDE DEF e
<1>4. w \in Seq(InFlight) /\ Len(w) = n + 1 /\ Lists(Hashes(w), F \cup {h})
  <2> HIDE DEF v
  <2>1. Hashes(v) \in Seq(Block)
    BY <1>1, HashesAre
  <2>2. Hashes(w) = Append(Hashes(v), h)
    BY <1>1, <1>2, HashesAppend
  <2>3. Lists(Append(Hashes(v), h), F \cup {h})
    BY <1>1, <2>1, ListsAppend
  <2>4. w \in Seq(InFlight) /\ Len(w) = n + 1
    BY <1>1, <1>2, AppendProperties
  <2>5. QED
    BY <2>2, <2>3, <2>4
<1> DEFINE t == IF n = 0 THEN clock ELSE s.nLastBlockReceive
<1>5. s2 = [s EXCEPT !.nLastBlockReceive = t, !.vBlocksInFlight = w, !.nBlocksInFlight = n + 1]
  BY DEF e, InsertInFlight
<1>a. t \in 0 .. MaxTime
  BY <1>1, NodeFields
<1> HIDE DEF w, t
<1>6. n + 1 \in Nat /\ n + 1 <= MaxInTransit
  <2>1. n < MaxInTransit
    BY DEF HasRoom
  <2> HIDE DEF n
  <2>2. QED
    BY <1>1, <2>1
<1>7. /\ s2 \in NodeState /\ s2.vBlocksInFlight = w /\ s2.nBlocksInFlight = n + 1
      /\ s2.connected = s.connected /\ s2.vBlocksToDownload = s.vBlocksToDownload
      /\ s2.nBlocksToDownload = s.nBlocksToDownload
  BY <1>1, <1>4, <1>5, <1>6, <1>a DEF NodeState, InFlight
<1>8. QED
  BY <1>3, <1>4, <1>6, <1>7 DEF NodeInv, HasRoom

-----------------------------------------------------------------------------
(* The maps and the lists *)

(* A map of blocks to peers. *)
Assigned(f) == DOMAIN f \subseteq Block /\ f \in [DOMAIN f -> Peer]

IsQueues(q) == q = [todo |-> q.todo, flight |-> q.flight, node |-> q.node]

(* No block is in both maps. *)
MapsApart(q) == IsQueues(q) /\ Assigned(q.todo) /\ Assigned(q.flight) /\ DOMAIN q.todo \cap DOMAIN q.flight = {}

PeerInv(q, s, p) == NodeInv(s, AskedOf(q.todo, p), AskedOf(q.flight, p))

(* The maps and the lists say the same. *)
QueueInv(q) ==
    /\ MapsApart(q)
    /\ q.node \in [Peer -> NodeState]
    /\ \A p \in Peer : PeerInv(q, q.node[p], p)

(* Nothing changes for the other peers. *)
ChangesOnly(q, r, p, s) ==
    /\ r.node = [q.node EXCEPT ![p] = s]
    /\ \A k \in Peer \ {p} : AskedOf(r.todo, k) = AskedOf(q.todo, k) /\ AskedOf(r.flight, k) = AskedOf(q.flight, k)

(* What is left of a map without some blocks, *)
LEMMA WithoutIs ==
    ASSUME NEW f, Assigned(f), NEW S
    PROVE  /\ Assigned(Without(f, S)) /\ DOMAIN Without(f, S) = DOMAIN f \ S
           /\ \A p : AskedOf(Without(f, S), p) = AskedOf(f, p) \ S
BY DEF Assigned, Without, AskedOf

(* and what it is with one more. *)
LEMMA WithIs ==
    ASSUME NEW f, Assigned(f), NEW h \in Block, h \notin DOMAIN f, NEW p \in Peer
    PROVE  /\ Assigned(With(f, h, p)) /\ DOMAIN With(f, h, p) = DOMAIN f \cup {h}
           /\ AskedOf(With(f, h, p), p) = AskedOf(f, p) \cup {h}
           /\ \A r \in Peer \ {p} : AskedOf(With(f, h, p), r) = AskedOf(f, r)
<1> DEFINE g == With(f, h, p)
<1>1. g = [k \in DOMAIN f \cup {h} |-> IF k = h THEN p ELSE f[k]]
  BY DEF With
<1> HIDE DEF g
<1>2. DOMAIN g = DOMAIN f \cup {h} /\ g[h] = p /\ \A k \in DOMAIN f : g[k] = f[k]
  BY <1>1
<1>3. Assigned(g)
  BY <1>1 DEF Assigned
<1>4. AskedOf(g, p) = AskedOf(f, p) \cup {h}
  BY <1>2 DEF AskedOf
<1>5. ASSUME NEW r \in Peer \ {p} PROVE AskedOf(g, r) = AskedOf(f, r)
  BY <1>2 DEF AskedOf
<1>6. QED
  BY <1>2, <1>3, <1>4, <1>5 DEF g

(* It is enough to look at the peer whose lists change. *)
LEMMA QueueChange ==
    ASSUME NEW q, QueueInv(q), NEW r, MapsApart(r), NEW p \in Peer, NEW s, PeerInv(r, s, p), ChangesOnly(q, r, p, s)
    PROVE  QueueInv(r) /\ r.node[p] = s
<1> DEFINE m == r.node
<1>1. q.node \in [Peer -> NodeState] /\ \A k \in Peer : PeerInv(q, q.node[k], k)
  BY DEF QueueInv
<1>2. s \in NodeState
  BY DEF PeerInv, NodeInv
<1>3. m \in [Peer -> NodeState] /\ m[p] = s /\ \A k \in Peer \ {p} : m[k] = q.node[k]
  BY <1>1, <1>2 DEF ChangesOnly
<1>4. ASSUME NEW k \in Peer PROVE PeerInv(r, m[k], k)
  <2>1. CASE k = p
    BY <1>3, <2>1
  <2>2. CASE k # p
    <3>1. AskedOf(r.todo, k) = AskedOf(q.todo, k) /\ AskedOf(r.flight, k) = AskedOf(q.flight, k) /\ m[k] = q.node[k]
      BY <1>3, <2>2 DEF ChangesOnly
    <3>2. NodeInv(q.node[k], AskedOf(q.todo, k), AskedOf(q.flight, k))
      BY <1>1 DEF PeerInv
    <3>3. QED
      BY <3>1, <3>2 DEF PeerInv
  <2>3. QED
    BY <2>1, <2>2
<1>5. QueueInv(r)
  BY <1>3, <1>4 DEF QueueInv
<1>6. QED
  BY <1>3, <1>5

(* A block that nobody need be asked for any more, *)
LEMMA NotToDownloadKeeps ==
    ASSUME NEW q, QueueInv(q), NEW h
    PROVE  LET r == NotToDownload(q, h) IN
           /\ QueueInv(r) /\ r.flight = q.flight /\ DOMAIN r.todo = DOMAIN q.todo \ {h}
           /\ h \in DOMAIN q.todo =>
                 LET p == q.todo[h] IN
                 /\ r.node[p].nBlocksToDownload = q.node[p].nBlocksToDownload - 1
                 /\ r.node[p].nBlocksInFlight = q.node[p].nBlocksInFlight
                 /\ r.node[p].connected = q.node[p].connected
<1> DEFINE r == NotToDownload(q, h)
<1>1. CASE h \notin DOMAIN q.todo
  BY <1>1 DEF NotToDownload
<1>2. CASE h \in DOMAIN q.todo
  <2> DEFINE p == q.todo[h]
             s == q.node[p]
             T == Without(q.todo, {h})
             s2 == EraseToDownload(s, h)
  <2>1. /\ q = [todo |-> q.todo, flight |-> q.flight, node |-> q.node] /\ Assigned(q.todo) /\ Assigned(q.flight)
        /\ DOMAIN q.todo \cap DOMAIN q.flight = {} /\ \A k \in Peer : PeerInv(q, q.node[k], k)
    BY DEF QueueInv, MapsApart, IsQueues
  <2>2. p \in Peer /\ h \in AskedOf(q.todo, p) /\ \A k \in Peer \ {p} : h \notin AskedOf(q.todo, k)
    BY <1>2, <2>1 DEF Assigned, AskedOf
  <2>3. Assigned(T) /\ DOMAIN T = DOMAIN q.todo \ {h} /\ \A k : AskedOf(T, k) = AskedOf(q.todo, k) \ {h}
    BY <2>1, WithoutIs
  <2>4. r = [q EXCEPT !.todo = T, !.node[p] = s2]
    BY <1>2, Zenon DEF NotToDownload
  <2> HIDE DEF T, p, s2, r
  <2>5. IsQueues(r) /\ r.todo = T /\ r.flight = q.flight /\ r.node = [q.node EXCEPT ![p] = s2]
    BY <2>1, <2>4 DEF IsQueues
  <2>6. /\ NodeInv(s2, AskedOf(q.todo, p) \ {h}, AskedOf(q.flight, p))
        /\ s2.nBlocksToDownload = s.nBlocksToDownload - 1 /\ s2.nBlocksInFlight = s.nBlocksInFlight
        /\ s2.connected = s.connected
    <3>1. NodeInv(s, AskedOf(q.todo, p), AskedOf(q.flight, p))
      BY <2>1, <2>2 DEF PeerInv
    <3>2. s2 = EraseToDownload(s, h)
      BY DEF s2
    <3> DEFINE F == AskedOf(q.flight, p)
    <3> HIDE DEF s, F
    <3>3. QED
      BY <2>2, <3>1, <3>2, NodeDequeues DEF F
  <2> HIDE DEF s
  <2>7. MapsApart(r)
    BY <2>1, <2>3, <2>5 DEF MapsApart
  <2>8. ChangesOnly(q, r, p, s2)
    BY <2>2, <2>3, <2>5 DEF ChangesOnly
  <2>9. PeerInv(r, s2, p)
    BY <2>2, <2>3, <2>5, <2>6 DEF PeerInv
  <2>10. QueueInv(r) /\ r.node[p] = s2
    BY <2>2, <2>7, <2>8, <2>9, QueueChange
  <2>11. QED
    BY <2>3, <2>5, <2>6, <2>10 DEF p, r, s
<1>3. QED
  BY <1>1, <1>2

(* and one that is on its way from nobody any more, leave the queues so. *)
LEMMA NotInFlightKeeps ==
    ASSUME NEW q, QueueInv(q), clock \in 0 .. MaxTime, NEW h, NEW from
    PROVE  QueueInv(NotInFlight(q, h, from)) /\ NotInFlight(q, h, from).todo = q.todo
<1> DEFINE r == NotInFlight(q, h, from)
<1>1. CASE h \notin DOMAIN q.flight
  BY <1>1 DEF NotInFlight
<1>2. CASE h \in DOMAIN q.flight
  <2> DEFINE p == q.flight[h]
             s == q.node[p]
             F == Without(q.flight, {h})
             b == {q.flight[h]} = from
             s2 == EraseInFlight(s, h, b)
  <2>1. /\ q = [todo |-> q.todo, flight |-> q.flight, node |-> q.node] /\ Assigned(q.todo) /\ Assigned(q.flight)
        /\ DOMAIN q.todo \cap DOMAIN q.flight = {} /\ \A k \in Peer : PeerInv(q, q.node[k], k)
    BY DEF QueueInv, MapsApart, IsQueues
  <2>2. p \in Peer /\ h \in AskedOf(q.flight, p) /\ \A k \in Peer \ {p} : h \notin AskedOf(q.flight, k)
    BY <1>2, <2>1 DEF Assigned, AskedOf
  <2>3. Assigned(F) /\ DOMAIN F = DOMAIN q.flight \ {h} /\ \A k : AskedOf(F, k) = AskedOf(q.flight, k) \ {h}
    BY <2>1, WithoutIs
  <2>4. r = [q EXCEPT !.flight = F, !.node[p] = s2]
    BY <1>2, Zenon DEF NotInFlight
  <2>b. b \in BOOLEAN
    OBVIOUS
  <2> HIDE DEF F, p, s2, r, b
  <2>5. IsQueues(r) /\ r.flight = F /\ r.todo = q.todo /\ r.node = [q.node EXCEPT ![p] = s2]
    BY <2>1, <2>4 DEF IsQueues
  <2>6. NodeInv(s2, AskedOf(q.todo, p), AskedOf(q.flight, p) \ {h})
    <3>1. NodeInv(s, AskedOf(q.todo, p), AskedOf(q.flight, p))
      BY <2>1, <2>2 DEF PeerInv
    <3>2. s2 = EraseInFlight(s, h, b)
      BY DEF s2
    <3> DEFINE T == AskedOf(q.todo, p)
    <3> HIDE DEF s, T
    <3>3. QED
      BY <2>b, <2>2, <3>1, <3>2, NodeLands DEF T
  <2> HIDE DEF s
  <2>7. MapsApart(r)
    BY <2>1, <2>3, <2>5 DEF MapsApart
  <2>8. ChangesOnly(q, r, p, s2)
    BY <2>2, <2>3, <2>5 DEF ChangesOnly
  <2>9. PeerInv(r, s2, p)
    BY <2>2, <2>3, <2>5, <2>6 DEF PeerInv
  <2>10. QueueInv(r)
    BY <2>2, <2>7, <2>8, <2>9, QueueChange
  <2>11. QED
    BY <2>5, <2>10 DEF r
<1>3. QED
  BY <1>1, <1>2

(* Neither does MarkBlockAsReceived, which does both, harm them.              *)
LEMMA ReceivedKeeps ==
    ASSUME NEW q, QueueInv(q), clock \in 0 .. MaxTime, NEW h, NEW from
    PROVE  QueueInv(MarkBlockAsReceived(q, h, from))
<1> DEFINE r == NotToDownload(q, h)
<1>1. QueueInv(r)
  BY NotToDownloadKeeps
<1> HIDE DEF r
<1>2. QueueInv(NotInFlight(r, h, from))
  BY <1>1, NotInFlightKeeps
<1>3. QED
  BY <1>2 DEF MarkBlockAsReceived, r

(* A connected peer can be asked for a block that nobody is asked for, *)
LEMMA AddKeeps ==
    ASSUME NEW q, QueueInv(q), NEW p \in Peer, q.node[p].connected, NEW h \in Block
    PROVE  QueueInv(AddBlockToQueue(q, p, h))
<1> DEFINE r == AddBlockToQueue(q, p, h)
<1>1. CASE h \in DOMAIN q.todo \cup DOMAIN q.flight
  BY <1>1 DEF AddBlockToQueue
<1>2. CASE h \notin DOMAIN q.todo \cup DOMAIN q.flight
  <2> DEFINE s == q.node[p]
             T == With(q.todo, h, p)
             s2 == InsertToDownload(s, h)
  <2>1. /\ q = [todo |-> q.todo, flight |-> q.flight, node |-> q.node] /\ Assigned(q.todo) /\ Assigned(q.flight)
        /\ DOMAIN q.todo \cap DOMAIN q.flight = {} /\ \A k \in Peer : PeerInv(q, q.node[k], k)
    BY DEF QueueInv, MapsApart, IsQueues
  <2>2. h \in Block \ AskedOf(q.todo, p)
    BY <1>2 DEF AskedOf
  <2>3. /\ Assigned(T) /\ DOMAIN T = DOMAIN q.todo \cup {h} /\ AskedOf(T, p) = AskedOf(q.todo, p) \cup {h}
        /\ \A k \in Peer \ {p} : AskedOf(T, k) = AskedOf(q.todo, k)
    <3> DEFINE f == q.todo
    <3>1. h \notin DOMAIN f /\ Assigned(f)
      BY <1>2, <2>1
    <3> HIDE DEF f
    <3>2. QED
      BY <3>1, WithIs DEF f
  <2>4. r = [q EXCEPT !.todo = T, !.node[p] = s2]
    BY <1>2, Zenon DEF AddBlockToQueue
  <2> HIDE DEF T, s2, r
  <2>5. IsQueues(r) /\ r.todo = T /\ r.flight = q.flight /\ r.node = [q.node EXCEPT ![p] = s2]
    BY <2>1, <2>4 DEF IsQueues
  <2>6. NodeInv(s2, AskedOf(q.todo, p) \cup {h}, AskedOf(q.flight, p))
    <3>1. NodeInv(s, AskedOf(q.todo, p), AskedOf(q.flight, p))
      BY <2>1 DEF PeerInv
    <3>2. s2 = InsertToDownload(s, h) /\ s.connected
      BY DEF s2
    <3> DEFINE F == AskedOf(q.flight, p)
    <3> HIDE DEF s, F
    <3>3. QED
      BY <2>2, <3>1, <3>2, NodeQueues DEF F
  <2> HIDE DEF s
  <2>7. MapsApart(r)
    BY <1>2, <2>1, <2>3, <2>5 DEF MapsApart
  <2>8. ChangesOnly(q, r, p, s2)
    BY <2>3, <2>5 DEF ChangesOnly
  <2>9. PeerInv(r, s2, p)
    BY <2>3, <2>5, <2>6 DEF PeerInv
  <2>10. QueueInv(r)
    BY <2>7, <2>8, <2>9, QueueChange
  <2>11. QED
    BY <2>10 DEF r
<1>3. QED
  BY <1>1, <1>2

(* and then the first in its list can move to those in flight.               *)
CanRequest(q, p, k, l) ==
    /\ QueueInv(q) /\ q.node[p].connected
    /\ q.node[p].nBlocksToDownload = k /\ q.node[p].nBlocksInFlight = l

RequestOne(q, p) == MarkBlockAsInFlight(q, p, Head(q.node[p].vBlocksToDownload))

(* MarkBlockAsInFlight takes the block from the one list to the other: there  *)
(* is one less to ask for, and one more on its way.                          *)
LEMMA RequestKeeps ==
    ASSUME NEW q, NEW p \in Peer, NEW k \in Nat, NEW l \in Nat, CanRequest(q, p, k, l), k > 0, l < MaxInTransit,
           clock \in 0 .. MaxTime
    PROVE  CanRequest(RequestOne(q, p), p, k - 1, l + 1)
<1> DEFINE s == q.node[p]
           h == Head(s.vBlocksToDownload)
           q1 == NotToDownload(q, h)
           r == RequestOne(q, p)
<1>1. /\ QueueInv(q) /\ s.connected /\ s.nBlocksToDownload = k /\ s.nBlocksInFlight = l
      /\ NodeInv(s, AskedOf(q.todo, p), AskedOf(q.flight, p))
  BY DEF CanRequest, QueueInv, PeerInv
<1>2. h \in AskedOf(q.todo, p)
  <2> DEFINE v == s.vBlocksToDownload
  <2>1. v \in Seq(Block) /\ Len(v) = k /\ Lists(v, AskedOf(q.todo, p))
    BY <1>1, NodeFields DEF NodeInv
  <2> HIDE DEF v
  <2>2. v[1] \in Range(v) /\ Head(v) = v[1]
    BY <2>1 DEF Range
  <2>3. QED
    BY <2>1, <2>2 DEF Lists, v
<1> HIDE DEF s, h
<1>3. h \in DOMAIN q.todo /\ q.todo[h] = p /\ h \in Block /\ h \notin DOMAIN q.flight
  BY <1>1, <1>2 DEF AskedOf, QueueInv, MapsApart, Assigned
<1>4. /\ QueueInv(q1) /\ q1.flight = q.flight /\ DOMAIN q1.todo = DOMAIN q.todo \ {h}
      /\ q1.node[p].nBlocksToDownload = k - 1 /\ q1.node[p].nBlocksInFlight = l /\ q1.node[p].connected
  BY <1>1, <1>3, NotToDownloadKeeps DEF s
<1> HIDE DEF q1
<1> DEFINE F == With(q1.flight, h, p)
           s1 == q1.node[p]
           s2 == InsertInFlight(s1, h)
<1>5. r = [q1 EXCEPT !.flight = F, !.node[p] = s2]
  <2>1. MarkBlockAsReceived(q, h, {}) = q1
    BY <1>3, <1>4 DEF MarkBlockAsReceived, NotInFlight, q1
  <2>2. QED
    BY <2>1, Zenon DEF RequestOne, MarkBlockAsInFlight, h, s
<1> HIDE DEF r
<1>6. /\ q1 = [todo |-> q1.todo, flight |-> q1.flight, node |-> q1.node] /\ Assigned(q1.todo) /\ Assigned(q1.flight)
      /\ DOMAIN q1.todo \cap DOMAIN q1.flight = {} /\ PeerInv(q1, s1, p)
  BY <1>4 DEF QueueInv, MapsApart, IsQueues
<1>7. /\ Assigned(F) /\ DOMAIN F = DOMAIN q1.flight \cup {h} /\ AskedOf(F, p) = AskedOf(q1.flight, p) \cup {h}
      /\ \A j \in Peer \ {p} : AskedOf(F, j) = AskedOf(q1.flight, j)
  <2> DEFINE f == q1.flight
  <2>1. h \notin DOMAIN f /\ Assigned(f) /\ h \in Block
    BY <1>3, <1>4, <1>6
  <2> HIDE DEF f
  <2>2. /\ Assigned(With(f, h, p)) /\ DOMAIN With(f, h, p) = DOMAIN f \cup {h}
        /\ AskedOf(With(f, h, p), p) = AskedOf(f, p) \cup {h}
        /\ \A j \in Peer \ {p} : AskedOf(With(f, h, p), j) = AskedOf(f, j)
    BY <2>1, WithIs
  <2>3. QED
    BY <2>2 DEF f
<1> HIDE DEF F
<1>8. IsQueues(r) /\ r.todo = q1.todo /\ r.flight = F /\ r.node = [q1.node EXCEPT ![p] = s2]
  BY <1>5, <1>6 DEF IsQueues
<1>9. /\ NodeInv(s2, AskedOf(q1.todo, p), AskedOf(q1.flight, p) \cup {h})
      /\ s2.nBlocksToDownload = k - 1 /\ s2.nBlocksInFlight = l + 1 /\ s2.connected
  <2> DEFINE T == AskedOf(q1.todo, p)
             G == AskedOf(q1.flight, p)
  <2>1. /\ NodeInv(s1, T, G) /\ HasRoom(s1)
        /\ s1.nBlocksToDownload = k - 1 /\ s1.nBlocksInFlight = l
    BY <1>4, <1>6 DEF PeerInv, HasRoom
  <2>2. h \in Block \ G
    BY <1>3, <1>4 DEF AskedOf
  <2>3. s2 = InsertInFlight(s1, h)
    OBVIOUS
  <2> HIDE DEF s1, s2, T, G
  <2>4. NodeInv(s2, T, G \cup {h}) /\ s2.nBlocksToDownload = s1.nBlocksToDownload
        /\ s2.nBlocksInFlight = s1.nBlocksInFlight + 1 /\ s2.connected
    BY <2>1, <2>2, <2>3, NodeRequests
  <2>5. QED
    BY <2>1, <2>4 DEF T, G
<1> HIDE DEF s1, s2
<1>10. MapsApart(r)
  BY <1>3, <1>4, <1>6, <1>7, <1>8 DEF MapsApart
<1>11. ChangesOnly(q1, r, p, s2)
  BY <1>7, <1>8 DEF ChangesOnly
<1>12. PeerInv(r, s2, p)
  BY <1>7, <1>8, <1>9 DEF PeerInv
<1>13. QueueInv(r) /\ r.node[p] = s2
  BY <1>4, <1>10, <1>11, <1>12, QueueChange
<1>14. QED
  BY <1>9, <1>13 DEF CanRequest, r

-----------------------------------------------------------------------------
(* The loop of SendMessages *)

(* The recursive function of the model satisfies its equation: the blocks    *)
(* are requested one after the other.                                        *)
LEMMA RequestingIs ==
    ASSUME NEW q, NEW p, nRequests(q, p) \in Nat
    PROVE  /\ Requesting(q, p)[0] = q
           /\ \A n \in 1 .. nRequests(q, p) : Requesting(q, p)[n] = RequestOne(Requesting(q, p)[n - 1], p)
<1> DEFINE N == nRequests(q, p)
           Is(g, m) == g = [n \in 0 .. m |-> IF n = 0 THEN q ELSE RequestOne(g[n - 1], p)]
           f == CHOOSE g : Is(g, N)
<1>1. N \in Nat
  OBVIOUS
<1>2. Requesting(q, p) = f
  BY DEF Requesting, RequestOne
<1> HIDE DEF N
<1>3. ASSUME NEW m \in Nat, NEW g, Is(g, m) PROVE \E e : Is(e, m + 1)
  <2> DEFINE e == [n \in 0 .. m + 1 |-> IF n = 0 THEN q ELSE RequestOne(g[n - 1], p)]
  <2>1. \A n \in 0 .. m : e[n] = g[n]
    BY <1>3
  <2>2. \A n \in 1 .. m + 1 : n - 1 \in 0 .. m
    OBVIOUS
  <2>3. \A n \in 0 .. m + 1 : (IF n = 0 THEN q ELSE RequestOne(e[n - 1], p)) = (IF n = 0 THEN q ELSE RequestOne(g[n - 1], p))
    <3> HIDE DEF e
    <3>1. \A n \in 1 .. m + 1 : e[n - 1] = g[n - 1]
      BY <2>1, <2>2
    <3>2. \A n \in 0 .. m + 1 : n = 0 \/ n \in 1 .. m + 1
      OBVIOUS
    <3>3. QED
      BY <3>1, <3>2
  <2>4. e = [n \in 0 .. m + 1 |-> IF n = 0 THEN q ELSE RequestOne(e[n - 1], p)]
    BY <2>3, Zenon
  <2>5. QED
    BY <2>4
<1>4. \E e : Is(e, 0)
  <2> DEFINE e == [n \in 0 .. 0 |-> q]
  <2>1. e = [n \in 0 .. 0 |-> IF n = 0 THEN q ELSE RequestOne(e[n - 1], p)]
    OBVIOUS
  <2>2. QED
    BY <2>1
<1>5. \E g : Is(g, N)
  <2> DEFINE S == {m \in 0 .. N : \E g : Is(g, m)}
  <2>1. 0 \in S
    BY <1>1, <1>4
  <2>2. ASSUME NEW n \in 1 .. N, n - 1 \in S PROVE n \in S
    <3> DEFINE l == n - 1
    <3>1. l \in Nat /\ l + 1 = n /\ n \in 0 .. N /\ \E g : Is(g, l)
      BY <1>1, <2>2
    <3> HIDE DEF l, Is
    <3>2. \E g : Is(g, l + 1)
      BY <1>3, <3>1
    <3>3. QED
      BY <3>1, <3>2
  <2> HIDE DEF S
  <2>3. N \in 0 .. N /\ \A n \in 0 .. N : n \in S
    BY <1>1, <2>1, <2>2, Upward
  <2>4. QED
    BY <2>3 DEF S
<1>6. Is(f, N)
  BY <1>5
<1> HIDE DEF f
<1>7. f[0] = q /\ \A n \in 1 .. N : f[n] = RequestOne(f[n - 1], p)
  BY <1>1, <1>6
<1>8. QED
  BY <1>2, <1>7 DEF N

(* A peer is asked for as many blocks as there is room for. *)
LEMMA RequestBlocksKeeps ==
    ASSUME NEW q, QueueInv(q), NEW p \in Peer, q.node[p].connected, clock \in 0 .. MaxTime
    PROVE  QueueInv(RequestBlocks(q, p))
<1> DEFINE k == q.node[p].nBlocksToDownload
           l == q.node[p].nBlocksInFlight
           K == nRequests(q, p)
           R == Requesting(q, p)
           S == {n \in 0 .. K : CanRequest(R[n], p, k - n, l + n)}
<1>1. k \in Nat /\ l \in Nat /\ l <= MaxInTransit
  <2>1. NodeInv(q.node[p], AskedOf(q.todo, p), AskedOf(q.flight, p))
    BY DEF QueueInv, PeerInv
  <2>2. QED
    BY <2>1, NodeFields DEF NodeInv
<1>2. CanRequest(q, p, k, l)
  BY DEF CanRequest
<1>3. K = IF k < MaxInTransit - l THEN k ELSE MaxInTransit - l
  BY DEF nRequests
<1> HIDE DEF k, l, K
<1>4. K \in Nat /\ K <= k /\ l + K <= MaxInTransit
  BY <1>1, <1>3
<1>5. R[0] = q /\ \A n \in 1 .. K : R[n] = RequestOne(R[n - 1], p)
  BY <1>4, RequestingIs DEF K
<1> HIDE DEF R
<1>6. 0 \in S
  <2>1. k - 0 = k /\ l + 0 = l /\ 0 \in 0 .. K
    BY <1>1, <1>4
  <2>2. QED
    BY <1>2, <1>5, <2>1
<1>7. ASSUME NEW n \in 1 .. K, n - 1 \in S PROVE n \in S
  <2> DEFINE m == n - 1
             a == k - m
             b == l + m
  <2>1. CanRequest(R[m], p, a, b) /\ R[n] = RequestOne(R[m], p)
    BY <1>5, <1>7
  <2>2. a \in Nat /\ b \in Nat /\ a > 0 /\ b < MaxInTransit /\ a - 1 = k - n /\ b + 1 = l + n /\ n \in 0 .. K
    BY <1>1, <1>4
  <2> HIDE DEF m, a, b
  <2>3. CanRequest(RequestOne(R[m], p), p, a - 1, b + 1)
    BY <2>1, <2>2, RequestKeeps
  <2>4. QED
    BY <2>1, <2>2, <2>3
<1> HIDE DEF S
<1>8. K \in S
  <2>1. \A n \in 0 .. K : n \in S
    BY <1>4, <1>6, <1>7, Upward
  <2>2. K \in 0 .. K
    BY <1>4
  <2>3. QED
    BY <2>1, <2>2
<1>9. QED
  BY <1>8 DEF S, CanRequest, RequestBlocks, R, K

-----------------------------------------------------------------------------
(* The end of a peer, and what else happens to one *)

(* Nothing is to be asked of a new peer. *)
LEMMA NodeNew ==
    ASSUME NEW c \in BOOLEAN
    PROVE  NodeInv(NewNodeState(c), {}, {})
<1> DEFINE s == NewNodeState(c)
<1>1. /\ s = [connected |-> c, fDisconnect |-> FALSE, vBlocksToDownload |-> <<>>, nBlocksToDownload |-> 0,
              vBlocksInFlight |-> <<>>, nBlocksInFlight |-> 0, nLastBlockReceive |-> 0, nLastBlockProcess |-> 0,
              nLastRecv |-> 0]
  BY DEF NewNodeState
<1>2. s \in NodeState
  BY <1>1 DEF NodeState
<1>3. Lists(<<>>, {}) /\ Hashes(<<>>) = <<>> /\ InOrder(<<>>, clock) /\ Len(<<>>) = 0
  BY DEF Lists, IsInjective, Range, Hashes, InOrder
<1>4. 0 <= MaxInTransit
  OBVIOUS
<1>5. QED
  BY <1>1, <1>2, <1>3, <1>4 DEF NodeInv

(* A peer whose lists stay as they are *)
LEMMA SameLists ==
    ASSUME NEW q, QueueInv(q), NEW p \in Peer, NEW s2, PeerInv(q, s2, p)
    PROVE  QueueInv([q EXCEPT !.node[p] = s2])
<1> DEFINE r == [q EXCEPT !.node[p] = s2]
<1>1. q = [todo |-> q.todo, flight |-> q.flight, node |-> q.node] /\ MapsApart(q)
  BY DEF QueueInv, MapsApart, IsQueues
<1>2. IsQueues(r) /\ r.todo = q.todo /\ r.flight = q.flight /\ r.node = [q.node EXCEPT ![p] = s2]
  BY <1>1 DEF IsQueues
<1> HIDE DEF r
<1>3. MapsApart(r) /\ ChangesOnly(q, r, p, s2) /\ PeerInv(r, s2, p)
  BY <1>1, <1>2 DEF MapsApart, ChangesOnly, PeerInv
<1>4. QueueInv(r)
  BY <1>3, QueueChange
<1>5. QED
  BY <1>4 DEF r

(* Its marks and times do not matter. *)
LEMMA NodeMarks ==
    ASSUME NEW s, NEW T, NEW F, NodeInv(s, T, F), clock \in 0 .. MaxTime
    PROVE  /\ NodeInv([s EXCEPT !.nLastBlockProcess = clock, !.nLastRecv = clock], T, F)
           /\ NodeInv([s EXCEPT !.nLastRecv = clock], T, F)
           /\ NodeInv([s EXCEPT !.fDisconnect = TRUE], T, F)
<1>1. ASSUME NEW t \in NodeState, t.connected = s.connected, t.vBlocksToDownload = s.vBlocksToDownload,
             t.nBlocksToDownload = s.nBlocksToDownload, t.vBlocksInFlight = s.vBlocksInFlight,
             t.nBlocksInFlight = s.nBlocksInFlight
      PROVE  NodeInv(t, T, F)
  BY <1>1 DEF NodeInv
<1>2. s \in NodeState
  BY DEF NodeInv
<1> DEFINE t == [s EXCEPT !.nLastBlockProcess = clock, !.nLastRecv = clock]
           u == [s EXCEPT !.fDisconnect = TRUE]
           v == [s EXCEPT !.nLastRecv = clock]
<1>3. /\ t \in NodeState /\ t.connected = s.connected /\ t.vBlocksToDownload = s.vBlocksToDownload
      /\ t.nBlocksToDownload = s.nBlocksToDownload /\ t.vBlocksInFlight = s.vBlocksInFlight
      /\ t.nBlocksInFlight = s.nBlocksInFlight
  BY <1>2 DEF NodeState
<1>4. /\ u \in NodeState /\ u.connected = s.connected /\ u.vBlocksToDownload = s.vBlocksToDownload
      /\ u.nBlocksToDownload = s.nBlocksToDownload /\ u.vBlocksInFlight = s.vBlocksInFlight
      /\ u.nBlocksInFlight = s.nBlocksInFlight
  BY <1>2 DEF NodeState
<1>5. /\ v \in NodeState /\ v.connected = s.connected /\ v.vBlocksToDownload = s.vBlocksToDownload
      /\ v.nBlocksToDownload = s.nBlocksToDownload /\ v.vBlocksInFlight = s.vBlocksInFlight
      /\ v.nBlocksInFlight = s.nBlocksInFlight
  BY <1>2 DEF NodeState
<1> HIDE DEF t, u, v
<1>6. NodeInv(t, T, F) /\ NodeInv(u, T, F) /\ NodeInv(v, T, F)
  BY <1>1, <1>3, <1>4, <1>5
<1>7. QED
  BY <1>6 DEF t, u, v

(* The peer is gone, or comes, and it leaves nothing behind. *)
LEMMA NewNodeKeeps ==
    ASSUME NEW q, QueueInv(q), NEW p \in Peer, NEW T, NEW F, NEW c \in BOOLEAN, NEW r,
           T = AskedOf(q.todo, p), F = AskedOf(q.flight, p),
           r = [todo |-> Without(q.todo, T), flight |-> Without(q.flight, F),
                node |-> [q.node EXCEPT ![p] = NewNodeState(c)]]
    PROVE  QueueInv(r)
<1>1. MapsApart(q) /\ Assigned(q.todo) /\ Assigned(q.flight) /\ DOMAIN q.todo \cap DOMAIN q.flight = {}
  BY DEF QueueInv, MapsApart
<1>2. /\ Assigned(r.todo) /\ DOMAIN r.todo = DOMAIN q.todo \ T
      /\ \A k : AskedOf(r.todo, k) = AskedOf(q.todo, k) \ T
  <2> DEFINE f == q.todo
  <2>1. Assigned(f) /\ r.todo = Without(f, T)
    BY <1>1
  <2> HIDE DEF f
  <2>2. Assigned(Without(f, T)) /\ DOMAIN Without(f, T) = DOMAIN f \ T /\ \A k : AskedOf(Without(f, T), k) = AskedOf(f, k) \ T
    BY ONLY <2>1, WithoutIs
  <2>3. QED
    BY <2>1, <2>2 DEF f
<1>3. /\ Assigned(r.flight) /\ DOMAIN r.flight = DOMAIN q.flight \ F
      /\ \A k : AskedOf(r.flight, k) = AskedOf(q.flight, k) \ F
  <2> DEFINE f == q.flight
  <2>1. Assigned(f) /\ r.flight = Without(f, F)
    BY <1>1
  <2> HIDE DEF f
  <2>2. Assigned(Without(f, F)) /\ DOMAIN Without(f, F) = DOMAIN f \ F /\ \A k : AskedOf(Without(f, F), k) = AskedOf(f, k) \ F
    BY ONLY <2>1, WithoutIs
  <2>3. QED
    BY <2>1, <2>2 DEF f
<1>4. IsQueues(r) /\ r.node = [q.node EXCEPT ![p] = NewNodeState(c)]
  BY DEF IsQueues
<1>5. MapsApart(r)
  BY <1>1, <1>2, <1>3, <1>4 DEF MapsApart
<1>6. AskedOf(r.todo, p) = {} /\ AskedOf(r.flight, p) = {}
  BY <1>2, <1>3
<1>7. PeerInv(r, NewNodeState(c), p)
  BY <1>6, NodeNew DEF PeerInv
<1>8. ChangesOnly(q, r, p, NewNodeState(c))
  <2>1. \A k \in Peer \ {p} : AskedOf(q.todo, k) \ T = AskedOf(q.todo, k) /\ AskedOf(q.flight, k) \ F = AskedOf(q.flight, k)
    BY DEF AskedOf
  <2>2. QED
    BY <1>2, <1>3, <1>4, <2>1 DEF ChangesOnly
<1>9. QED
  BY <1>5, <1>7, <1>8, QueueChange

(* FinalizeNode erases what the lists have, which is what the maps have.     *)
LEMMA FinalizedKeeps ==
    ASSUME NEW q, QueueInv(q), NEW p \in Peer
    PROVE  QueueInv(Finalized(q, p))
<1> DEFINE T == AskedOf(q.todo, p)
           F == AskedOf(q.flight, p)
           r == Finalized(q, p)
<1>1. NodeInv(q.node[p], T, F)
  BY DEF QueueInv, PeerInv
<1>2. Range(q.node[p].vBlocksToDownload) = T /\ Range(Hashes(q.node[p].vBlocksInFlight)) = F
  <2> HIDE DEF T, F
  <2>1. QED
    BY <1>1 DEF NodeInv, Lists
<1>3. r = [todo |-> Without(q.todo, T), flight |-> Without(q.flight, F),
           node |-> [q.node EXCEPT ![p] = NewNodeState(FALSE)]]
  BY <1>2 DEF Finalized
<1> HIDE DEF r
<1>4. QueueInv(r)
  BY <1>3, NewNodeKeeps
<1>5. QED
  BY <1>4 DEF r

(* A peer that connects was asked for nothing before.                        *)
LEMMA ConnectKeeps ==
    ASSUME NEW q, QueueInv(q), NEW p \in Peer, ~q.node[p].connected
    PROVE  QueueInv([q EXCEPT !.node[p] = NewNodeState(TRUE)])
<1> DEFINE s == q.node[p]
<1>1. NodeInv(s, AskedOf(q.todo, p), AskedOf(q.flight, p))
  BY DEF QueueInv, PeerInv
<1>2. s.vBlocksToDownload = <<>> /\ s.vBlocksInFlight = <<>>
  <2>1. /\ s.vBlocksToDownload \in Seq(Block) /\ Len(s.vBlocksToDownload) = 0
        /\ s.vBlocksInFlight \in Seq(InFlight) /\ Len(s.vBlocksInFlight) = 0
    BY <1>1, NodeFields DEF NodeInv
  <2>2. QED
    BY <2>1, EmptySeq
<1>3. AskedOf(q.todo, p) = {} /\ AskedOf(q.flight, p) = {}
  BY <1>1, <1>2 DEF NodeInv, Lists, Range, Hashes
<1>4. PeerInv(q, NewNodeState(TRUE), p)
  BY <1>3, NodeNew DEF PeerInv
<1>5. QED
  BY <1>4, SameLists

-----------------------------------------------------------------------------
(* The queues *)

DownInv == QueueInv(Queues) /\ clock \in 0 .. MaxTime

(* Nobody is asked for anything at the start.                                *)
LEMMA DownInit == Init => DownInv
<1> SUFFICES ASSUME Init PROVE DownInv
  OBVIOUS
<1>1. /\ IsQueues(Queues) /\ Queues.todo = <<>> /\ Queues.flight = <<>>
      /\ Queues.node = [p \in Peer |-> NewNodeState(FALSE)]
  BY DEF Init, Queues, IsQueues
<1>2. Assigned(<<>>) /\ DOMAIN <<>> = {} /\ \A p : AskedOf(<<>>, p) = {}
  BY DEF Assigned, AskedOf
<1>3. NewNodeState(FALSE) \in NodeState /\ NodeInv(NewNodeState(FALSE), {}, {})
  <2>1. NodeInv(NewNodeState(FALSE), {}, {})
    BY NodeNew
  <2>2. QED
    BY <2>1 DEF NodeInv
<1>4. MapsApart(Queues)
  BY <1>1, <1>2 DEF MapsApart
<1>5. Queues.node \in [Peer -> NodeState] /\ \A p \in Peer : PeerInv(Queues, Queues.node[p], p)
  BY <1>1, <1>2, <1>3 DEF PeerInv
<1>6. clock \in 0 .. MaxTime
  BY DEF Init
<1>7. QED
  BY <1>4, <1>5, <1>6 DEF DownInv, QueueInv

(* What a handler computes is what the variables then are. *)
LEMMA SetKeeps ==
    ASSUME NEW r, QueueInv(r), SetQueues(r), UNCHANGED clock
    PROVE  QueueInv(Queues)'
<1>1. Queues' = r
  BY DEF Queues, SetQueues, QueueInv, MapsApart, IsQueues
<1>2. MapsApart(Queues)' /\ Queues'.node \in [Peer -> NodeState]
  BY <1>1 DEF QueueInv, MapsApart, IsQueues
<1>3. ASSUME NEW p \in Peer PROVE PeerInv(Queues, Queues.node[p], p)'
  <2>1. PeerInv(r, r.node[p], p)
    BY DEF QueueInv
  <2>2. QED
    BY <1>1, <2>1 DEF PeerInv, NodeInv
<1>4. QED
  BY <1>2, <1>3 DEF QueueInv

(* The handlers keep the invariant: noting the time of a message,            *)
LEMMA HeardKeeps ==
    ASSUME DownInv, NEW p \in Peer, Listening(p)
    PROVE  QueueInv(Heard(p)) /\ Heard(p).node[p].connected
<1> DEFINE s == node[p]
           s2 == [s EXCEPT !.nLastBlockProcess = clock, !.nLastRecv = clock]
<1>1. QueueInv(Queues) /\ clock \in 0 .. MaxTime /\ Queues.node = node /\ node \in [Peer -> NodeState]
  BY DEF DownInv, QueueInv, Queues
<1>2. PeerInv(Queues, s, p)
  BY <1>1 DEF QueueInv
<1> HIDE DEF s
<1>3. PeerInv(Queues, s2, p)
  BY <1>1, <1>2, NodeMarks DEF PeerInv
<1>4. s \in NodeState /\ s.connected
  BY <1>1 DEF s, Listening
<1>5. s2.connected
  BY <1>4 DEF NodeState
<1> HIDE DEF s2
<1>6. QueueInv([Queues EXCEPT !.node[p] = s2])
  BY <1>1, <1>3, SameLists
<1>7. Heard(p) = [Queues EXCEPT !.node[p] = s2]
  BY <1>1 DEF Heard, s2, s
<1>8. [Queues EXCEPT !.node[p] = s2].node[p] = s2
  BY <1>1 DEF Queues
<1>9. QED
  BY <1>5, <1>6, <1>7, <1>8

(* marking a peer that is to be disconnected or that has sent bytes,          *)
LEMMA MarkedStep ==
    ASSUME DownInv, NEW p \in Peer,
           \/ node' = [node EXCEPT ![p].fDisconnect = TRUE]
           \/ node' = [node EXCEPT ![p].nLastRecv = clock],
           UNCHANGED <<mapBlocksToDownload, mapBlocksInFlight, clock>>
    PROVE  QueueInv(Queues)'
<1>1. PICK s2 : /\ node' = [node EXCEPT ![p] = s2]
                /\ s2 = [node[p] EXCEPT !.fDisconnect = TRUE] \/ s2 = [node[p] EXCEPT !.nLastRecv = clock]
  <2>1. CASE node' = [node EXCEPT ![p].fDisconnect = TRUE]
    BY <2>1
  <2>2. CASE node' = [node EXCEPT ![p].nLastRecv = clock]
    BY <2>2
  <2>3. QED
    BY <2>1, <2>2
<1> DEFINE r == [Queues EXCEPT !.node[p] = s2]
<1>2. QueueInv(Queues) /\ clock \in 0 .. MaxTime /\ Queues.node = node /\ PeerInv(Queues, node[p], p)
  BY DEF DownInv, QueueInv, Queues
<1>3. PeerInv(Queues, s2, p)
  <2>1. /\ PeerInv(Queues, [node[p] EXCEPT !.fDisconnect = TRUE], p)
        /\ PeerInv(Queues, [node[p] EXCEPT !.nLastRecv = clock], p)
    BY <1>2, NodeMarks DEF PeerInv
  <2>2. QED
    BY <1>1, <2>1
<1>4. QueueInv(r)
  BY <1>2, <1>3, SameLists
<1>5. SetQueues(r)
  BY <1>1 DEF SetQueues, Queues
<1> HIDE DEF r
<1>6. QED
  BY <1>4, <1>5, SetKeeps

(* a turn of SendMessages, which marks a stalled peer and asks another,      *)
LEMMA SendStep ==
    ASSUME DownInv, NEW p \in Peer, SendMessages(p)
    PROVE  QueueInv(Queues)'
<1>1. CASE Stalled(node[p])
  BY <1>1, MarkedStep DEF SendMessages
<1>2. CASE ~Stalled(node[p])
  <2>1. SetQueues(RequestBlocks(Queues, p)) /\ UNCHANGED clock
    BY <1>2 DEF SendMessages
  <2>2. QueueInv(Queues) /\ Queues.node[p].connected /\ clock \in 0 .. MaxTime
    BY DEF SendMessages, Listening, DownInv, Queues
  <2>3. QueueInv(RequestBlocks(Queues, p))
    BY <2>2, RequestBlocksKeeps
  <2>4. QED
    BY <2>1, <2>3, SetKeeps
<1>3. QED
  BY <1>1, <1>2

(* a new peer,                                                               *)
LEMMA ConnectPeerStep ==
    ASSUME DownInv, NEW p \in Peer, ConnectPeer(p)
    PROVE  QueueInv(Queues)'
<1> DEFINE r == [Queues EXCEPT !.node[p] = NewNodeState(TRUE)]
<1>1. QueueInv(Queues) /\ ~Queues.node[p].connected
  BY DEF DownInv, ConnectPeer, Queues
<1>2. QueueInv(r)
  BY <1>1, ConnectKeeps
<1>3. SetQueues(r) /\ UNCHANGED clock
  BY DEF ConnectPeer, SetQueues, Queues
<1> HIDE DEF r
<1>4. QED
  BY <1>2, <1>3, SetKeeps

(* or one that has gone,                                                     *)
LEMMA FinalizeStep ==
    ASSUME DownInv, NEW p \in Peer, FinalizeNode(p)
    PROVE  QueueInv(Queues)'
<1>1. QueueInv(Finalized(Queues, p))
  BY FinalizedKeeps DEF DownInv
<1>2. QED
  BY <1>1, SetKeeps DEF FinalizeNode

(* a message of a peer, *)
LEMMA MessageStep ==
    ASSUME DownInv, NEW p \in Peer, NEW h \in Block,
           ReceiveOther(p) \/ Announce(p, h) \/ ReceiveBlock(p, h) \/ ReceiveMalformed(p, h)
    PROVE  QueueInv(Queues)'
<1>1. clock \in 0 .. MaxTime /\ Listening(p) /\ UNCHANGED clock
  BY DEF DownInv, ReceiveOther, Announce, ReceiveBlock, ReceiveMalformed
<1> DEFINE q == Heard(p)
<1>2. QueueInv(q) /\ q.node[p].connected
  BY <1>1, HeardKeeps
<1>3. \/ SetQueues(q)
      \/ SetQueues(AddBlockToQueue(q, p, h))
      \/ SetQueues(MarkBlockAsReceived(q, h, {p}))
  BY DEF ReceiveOther, Announce, ReceiveBlock, ReceiveMalformed
<1> HIDE DEF q
<1>4. QueueInv(AddBlockToQueue(q, p, h)) /\ QueueInv(MarkBlockAsReceived(q, h, {p}))
  BY <1>1, <1>2, AddKeeps, ReceivedKeeps
<1>5. QED
  BY <1>1, <1>2, <1>3, <1>4, SetKeeps

(* and time that passes. *)
LEMMA TickStep ==
    ASSUME DownInv, Tick
    PROVE  DownInv'
<1>1. clock' \in 0 .. MaxTime /\ clock' = clock + 1 /\ Queues' = Queues /\ clock \in 0 .. MaxTime /\ QueueInv(Queues)
  BY DEF Tick, DownInv, Queues, queueVars
<1>2. ASSUME NEW p \in Peer PROVE PeerInv(Queues, Queues.node[p], p)'
  <2> DEFINE s == Queues.node[p]
             f == s.vBlocksInFlight
  <2>1. PeerInv(Queues, s, p)
    BY <1>1 DEF QueueInv
  <2>2. InOrder(f, clock) /\ f \in Seq(InFlight)
    BY <2>1, NodeFields DEF PeerInv, NodeInv
  <2> HIDE DEF f
  <2>3. InOrder(f, clock')
    <3>1. ASSUME NEW i \in DOMAIN f PROVE f[i].nTime \in Nat
      <4>1. f[i] \in InFlight
        BY <2>2
      <4>2. QED
        BY <4>1 DEF InFlight
    <3>2. QED
      BY <1>1, <2>2, <3>1 DEF InOrder
  <2>4. QED
    BY <1>1, <2>1, <2>3 DEF PeerInv, NodeInv, f
<1>3. MapsApart(Queues)' /\ Queues'.node \in [Peer -> NodeState]
  BY <1>1 DEF QueueInv, MapsApart, IsQueues
<1>4. QED
  BY <1>1, <1>2, <1>3 DEF DownInv, QueueInv

(* Nothing else happens to the queues.                                       *)
LEMMA DownStep == DownInv /\ [Next]_vars => DownInv'
<1> SUFFICES ASSUME DownInv, [Next]_vars PROVE DownInv'
  OBVIOUS
<1>1. CASE Tick
  BY <1>1, TickStep
<1>2. CASE UNCHANGED <<queueVars, clock>>
  <2>1. QueueInv(Queues) /\ SetQueues(Queues) /\ UNCHANGED clock
    BY <1>2 DEF DownInv, SetQueues, Queues, queueVars
  <2>2. QED
    BY <2>1, SetKeeps DEF DownInv
<1>3. ASSUME NEW p \in Peer,
             ConnectPeer(p) \/ ReceiveOther(p) \/ ReceiveBytes(p) \/ SendMessages(p) \/ LosePeer(p) \/ FinalizeNode(p)
      PROVE  DownInv'
  <2>1. UNCHANGED clock /\ clock \in 0 .. MaxTime
    BY <1>3 DEF DownInv, ConnectPeer, ReceiveOther, ReceiveBytes, SendMessages, LosePeer, FinalizeNode
  <2>2. CASE ReceiveOther(p)
    <3>1. QueueInv(Heard(p))
      BY <2>2, HeardKeeps DEF ReceiveOther
    <3>2. QED
      BY <2>1, <2>2, <3>1, SetKeeps DEF ReceiveOther, DownInv
  <2>3. CASE LosePeer(p) \/ ReceiveBytes(p)
    BY <2>1, <2>3, MarkedStep DEF LosePeer, ReceiveBytes, DownInv
  <2>4. QED
    BY <1>3, <2>1, <2>2, <2>3, ConnectPeerStep, SendStep, FinalizeStep DEF DownInv
<1>4. ASSUME NEW p \in Peer, NEW h \in Block, Announce(p, h) \/ ReceiveMalformed(p, h) \/ ReceiveBlock(p, h)
      PROVE  DownInv'
  <2>1. UNCHANGED clock /\ clock \in 0 .. MaxTime
    BY <1>4 DEF DownInv, Announce, ReceiveMalformed, ReceiveBlock
  <2>2. QueueInv(Queues)'
    BY <1>4, MessageStep
  <2>3. QED
    BY <2>1, <2>2 DEF DownInv
<1>5. ASSUME NEW h \in Block, SubmitBlock(h) PROVE DownInv'
  BY <1>2, <1>5 DEF SubmitBlock
<1>6. Announced \subseteq Block
  OBVIOUS
<1>7. CASE UNCHANGED vars
  BY <1>2, <1>7 DEF vars
<1>8. QED
  BY <1>1, <1>3, <1>4, <1>5, <1>6, <1>7 DEF Next

(* What is waited for, and from whom, is known exactly, whoever answers,     *)
(* late or unasked, and whoever is dropped: a block is queued or in flight   *)
(* for one connected peer at most, and is in that peer's list once.          *)
THEOREM DownloadIsConsistentAlways == Spec => []DownloadIsConsistent
<1>1. DownInv => QueuesAgree /\ RequestsAreOrdered
  <2> SUFFICES ASSUME DownInv PROVE QueuesAgree /\ RequestsAreOrdered
    OBVIOUS
  <2>1. /\ QueueInv(Queues) /\ Queues.todo = mapBlocksToDownload /\ Queues.flight = mapBlocksInFlight
        /\ Queues.node = node
    BY DEF DownInv, Queues
  <2>2. DOMAIN mapBlocksToDownload \cap DOMAIN mapBlocksInFlight = {}
    BY <2>1 DEF QueueInv, MapsApart
  <2>3. \A p \in Peer : NodeInv(node[p], AskedOf(mapBlocksToDownload, p), AskedOf(mapBlocksInFlight, p))
    BY <2>1 DEF QueueInv, PeerInv
  <2>4. QueuesAgree
    BY <2>2, <2>3 DEF QueuesAgree, NodeInv
  <2>5. RequestsAreOrdered
    BY <2>3 DEF RequestsAreOrdered, NodeInv, InOrder
  <2>6. QED
    BY <2>4, <2>5
<1>2. DownInv /\ OrphanInv => SyncTypeOK
  <2> SUFFICES ASSUME DownInv, OrphanInv PROVE SyncTypeOK
    OBVIOUS
  <2>1. /\ Assigned(mapBlocksToDownload) /\ Assigned(mapBlocksInFlight) /\ node \in [Peer -> NodeState]
        /\ clock \in 0 .. MaxTime
    BY DEF DownInv, QueueInv, MapsApart, Queues
  <2>2. /\ mapBlockIndex \subseteq Block \cup Start /\ mapOrphanBlocks \subseteq Block /\ aborted \in BOOLEAN
        /\ mapOrphanBlocksByPrev \subseteq (Block \cup Start) \X Block
    BY DEF OrphanInv, OrphansAreConsistent, OrphanMapsAgree
  <2>3. QED
    BY <2>1, <2>2 DEF SyncTypeOK, Assigned
<1>3. DownInv /\ OrphanInv => DownloadIsConsistent
  BY <1>1, <1>2 DEF DownloadIsConsistent
<1>4. QED
  BY OrphanInit, OrphanStep, DownInit, DownStep, <1>3, PTL DEF Spec

=============================================================================
