----------------------------- MODULE BlockSync -----------------------------
(***************************************************************************)
(* How blocks reach the node (src/main.cpp): the queues of blocks to ask   *)
(* peers for, the blocks in flight, and the holding area for blocks whose  *)
(* parent is unknown.                                                      *)
(*                                                                         *)
(* Everything here runs under cs_main, one handler at a time: a message of *)
(* a peer (ProcessMessage), a turn of SendMessages for it, or its end      *)
(* (FinalizeNode).  Peers answer late, twice, out of order, with what they *)
(* were not asked for, or not at all.                                      *)
(*                                                                         *)
(* Abstracted: AcceptBlock is a verdict on the block, which it stores in   *)
(* mapBlockIndex or refuses; when the system fails it aborts, before or    *)
(* after it has stored the block.  A message is processed in the unit of   *)
(* time in which it comes.  The clock is counted in units of               *)
(* BLOCK_DOWNLOAD_TIMEOUT / Timeout and stops at MaxTime.                  *)
(***************************************************************************)
EXTENDS Naturals, Sequences, FiniteSets, SequencesExt

CONSTANTS
    Peer,
    Block,          \* hashes of blocks other than those known at the start
    Announced,      \* those that peers send an inv for; the others come unasked
    Parent,         \* hashPrevBlock
    Bad,            \* blocks AcceptBlock refuses
    Start,          \* hashes in mapBlockIndex at the start
    MaxOrphans,     \* -maxorphanblocks
    MaxInTransit,   \* MAX_BLOCKS_IN_TRANSIT_PER_PEER
    Timeout,        \* BLOCK_DOWNLOAD_TIMEOUT
    MaxTime

ASSUME SyncBlockAssumption ==
    /\ IsFiniteSet(Block) /\ Bad \subseteq Block /\ Announced \subseteq Block /\ Start \cap Block = {}
    /\ Parent \in [Block -> Block \cup Start]
ASSUME SyncPeerAssumption == IsFiniteSet(Peer)
ASSUME SyncBoundAssumption ==
    /\ MaxOrphans \in Nat /\ MaxInTransit \in Nat \ {0}
    /\ Timeout \in Nat /\ MaxTime \in Nat

VARIABLES
    mapBlockIndex,
    mapOrphanBlocks,         \* hashes
    mapOrphanBlocksByPrev,   \* pairs of a hashPrev and a hash
    mapBlocksToDownload,     \* hash to peer
    mapBlocksInFlight,       \* hash to peer
    node,                    \* CNodeState of each connected peer, fDisconnect and nLastRecv
    clock,                   \* GetTimeMicros
    aborted                  \* state.Abort was called: the process is shutting down

chainVars == <<mapBlockIndex, mapOrphanBlocks, mapOrphanBlocksByPrev, aborted>>
queueVars == <<mapBlocksToDownload, mapBlocksInFlight, node>>
vars == <<chainVars, queueVars, clock>>

NodeState ==
    [connected : BOOLEAN, fDisconnect : BOOLEAN,
     vBlocksToDownload : Seq(Block), nBlocksToDownload : Nat,
     vBlocksInFlight : Seq([hash : Block, nTime : 0..MaxTime]), nBlocksInFlight : Nat,
     nLastBlockReceive : 0..MaxTime, nLastBlockProcess : 0..MaxTime, nLastRecv : 0..MaxTime]

(* CNodeState(), what InitializeNode inserts *)
NewNodeState(connected) ==
    [connected |-> connected, fDisconnect |-> FALSE,
     vBlocksToDownload |-> <<>>, nBlocksToDownload |-> 0,
     vBlocksInFlight |-> <<>>, nBlocksInFlight |-> 0,
     nLastBlockReceive |-> 0, nLastBlockProcess |-> 0, nLastRecv |-> 0]

Init ==
    /\ mapBlockIndex = Start
    /\ mapOrphanBlocks = {} /\ mapOrphanBlocksByPrev = {}
    /\ mapBlocksToDownload = <<>> /\ mapBlocksInFlight = <<>>
    /\ node = [p \in Peer |-> NewNodeState(FALSE)]
    /\ clock = 0
    /\ aborted = FALSE

Without(f, S) == [h \in DOMAIN f \ S |-> f[h]]
With(f, h, p) == [k \in DOMAIN f \cup {h} |-> IF k = h THEN p ELSE f[k]]

-----------------------------------------------------------------------------
(* The download queues.  Each function below takes and returns a record of  *)
(* the three variables, since handlers call several of them.                *)

Queues == [todo |-> mapBlocksToDownload, flight |-> mapBlocksInFlight, node |-> node]
SetQueues(q) ==
    /\ mapBlocksToDownload' = q.todo
    /\ mapBlocksInFlight' = q.flight
    /\ node' = q.node

(* where the iterator of the map's entry for h points to in the peer's list *)
Place(hashes, h) == CHOOSE i \in DOMAIN hashes : hashes[i] = h

Hashes(inFlight) == [i \in DOMAIN inFlight |-> inFlight[i].hash]

(* what happens to the lists of a CNodeState *)
EraseToDownload(s, h) ==
    [s EXCEPT !.vBlocksToDownload = RemoveAt(@, Place(@, h)), !.nBlocksToDownload = @ - 1]
EraseInFlight(s, h, received) ==
    [s EXCEPT !.vBlocksInFlight = RemoveAt(@, Place(Hashes(@), h)), !.nBlocksInFlight = @ - 1,
              !.nLastBlockReceive = IF received THEN clock ELSE @]
InsertToDownload(s, h) ==
    [s EXCEPT !.vBlocksToDownload = Append(@, h), !.nBlocksToDownload = @ + 1]
InsertInFlight(s, h) ==
    [s EXCEPT !.nLastBlockReceive = IF s.nBlocksInFlight = 0 THEN clock ELSE @,
              !.vBlocksInFlight = Append(@, [hash |-> h, nTime |-> clock]), !.nBlocksInFlight = @ + 1]

NotToDownload(q, h) ==
    IF h \notin DOMAIN q.todo THEN q
    ELSE [q EXCEPT !.todo = Without(@, {h}), !.node[q.todo[h]] = EraseToDownload(@, h)]

NotInFlight(q, h, from) ==
    IF h \notin DOMAIN q.flight THEN q
    ELSE [q EXCEPT !.flight = Without(@, {h}),
                   !.node[q.flight[h]] = EraseInFlight(@, h, {q.flight[h]} = from)]

(* MarkBlockAsReceived; `from' is the singleton of nodeFrom, or empty for -1 *)
MarkBlockAsReceived(q, h, from) == NotInFlight(NotToDownload(q, h), h, from)

(* The variants named "Slip..." are not part of the model: each is a mistake *)
(* that the property it is paired with in PROJECT.json would notice.         *)

(* nothing looks for the block among those in flight *)
SlipAddBlockToQueue(q, p, h) ==
    IF h \in DOMAIN q.todo THEN q
    ELSE [q EXCEPT !.todo = With(@, h, p), !.node[p] = InsertToDownload(@, h)]

(* AddBlockToQueue *)
AddBlockToQueue(q, p, h) ==
    IF h \in DOMAIN q.todo \cup DOMAIN q.flight THEN q
    ELSE [q EXCEPT !.todo = With(@, h, p), !.node[p] = InsertToDownload(@, h)]

(* MarkBlockAsInFlight *)
MarkBlockAsInFlight(q, p, h) ==
    [MarkBlockAsReceived(q, h, {}) EXCEPT !.flight = With(@, h, p), !.node[p] = InsertInFlight(@, h)]

(* SendMessages' loop: the front of the queue goes in flight while there is  *)
(* room for it                                                               *)
nRequests(q, p) ==
    LET room == MaxInTransit - q.node[p].nBlocksInFlight IN
    IF q.node[p].nBlocksToDownload < room THEN q.node[p].nBlocksToDownload ELSE room
Requesting(q, p) ==
    LET after[n \in 0..nRequests(q, p)] ==
            IF n = 0 THEN q
            ELSE LET r == after[n - 1] IN MarkBlockAsInFlight(r, p, Head(r.node[p].vBlocksToDownload))
    IN after
RequestBlocks(q, p) == Requesting(q, p)[nRequests(q, p)]

(* FinalizeNode *)
Finalized(q, p) ==
    [todo |-> Without(q.todo, Range(q.node[p].vBlocksToDownload)),
     flight |-> Without(q.flight, Range(Hashes(q.node[p].vBlocksInFlight))),
     node |-> [q.node EXCEPT ![p] = NewNodeState(FALSE)]]

-----------------------------------------------------------------------------
(* The holding area *)

Dependents(h) == {k \in Block : <<h, k>> \in mapOrphanBlocksByPrev}

(* PruneOrphanBlocks: whatever orphan it starts from, it ends at one that no *)
(* other depends on.                                                         *)
Pruned ==
    IF Cardinality(mapOrphanBlocksByPrev) <= MaxOrphans THEN {{}}
    ELSE {{h} : h \in {k \in mapOrphanBlocks : Dependents(k) = {}}}

(* only the orphans that wait for h itself are looked for *)
SlipProcessed(h, broken) ==
    {h} \cup (IF h \in Bad \cup broken THEN {} ELSE Dependents(h))

(* The blocks ProcessBlock's work queue gets to when it starts with h: the   *)
(* orphans that depend on a block it has accepted, and so on.  AcceptBlock   *)
(* fails for a block in `broken' since the system does.                      *)
Processed(h, broken) ==
    LET S == {h} \cup mapOrphanBlocks
        Accepts(k) == k \notin Bad \cup broken
        IsClosed(R) == h \in R /\ \A k \in R : Accepts(k) => Dependents(k) \subseteq R
    IN {k \in S : \A R \in SUBSET S : IsClosed(R) => k \in R}

(* ProcessBlock, for a block that a peer sent or (peer = {}) one of our own  *)
AlreadyHave(h) == h \in mapBlockIndex \cup mapOrphanBlocks

HoldOrphan(h) ==
    \E evicted \in Pruned :
        /\ mapOrphanBlocks' = (mapOrphanBlocks \ evicted) \cup {h}
        /\ mapOrphanBlocksByPrev' =
               (mapOrphanBlocksByPrev \ {<<Parent[k], k>> : k \in evicted}) \cup {<<Parent[h], h>>}
        /\ UNCHANGED <<mapBlockIndex, aborted>>

Connect(h) ==
    \E broken \in SUBSET ({h} \cup mapOrphanBlocks) : \E stored \in SUBSET broken :
        LET R == Processed(h, broken) IN
        /\ broken \subseteq R \ Bad
        /\ mapBlockIndex' = mapBlockIndex \cup (R \ (Bad \cup broken)) \cup stored
        /\ mapOrphanBlocks' = mapOrphanBlocks \ R
        /\ mapOrphanBlocksByPrev' =
               {e \in mapOrphanBlocksByPrev : e[1] \notin R \ (Bad \cup broken)}
        /\ aborted' = (aborted \/ broken # {})

ProcessBlock(h, fromPeer) ==
    IF AlreadyHave(h) THEN UNCHANGED chainVars
    ELSE IF Parent[h] \in mapBlockIndex THEN Connect(h)
    ELSE IF fromPeer THEN HoldOrphan(h)
    ELSE UNCHANGED chainVars

-----------------------------------------------------------------------------
(* Handlers *)

Listening(p) == node[p].connected /\ ~node[p].fDisconnect

(* ProcessMessage notes the time before it looks at the message *)
Heard(p) == [Queues EXCEPT !.node[p].nLastBlockProcess = clock, !.node[p].nLastRecv = clock]

ConnectPeer(p) ==
    /\ ~node[p].connected
    /\ node' = [node EXCEPT ![p] = NewNodeState(TRUE)]
    /\ UNCHANGED <<chainVars, mapBlocksToDownload, mapBlocksInFlight, clock>>

(* "inv" *)
Announce(p, h) ==
    /\ Listening(p)
    /\ SetQueues(IF AlreadyHave(h) THEN Heard(p) ELSE AddBlockToQueue(Heard(p), p, h))
    /\ UNCHANGED <<chainVars, clock>>

(* "block" *)
ReceiveBlock(p, h) ==
    /\ Listening(p)
    /\ SetQueues(MarkBlockAsReceived(Heard(p), h, {p}))
    /\ ProcessBlock(h, TRUE)
    /\ UNCHANGED clock

(* "block", with a body CheckBlock refuses; if nobody was asked for it, it is *)
(* one message more, as in ReceiveOther.                                      *)
ReceiveMalformed(p, h) ==
    /\ Listening(p)
    /\ h \in DOMAIN mapBlocksToDownload \cup DOMAIN mapBlocksInFlight
    /\ UNCHANGED <<chainVars, clock>>
    /\ SetQueues(MarkBlockAsReceived(Heard(p), h, {p}))

(* Any other message, such as the answer to a ping *)
ReceiveOther(p) ==
    /\ Listening(p)
    /\ UNCHANGED <<chainVars, clock>>
    /\ SetQueues(Heard(p))

(* Bytes of which no message comes that ProcessMessages would handle: it is  *)
(* never complete, or its header or checksum is wrong                        *)
ReceiveBytes(p) ==
    /\ Listening(p)
    /\ node' = [node EXCEPT ![p].nLastRecv = clock]
    /\ UNCHANGED <<chainVars, mapBlocksToDownload, mapBlocksInFlight, clock>>

(* A block that was mined here or given by RPC *)
SubmitBlock(h) ==
    /\ ProcessBlock(h, FALSE)
    /\ UNCHANGED <<queueVars, clock>>

(* the time of the first request is compared the wrong way round *)
SlipStalled(s) ==
    /\ s.nBlocksInFlight > 0
    /\ s.nLastBlockReceive + Timeout < s.nLastBlockProcess
    /\ Head(s.vBlocksInFlight).nTime > s.nLastBlockProcess + 2 * Timeout

(* SendMessages: "Detect stalled peers", then getdata *)
Stalled(s) ==
    /\ s.nBlocksInFlight > 0
    /\ s.nLastBlockReceive + Timeout < s.nLastBlockProcess
    /\ Head(s.vBlocksInFlight).nTime + 2 * Timeout < s.nLastBlockProcess

SendMessages(p) ==
    /\ Listening(p)
    /\ UNCHANGED <<chainVars, clock>>
    /\ IF Stalled(node[p])
       THEN /\ node' = [node EXCEPT ![p].fDisconnect = TRUE]
            /\ UNCHANGED <<mapBlocksToDownload, mapBlocksInFlight>>
       ELSE SetQueues(RequestBlocks(Queues, p))

(* The connection is lost, or the peer is banned or idle *)
LosePeer(p) ==
    /\ Listening(p)
    /\ node' = [node EXCEPT ![p].fDisconnect = TRUE]
    /\ UNCHANGED <<chainVars, mapBlocksToDownload, mapBlocksInFlight, clock>>

(* ~CNode *)
FinalizeNode(p) ==
    /\ node[p].connected /\ node[p].fDisconnect
    /\ UNCHANGED <<chainVars, clock>>
    /\ SetQueues(Finalized(Queues, p))

(* Time that passes while no block is in flight makes no difference. *)
Tick ==
    /\ clock < MaxTime
    /\ DOMAIN mapBlocksInFlight # {}
    /\ clock' = clock + 1
    /\ UNCHANGED <<chainVars, queueVars>>

Next ==
    \/ \E p \in Peer : ConnectPeer(p) \/ ReceiveOther(p) \/ ReceiveBytes(p) \/ SendMessages(p)
                      \/ LosePeer(p) \/ FinalizeNode(p)
    \/ \E p \in Peer, h \in Announced : Announce(p, h) \/ ReceiveMalformed(p, h)
    \/ \E p \in Peer, h \in Block : ReceiveBlock(p, h)
    \/ \E h \in Block : SubmitBlock(h)
    \/ Tick

Spec == Init /\ [][Next]_vars

Silent(p) == node[p].nLastRecv < clock

(***************************************************************************)
(* Time passes; the message thread polls every peer and the socket thread  *)
(* ends every node that is to be disconnected; a peer that sends nothing   *)
(* is disconnected by the inactivity test (LosePeer), unless it answers a  *)
(* ping before.  Any bytes put that test off.                              *)
(***************************************************************************)
FairSpec ==
    /\ Spec
    /\ WF_vars(Tick)
    /\ \A p \in Peer : /\ WF_vars(SendMessages(p) \/ FinalizeNode(p))
                       /\ WF_vars(Silent(p) /\ (ReceiveOther(p) \/ LosePeer(p)))

-----------------------------------------------------------------------------
(* The type invariant of the download queues and the holding area. *)
SyncTypeOK ==
    /\ mapBlockIndex \subseteq Block \cup Start
    /\ mapOrphanBlocks \subseteq Block
    /\ mapOrphanBlocksByPrev \subseteq (Block \cup Start) \X Block
    /\ DOMAIN mapBlocksToDownload \subseteq Block /\ DOMAIN mapBlocksInFlight \subseteq Block
    /\ \A h \in DOMAIN mapBlocksToDownload : mapBlocksToDownload[h] \in Peer
    /\ \A h \in DOMAIN mapBlocksInFlight : mapBlocksInFlight[h] \in Peer
    /\ node \in [Peer -> NodeState]
    /\ clock \in 0..MaxTime /\ aborted \in BOOLEAN

(* the blocks that a map has for a peer *)
AskedOf(f, p) == {h \in DOMAIN f : f[h] = p}

(* A sequence has each member of S once, and nothing else. *)
Lists(s, S) == IsInjective(s) /\ Range(s) = S

(* The global maps and the per-peer lists say the same: a block is waited    *)
(* for from one peer at most, as queued or as in flight, once, and only from *)
(* one that is connected; the counters are the lists' lengths.  (The maps    *)
(* hold iterators into the lists: a disagreement is a dangling iterator.)    *)
QueuesAgree ==
    /\ DOMAIN mapBlocksToDownload \cap DOMAIN mapBlocksInFlight = {}
    /\ \A p \in Peer :
        LET s == node[p] IN
        /\ s.nBlocksToDownload = Len(s.vBlocksToDownload)
        /\ s.nBlocksInFlight = Len(s.vBlocksInFlight)
        /\ ~s.connected => s.nBlocksToDownload = 0 /\ s.nBlocksInFlight = 0
        /\ Lists(s.vBlocksToDownload, AskedOf(mapBlocksToDownload, p))
        /\ Lists(Hashes(s.vBlocksInFlight), AskedOf(mapBlocksInFlight, p))

(* No peer is asked for more blocks at a time than the limit, and the front  *)
(* of the list, which the stall test looks at, is the oldest request.        *)
RequestsAreOrdered ==
    \A p \in Peer :
        LET f == node[p].vBlocksInFlight IN
        /\ Len(f) <= MaxInTransit
        /\ \A i, j \in DOMAIN f : i < j => f[i].nTime <= f[j].nTime

(* What is waited for, and from whom, is known exactly, whoever answers,     *)
(* late or unasked, and whoever is dropped.                                  *)
DownloadIsConsistent == SyncTypeOK /\ QueuesAgree /\ RequestsAreOrdered

(* The two maps of orphans hold the same blocks, each under its parent. *)
OrphanMapsAgree == mapOrphanBlocksByPrev = {<<Parent[h], h>> : h \in mapOrphanBlocks}

(* Whatever the order in which blocks arrive, are evicted and are refused,   *)
(* no block stays in the holding area once its parent is known (unless the   *)
(* process is shutting down after a system error), and none is in both       *)
(* places.                                                                   *)
NoOrphanIsReady ==
    /\ mapOrphanBlocks \cap mapBlockIndex = {}
    /\ ~aborted => \A h \in mapOrphanBlocks : Parent[h] \notin mapBlockIndex

(* The holding area is bounded.  The bound is one more than the option says, *)
(* see OrphansWithinLimit.                                                   *)
OrphansAreBounded == Cardinality(mapOrphanBlocks) <= MaxOrphans + 1

(* The two maps of orphans, the index and the bound agree, whatever order    *)
(* the blocks come in: no block is kept that could be connected, lost from   *)
(* one map only, or held beyond the bound.                                   *)
OrphansAreConsistent == OrphanMapsAgree /\ NoOrphanIsReady /\ OrphansAreBounded

(* A request that is not answered is given up: the block is received, from   *)
(* whomever, or its peer is disconnected, so that another can be asked.      *)
(* Waited for is only a peer that keeps sending requested blocks, or one     *)
(* that from some moment on sends bytes and no message that is handled, see  *)
(* TricklersAreGivenUp.  The clock's end is the reason for the bounds.       *)
Overdue(p) ==
    /\ node[p].nBlocksInFlight > 0
    /\ Head(node[p].vBlocksInFlight).nTime + 2 * Timeout < MaxTime
    /\ node[p].nLastBlockReceive + Timeout < MaxTime
Trickles(p) == node[p].nLastBlockProcess < node[p].nLastRecv
StalledAreGivenUp == \A p \in Peer : Overdue(p) ~> (~Overdue(p) \/ []Trickles(p))

(* Claims of comments that do not hold *)

(* main.cpp:4457, "Detect stalled peers": all of them.  The test compares    *)
(* with the time of the last message that was handled, not with the present. *)
TricklersAreGivenUp == \A p \in Peer : Overdue(p) ~> ~Overdue(p)

(* init.cpp:210, "Keep at most <n> unconnectable blocks in memory"; it does  *)
(* not hold: PruneOrphanBlocks returns at n and the new block makes n + 1.   *)
OrphansWithinLimit == Cardinality(mapOrphanBlocks) <= MaxOrphans
=============================================================================
