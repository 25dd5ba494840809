------------------------------- MODULE Nodes -------------------------------
(***************************************************************************)
(* Peer connections (src/net.cpp, src/net.h, CSemaphore of src/sync.h):    *)
(* the life of a CNode between the threads that use it.                    *)
(*                                                                         *)
(*   the socket thread, ThreadSocketHandler, accepts connections, reads    *)
(*     and writes sockets, removes disconnected nodes from vNodes and      *)
(*     frees them;                                                         *)
(*   the message thread, ThreadMessageHandler, handles what was received   *)
(*     and chooses the node to synchronise with;                           *)
(*   the openers make outbound connections: ThreadOpenConnections and      *)
(*     ThreadOpenAddedConnections under a grant of semOutbound, or without *)
(*     one to the peers named with -connect; the threads that serve RPC,   *)
(*     without one, for "addnode onetry".                                  *)
(*                                                                         *)
(* A node is the heap address `new CNode' returned: an address is used     *)
(* again after `delete', and pointers may outlive the node they were made  *)
(* for.  cs_vNodes is held over a step only while the socket thread is     *)
(* between the two halves of a removal ("removing"); every other critical  *)
(* section is one step.                                                    *)
(*                                                                         *)
(* Abstracted: sockets and messages.  What a peer or the network does is a *)
(* choice: a connection attempt may fail, a read may find the socket       *)
(* closed, a message may make its handler drop the peer.  CSemaphoreGrant  *)
(* moves and releases are steps.                                           *)
(***************************************************************************)
EXTENDS Naturals, FiniteSets

CONSTANTS
    Heap,          \* the addresses `new CNode' may return
    Opener,        \* the threads that open connections
    Addr,          \* the network addresses the openers may choose
    Caller,        \* those from which peers may connect to us
    MaxOutbound,   \* the initial value of semOutbound
    MaxInbound,    \* nMaxConnections - MAX_OUTBOUND_CONNECTIONS
    NULL

ASSUME AddrAssumption == Addr # {} /\ Caller \subseteq Addr
ASSUME HeapAssumption == IsFiniteSet(Heap) /\ NULL \notin Heap
ASSUME OpenerAssumption == IsFiniteSet(Opener)
ASSUME BoundAssumption == MaxOutbound \in Nat /\ MaxInbound \in Nat

VARIABLES
    node,                \* the fields of the CNode at each address
    vNodes,
    vNodesDisconnected,
    pnodeSync,           \* a raw pointer
    semOutbound,         \* the value of the semaphore
    sock,                \* where the socket thread stands
    msg,                 \* where the message thread stands
    open                 \* where each opener stands

vars == <<node, vNodes, vNodesDisconnected, pnodeSync, semOutbound, sock, msg, open>>

NodeState ==
    [alive : BOOLEAN,         \* allocated, and not yet deleted
     addr : Addr,
     nRefCount : Nat,
     fInbound : BOOLEAN,
     fNetworkNode : BOOLEAN,
     fDisconnect : BOOLEAN,
     grantOutbound : BOOLEAN,
     granted : BOOLEAN]       \* history: in vNodes, and made by an opener with a grant

(***************************************************************************)
(* The socket thread goes round "top" (remove what is disconnected),       *)
(* "removing", "free", "deleting", "accept", "copy", "service".  `todo' is *)
(* what its loop has not reached yet, `copy' the snapshot vNodesCopy,      *)
(* whose references it owns, `cur' the node in hand.                       *)
(***************************************************************************)
SockState == [pc : {"top", "removing", "free", "deleting", "accept", "copy", "service", "undefined"},
              copy : SUBSET Heap, todo : SUBSET Heap, cur : Heap \cup {NULL}]

(* The message thread goes round "copy", "sync", "setsync", "poll" and, for *)
(* the node in hand, "handle", where it holds that node's locks.            *)
MsgState == [pc : {"copy", "sync", "setsync", "poll", "handle", "undefined"},
             copy : SUBSET Heap, todo : SUBSET Heap, cur : Heap \cup {NULL}]

(* An opener: "idle"; "check" in OpenNetworkConnection;                     *)
(* "find" in ConnectNode before and "addref" after FindNode; "connect";     *)
(* "onetry" is "connect" in the RPC addnode; "move" with a node to give the *)
(* grant to; "network" before fNetworkNode = true.  Which thread an opener  *)
(* is may differ from one attempt to the next: between two of them a thread *)
(* has nothing that the model knows of.  "undefined", for every thread:     *)
(* freed memory was written to.                                             *)
OpenState == [pc : {"idle", "check", "find", "addref", "connect", "onetry", "move", "network", "undefined"},
              addr : Addr,
              named : BOOLEAN,   \* the peer was given by name, pszDest # NULL
              node : Heap \cup {NULL}, grant : BOOLEAN,
              found : BOOLEAN,   \* node is what FindNode returned
              stale : BOOLEAN]   \* node was deleted since

Free == {n \in Heap : ~node[n].alive}
FreshNode(a, inbound) ==
    [alive |-> TRUE, addr |-> a, nRefCount |-> 1, fInbound |-> inbound, fNetworkNode |-> FALSE,
     fDisconnect |-> FALSE, grantOutbound |-> FALSE, granted |-> FALSE]

(* What is left in freed memory is never looked at. *)
Deleted == [FreshNode(CHOOSE a \in Addr : TRUE, FALSE) EXCEPT !.alive = FALSE, !.nRefCount = 0]

(* An opener before it looks for a connected node, and one at rest *)
Opening(pc, a, named, grant) ==
    [pc |-> pc, addr |-> a, named |-> named, node |-> NULL, grant |-> grant, found |-> FALSE, stale |-> FALSE]
Idle == Opening("idle", Deleted.addr, FALSE, FALSE)

CsFree == sock.pc # "removing"

Init ==
    /\ node = [n \in Heap |-> Deleted]
    /\ open = [o \in Opener |-> Idle]
    /\ vNodes = {}
    /\ vNodesDisconnected = {}
    /\ pnodeSync = NULL
    /\ semOutbound = MaxOutbound
    /\ sock = [pc |-> "top", copy |-> {}, todo |-> {}, cur |-> NULL]
    /\ msg = [pc |-> "copy", copy |-> {}, todo |-> {}, cur |-> NULL]

(* CNode::CloseSocketDisconnect, in its two effects *)
Closed(n) == [node EXCEPT ![n].fDisconnect = TRUE]
SyncWithout(n) == IF pnodeSync = n THEN NULL ELSE pnodeSync

(* CNode::AddRef and Release for every node of a snapshot *)
AddRefs(S) == [n \in Heap |-> IF n \in S THEN [node[n] EXCEPT !.nRefCount = @ + 1] ELSE node[n]]
Releases(S) == [n \in Heap |-> IF n \in S THEN [node[n] EXCEPT !.nRefCount = @ - 1] ELSE node[n]]

-----------------------------------------------------------------------------
(* The socket thread *)
(* The variants named "Slip..." are not part of the model: each is a mistake *)
(* that the property it is paired with in PROJECT.json would notice.         *)
SlipKeepNode(n) ==
    /\ sock.pc = "top" /\ n \in sock.todo
    /\ sock' = [sock EXCEPT !.todo = @ \ {n}]
    /\ UNCHANGED <<node, vNodes, vNodesDisconnected, pnodeSync, semOutbound, msg, open>>

(* One round of the removal loop: a node that stays... *)
KeepNode(n) ==
    /\ sock.pc = "top" /\ n \in sock.todo
    /\ ~node[n].fDisconnect /\ node[n].nRefCount > 0
    /\ sock' = [sock EXCEPT !.todo = @ \ {n}]
    /\ UNCHANGED <<node, vNodes, vNodesDisconnected, pnodeSync, semOutbound, msg, open>>

(* ... and one that is removed: its grant is released, its socket closed *)
RemoveNode(n) ==
    /\ sock.pc = "top" /\ n \in sock.todo
    /\ node[n].fDisconnect \/ node[n].nRefCount <= 0
    /\ vNodes' = vNodes \ {n}
    /\ semOutbound' = IF node[n].grantOutbound THEN semOutbound + 1 ELSE semOutbound
    /\ node' = [Closed(n) EXCEPT ![n].grantOutbound = FALSE, ![n].granted = FALSE]
    /\ pnodeSync' = SyncWithout(n)
    /\ sock' = [sock EXCEPT !.pc = "removing", !.todo = @ \ {n}, !.cur = n]
    /\ UNCHANGED <<vNodesDisconnected, msg, open>>

(* "hold in disconnected pool until all refs are released" *)
HoldDisconnected ==
    LET n == sock.cur IN
    /\ sock.pc = "removing"
    /\ node' = IF node[n].fNetworkNode \/ node[n].fInbound THEN Releases({n}) ELSE node
    /\ vNodesDisconnected' = vNodesDisconnected \cup {n}
    /\ sock' = [sock EXCEPT !.pc = "top", !.cur = NULL]
    /\ UNCHANGED <<vNodes, pnodeSync, semOutbound, msg, open>>

RemovalDone ==
    /\ sock.pc = "top" /\ sock.todo = {}
    /\ sock' = [sock EXCEPT !.pc = "free", !.todo = vNodesDisconnected]
    /\ UNCHANGED <<node, vNodes, vNodesDisconnected, pnodeSync, semOutbound, msg, open>>

(* TRY_LOCK of cs_vSend, cs_vRecvMsg and cs_inventory *)
LocksFree(n) == ~(msg.pc = "handle" /\ msg.cur = n)

(* the count is not looked at *)
SlipMayDelete(n) == LocksFree(n)

MayDelete(n) == node[n].nRefCount <= 0 /\ LocksFree(n)

TryDelete(n) ==
    /\ sock.pc = "free" /\ n \in sock.todo
    /\ sock' = IF MayDelete(n) THEN [sock EXCEPT !.pc = "deleting", !.todo = @ \ {n}, !.cur = n]
                               ELSE [sock EXCEPT !.todo = @ \ {n}]
    /\ UNCHANGED <<node, vNodes, vNodesDisconnected, pnodeSync, semOutbound, msg, open>>

(* `delete pnode' after the locks are released: ~CNode closes the socket and *)
(* destroys the grant                                                        *)
DeleteNode ==
    LET n == sock.cur IN
    /\ sock.pc = "deleting"
    /\ vNodesDisconnected' = vNodesDisconnected \ {n}
    /\ semOutbound' = IF node[n].grantOutbound THEN semOutbound + 1 ELSE semOutbound
    /\ node' = [node EXCEPT ![n] = Deleted]
    /\ sock' = [sock EXCEPT !.pc = "free", !.cur = NULL]
    /\ open' = [o \in Opener |-> [open[o] EXCEPT !.stale = @ \/ open[o].node = n]]
    /\ UNCHANGED <<vNodes, pnodeSync, msg>>

FreeingDone ==
    /\ sock.pc = "free" /\ sock.todo = {}
    /\ sock' = [sock EXCEPT !.pc = "accept"]
    /\ UNCHANGED <<node, vNodes, vNodesDisconnected, pnodeSync, semOutbound, msg, open>>

nInbound == Cardinality({n \in vNodes : node[n].fInbound})

AcceptConnection ==
    /\ sock.pc = "accept"
    /\ nInbound < MaxInbound
    /\ \E n \in Free, a \in Caller :
        /\ node' = [node EXCEPT ![n] = FreshNode(a, TRUE)]
        /\ vNodes' = vNodes \cup {n}
    /\ sock' = [sock EXCEPT !.pc = "copy"]
    /\ UNCHANGED <<vNodesDisconnected, pnodeSync, semOutbound, msg, open>>

AcceptNothing ==
    /\ sock.pc = "accept"
    /\ sock' = [sock EXCEPT !.pc = "copy"]
    /\ UNCHANGED <<node, vNodes, vNodesDisconnected, pnodeSync, semOutbound, msg, open>>

SockCopy ==
    /\ sock.pc = "copy"
    /\ node' = AddRefs(vNodes)
    /\ sock' = [sock EXCEPT !.pc = "service", !.copy = vNodes, !.todo = vNodes]
    /\ UNCHANGED <<vNodes, vNodesDisconnected, pnodeSync, semOutbound, msg, open>>

(* Reading, writing and the inactivity check leave the node as it is, close *)
(* its socket, or only ask for its disconnection.  The message thread may   *)
(* have the node in hand: it holds one of cs_vRecvMsg and cs_vSend at a     *)
(* time, and the socket is read under the one and written under the other.  *)
ServiceNode(n) ==
    /\ sock.pc = "service" /\ n \in sock.todo
    /\ sock' = [sock EXCEPT !.todo = @ \ {n}]
    /\ \/ UNCHANGED <<node, pnodeSync>>
       \/ node' = Closed(n) /\ pnodeSync' = SyncWithout(n)
       \/ node' = Closed(n) /\ UNCHANGED pnodeSync
    /\ UNCHANGED <<vNodes, vNodesDisconnected, semOutbound, msg, open>>

(* The references are released and the loop starts again *)
SockRelease ==
    /\ sock.pc = "service" /\ sock.todo = {}
    /\ node' = Releases(sock.copy)
    /\ sock' = [sock EXCEPT !.pc = "top", !.copy = {}, !.todo = vNodes]
    /\ UNCHANGED <<vNodes, vNodesDisconnected, pnodeSync, semOutbound, msg, open>>

-----------------------------------------------------------------------------
(* The message thread *)

MsgCopy ==
    /\ msg.pc = "copy" /\ CsFree
    /\ node' = AddRefs(vNodes)
    /\ msg' = [msg EXCEPT !.pc = IF pnodeSync \in vNodes THEN "poll" ELSE "sync",
                          !.copy = vNodes, !.todo = vNodes]
    /\ UNCHANGED <<vNodes, vNodesDisconnected, pnodeSync, semOutbound, sock, open>>

(* StartSync: which connected nodes have said they are full nodes, and which *)
(* of them sent something last, is a choice                                  *)
ChooseSync(n) ==
    /\ msg.pc = "sync" /\ n \in msg.copy
    /\ ~node[n].fDisconnect
    /\ msg' = [msg EXCEPT !.pc = "setsync", !.cur = n]
    /\ UNCHANGED <<node, vNodes, vNodesDisconnected, pnodeSync, semOutbound, sock, open>>

NoSyncCandidate ==
    /\ msg.pc = "sync"
    /\ msg' = [msg EXCEPT !.pc = "poll"]
    /\ UNCHANGED <<node, vNodes, vNodesDisconnected, pnodeSync, semOutbound, sock, open>>

SetSync ==
    /\ msg.pc = "setsync"
    /\ pnodeSync' = msg.cur
    /\ msg' = [msg EXCEPT !.pc = "poll", !.cur = NULL]
    /\ UNCHANGED <<node, vNodes, vNodesDisconnected, semOutbound, sock, open>>

(* The loop over the snapshot: a disconnected node is skipped, another one  *)
(* is handled under its locks                                               *)
PollNode(n) ==
    /\ msg.pc = "poll" /\ n \in msg.todo
    /\ msg' = IF node[n].fDisconnect THEN [msg EXCEPT !.todo = @ \ {n}]
              ELSE [msg EXCEPT !.pc = "handle", !.todo = @ \ {n}, !.cur = n]
    /\ UNCHANGED <<node, vNodes, vNodesDisconnected, pnodeSync, semOutbound, sock, open>>

(* ProcessMessages and SendMessages: the peer is kept, dropped (fDisconnect),*)
(* or its socket is closed after a bad message or a failed send              *)
HandleNode ==
    LET n == msg.cur IN
    /\ msg.pc = "handle"
    /\ msg' = [msg EXCEPT !.pc = "poll", !.cur = NULL]
    /\ \/ UNCHANGED <<node, pnodeSync>>
       \/ node' = Closed(n) /\ UNCHANGED pnodeSync
       \/ node' = Closed(n) /\ pnodeSync' = SyncWithout(n)
    /\ UNCHANGED <<vNodes, vNodesDisconnected, semOutbound, sock, open>>

MsgRelease ==
    /\ msg.pc = "poll" /\ msg.todo = {} /\ CsFree
    /\ node' = Releases(msg.copy)
    /\ msg' = [msg EXCEPT !.pc = "copy", !.copy = {}]
    /\ UNCHANGED <<vNodes, vNodesDisconnected, pnodeSync, semOutbound, sock, open>>

-----------------------------------------------------------------------------
(* The openers *)

(* A grant of semOutbound is waited for, or tried for, and a peer chosen: by *)
(* its address, or by name for an added node and a one-shot                  *)
Acquire(o) ==
    /\ open[o].pc = "idle"
    /\ semOutbound > 0
    /\ semOutbound' = semOutbound - 1
    /\ \E a \in Addr, named \in BOOLEAN : open' = [open EXCEPT ![o] = Opening("check", a, named, TRUE)]
    /\ UNCHANGED <<node, vNodes, vNodesDisconnected, pnodeSync, sock, msg>>

(* With -connect, OpenNetworkConnection(addr, NULL, strAddr) is called: no  *)
(* grant is asked for                                                       *)
ConnectTo(o) ==
    /\ open[o].pc = "idle"
    /\ \E a \in Addr : open' = [open EXCEPT ![o] = Opening("check", a, TRUE, FALSE)]
    /\ UNCHANGED <<node, vNodes, vNodesDisconnected, pnodeSync, semOutbound, sock, msg>>

(* RPC addnode, "onetry", calls ConnectNode at once                         *)
OneTry(o) ==
    /\ open[o].pc = "idle"
    /\ \E a \in Addr : open' = [open EXCEPT ![o] = Opening("onetry", a, TRUE, FALSE)]
    /\ UNCHANGED <<node, vNodes, vNodesDisconnected, pnodeSync, semOutbound, sock, msg>>

(* The end of the attempt, and of the grant's scope *)
Finish(o) ==
    /\ open' = [open EXCEPT ![o] = Idle]
    /\ semOutbound' = IF open[o].grant THEN semOutbound + 1 ELSE semOutbound

Connected(a) == {n \in vNodes : node[n].addr = a}

(* OpenNetworkConnection gives up if the address is connected (or banned); *)
(* for a peer given by name, if a connected node has that name, which one  *)
(* connected by its address need not have                                  *)
AlreadyConnected(o) ==
    /\ open[o].pc = "check" /\ CsFree
    /\ Connected(open[o].addr) # {}
    /\ Finish(o)
    /\ UNCHANGED <<node, vNodes, vNodesDisconnected, pnodeSync, sock, msg>>

NotConnected(o) ==
    /\ open[o].pc = "check" /\ CsFree
    /\ open[o].named \/ Connected(open[o].addr) = {}
    /\ open' = [open EXCEPT ![o].pc = IF open[o].named THEN "connect" ELSE "find"]
    /\ UNCHANGED <<node, vNodes, vNodesDisconnected, pnodeSync, semOutbound, sock, msg>>

(* "Look for an existing connection": the pointer is returned without a     *)
(* reference...                                                             *)
FindNode(o) ==
    /\ open[o].pc = "find" /\ CsFree
    /\ IF Connected(open[o].addr) = {}
       THEN open' = [open EXCEPT ![o].pc = "connect"]
       ELSE \E n \in Connected(open[o].addr) :
               open' = [open EXCEPT ![o].pc = "addref", ![o].node = n, ![o].found = TRUE]
    /\ UNCHANGED <<node, vNodes, vNodesDisconnected, pnodeSync, semOutbound, sock, msg>>

(* ... and the reference is taken later.                                    *)
AddRefFound(o) ==
    /\ open[o].pc = "addref"
    /\ ~open[o].stale
    /\ node' = AddRefs({open[o].node})
    /\ open' = [open EXCEPT ![o].pc = "move"]
    /\ UNCHANGED <<vNodes, vNodesDisconnected, pnodeSync, semOutbound, sock, msg>>

(* The node may be gone when the opener writes to it: what the process does *)
(* after a write to freed memory is unknown.                                *)
UseFreed(o) ==
    /\ open[o].pc \in {"addref", "move", "network"}
    /\ open[o].stale
    /\ open' = [p \in Opener |-> [open[p] EXCEPT !.pc = "undefined"]]
    /\ sock' = [sock EXCEPT !.pc = "undefined"]
    /\ msg' = [msg EXCEPT !.pc = "undefined"]
    /\ UNCHANGED <<node, vNodes, vNodesDisconnected, pnodeSync, semOutbound>>

ConnectFails(o) ==
    /\ open[o].pc \in {"connect", "onetry"}
    /\ Finish(o)
    /\ UNCHANGED <<node, vNodes, vNodesDisconnected, pnodeSync, sock, msg>>

(* `new CNode', AddRef, vNodes.push_back.  OpenNetworkConnection goes on    *)
(* with moving the grant, `if (grantOutbound)'; addnode is done.            *)
Connect(o) ==
    /\ open[o].pc \in {"connect", "onetry"} /\ CsFree
    /\ \E n \in Free :
        /\ node' = [node EXCEPT ![n] = [FreshNode(open[o].addr, FALSE) EXCEPT !.granted = open[o].grant]]
        /\ vNodes' = vNodes \cup {n}
        /\ open' = [open EXCEPT ![o] =
               IF open[o].pc = "onetry" THEN Idle
               ELSE [open[o] EXCEPT !.pc = IF open[o].grant THEN "move" ELSE "network", !.named = FALSE,
                                    !.node = n]]
    /\ UNCHANGED <<vNodesDisconnected, pnodeSync, semOutbound, sock, msg>>

(* the grant is copied, and the scope's end releases it *)
SlipMoveGrant(o) ==
    LET n == open[o].node IN
    /\ open[o].pc = "move" /\ ~open[o].stale
    /\ semOutbound' = IF node[n].grantOutbound THEN semOutbound + 1 ELSE semOutbound
    /\ open' = [open EXCEPT ![o].pc = "network"]
    /\ UNCHANGED <<node, vNodes, vNodesDisconnected, pnodeSync, sock, msg>>

(* grantOutbound->MoveTo(pnode->grantOutbound) *)
MoveGrant(o) ==
    LET n == open[o].node IN
    /\ open[o].pc = "move" /\ ~open[o].stale
    /\ semOutbound' = IF node[n].grantOutbound THEN semOutbound + 1 ELSE semOutbound
    /\ node' = [node EXCEPT ![n].grantOutbound = TRUE]
    /\ open' = [open EXCEPT ![o].pc = "network", ![o].grant = FALSE]
    /\ UNCHANGED <<vNodes, vNodesDisconnected, pnodeSync, sock, msg>>

SetNetworkNode(o) ==
    /\ open[o].pc = "network" /\ ~open[o].stale
    /\ node' = [node EXCEPT ![open[o].node].fNetworkNode = TRUE]
    /\ Finish(o)
    /\ UNCHANGED <<vNodes, vNodesDisconnected, pnodeSync, sock, msg>>

-----------------------------------------------------------------------------
SockLoop ==
    \/ \E n \in Heap : KeepNode(n) \/ RemoveNode(n) \/ TryDelete(n) \/ ServiceNode(n)
    \/ HoldDisconnected \/ RemovalDone
    \/ DeleteNode \/ FreeingDone
    \/ AcceptConnection \/ AcceptNothing
    \/ SockCopy \/ SockRelease

MsgLoop ==
    \/ MsgCopy \/ NoSyncCandidate \/ SetSync
    \/ \E n \in Heap : ChooseSync(n) \/ PollNode(n)
    \/ HandleNode \/ MsgRelease

StartOpening(o) == Acquire(o) \/ ConnectTo(o) \/ OneTry(o)

OpenConnection(o) ==
    \/ AlreadyConnected(o) \/ NotConnected(o)
    \/ FindNode(o) \/ AddRefFound(o) \/ UseFreed(o)
    \/ Connect(o) \/ ConnectFails(o)
    \/ MoveGrant(o) \/ SetNetworkNode(o)

Next ==
    \/ SockLoop
    \/ MsgLoop
    \/ \E o \in Opener : StartOpening(o) \/ OpenConnection(o)

Spec == Init /\ [][Next]_vars

(***************************************************************************)
(* The socket thread and the message thread keep running.  The critical    *)
(* sections of cs_vNodes are short and end without waiting for anybody, so *)
(* a thread that wants the mutex gets it: the socket thread needs weak     *)
(* fairness, since nobody else holds cs_vNodes over a step, the message    *)
(* thread strong fairness, as it waits for it.  An opener need not start,  *)
(* and may wait for the network as long as it likes.                       *)
(***************************************************************************)
FairSpec ==
    /\ Spec
    /\ WF_vars(SockLoop)
    /\ SF_vars(MsgLoop)
-----------------------------------------------------------------------------
(* The type invariant of the connection state. *)
NodesTypeOK ==
    /\ node \in [Heap -> NodeState]
    /\ vNodes \subseteq Heap /\ vNodesDisconnected \subseteq Heap
    /\ pnodeSync \in Heap \cup {NULL}
    /\ semOutbound \in 0..MaxOutbound
    /\ sock \in SockState /\ msg \in MsgState
    /\ open \in [Opener -> OpenState]

Alive == {n \in Heap : node[n].alive}
Running == sock.pc # "undefined"

(* The nodes a thread is going to dereference.  What FindNode returned is   *)
(* left apart: nothing keeps that node until it is given a reference, and   *)
(* that may come too late, see FoundNodesAreAlive.                          *)
SockUses == sock.copy \cup ({sock.cur} \ {NULL})
MsgUses == msg.copy
OpenUses(o) == IF open[o].pc \in {"move", "network"} /\ ~open[o].found THEN {open[o].node} ELSE {}

(* "wait until threads are done using it": whatever the three kinds of      *)
(* threads do to a node, in any interleaving, no thread has a node in hand, *)
(* in its snapshot, or found in vNodes, that was deleted.                   *)
NodesInUseAreAlive ==
    /\ SockUses \cup MsgUses \cup vNodes \cup vNodesDisconnected \subseteq Alive
    /\ \A o \in Opener : OpenUses(o) \subseteq Alive /\ (open[o].stale => open[o].found)

(* A node has a reference for each snapshot that holds it, and the thread   *)
(* that holds a node's locks is one of those: the three TRY_LOCKs before    *)
(* `delete' never find a lock taken when the count says zero.               *)
Holders(n) == (IF n \in sock.copy THEN 1 ELSE 0) + (IF n \in msg.copy THEN 1 ELSE 0)
ReferencesAreCounted ==
    Running => \A n \in Alive :
        /\ node[n].nRefCount >= Holders(n) + (IF n \in vNodes THEN 1 ELSE 0)
        /\ ~LocksFree(n) => node[n].nRefCount > 0

(* So a node is kept for as long as it is used, and the count that keeps it  *)
(* is never below its users.                                                 *)
UsedNodesAreKept == NodesTypeOK /\ NodesInUseAreAlive /\ ReferencesAreCounted

(* Every unit of the outbound semaphore is in one place: free, with an      *)
(* opener, or with a node that is not deleted.  No interleaving of MoveTo,  *)
(* a removal and ~CNode loses or doubles one.                               *)
GrantsAreConserved ==
    semOutbound + Cardinality({o \in Opener : open[o].grant})
                + Cardinality({n \in Alive : node[n].grantOutbound}) = MaxOutbound

(* The node keeps within its outbound and inbound connections, although a   *)
(* connection is in vNodes before it has its opener's grant, and loses the  *)
(* grant in the step that takes it from vNodes.  Of the outbound ones, only *)
(* those made under a grant are limited, see AtMostMaxConnections.          *)
ConnectionsAreBounded ==
    /\ Cardinality({n \in vNodes : node[n].granted}) <= MaxOutbound
    /\ nInbound <= MaxInbound

(* Grants and connections stay in step, over every order of connecting,      *)
(* moving a grant, being disconnected and being deleted.                     *)
ConnectionsAreGranted == GrantsAreConserved /\ ConnectionsAreBounded

(* A node that is to be disconnected is removed from vNodes and deleted      *)
(* sooner or later: the message thread, which takes its locks and references *)
(* again and again, cannot keep it for ever.  Excepted are the references    *)
(* nobody gives back once the node is in the pool, see PoolIsEmptied.        *)
Surplus(n) == n \in vNodesDisconnected /\ node[n].nRefCount > Holders(n)
DisconnectedAreFreed ==
    \A n \in Heap : (node[n].alive /\ node[n].fDisconnect) ~> (~node[n].alive \/ Surplus(n) \/ ~Running)

(* Claims of comments that do not hold *)

(* net.cpp:775, "wait until threads are done using it", of the pointer       *)
(* ConnectNode got from FindNode.                                            *)
FoundNodesAreAlive == \A o \in Opener : open[o].pc = "addref" => ~open[o].stale

(* net.cpp:764, "hold in disconnected pool until all refs are released": the *)
(* pool lets go of every node sooner or later.                               *)
PoolIsEmptied == \A n \in Heap : n \in vNodesDisconnected ~> (n \notin vNodesDisconnected \/ ~Running)

(* net.cpp:512, "if this was the sync node, we'll need a new one": pnodeSync *)
(* does not outlive the node, whose address the next one may get.            *)
SyncNodeIsAlive == pnodeSync # NULL => node[pnodeSync].alive

(* init.cpp:229, "Maintain at most <n> connections to peers": -connect and   *)
(* addnode "onetry" are not counted.                                         *)
AtMostMaxConnections == Cardinality(vNodes) <= MaxOutbound + MaxInbound
=============================================================================
