----------------------------- MODULE LanThread -----------------------------
(***************************************************************************)
(* Signaling over the local network: NetherNet::LanThreadManager, a thread *)
(* with a FIFO task queue, and its PeerRecordTable of the peers heard from.*)
(*                                                                         *)
(* Application threads and the signal thread call SimpleNetworkInterface-  *)
(* Impl, which looks into the table from their own thread and posts the    *)
(* rest; packets and tasks are handled on the LAN thread.  The insertion   *)
(* of a record is two steps, for nothing keeps other threads out of        *)
(* mPeerRecordTable meanwhile.                                             *)
(*                                                                         *)
(* Posted lambdas capture parameters by reference to a frame that has      *)
(* returned: DisableBroadcastDiscovery and SendSignalingMessageTo run with *)
(* an arbitrary id, and the id that was meant is kept only as a witness.   *)
(* Initialize has no body; the thread is taken as running, its table as    *)
(* allocated.                                                              *)
(***************************************************************************)
EXTENDS Integers, Sequences, FiniteSets

CONSTANTS
    Ids,                  \* NetworkIDs, all different from 0
    Addrs,                \* socket addresses of peers
    Callers,              \* threads other than the LAN thread
    None,                 \* no record, no address, no argument
    Expiry,               \* the 60 seconds of RemoveExpiredRecords
    MaxTime,              \* bound: last clock value, in seconds
    MaxTasks              \* bound: length of the LAN thread's queue

Families == {4, 6}
Records == [addr : Addrs, last : 0..MaxTime]
Table == [Ids -> Records \cup {None}]
Insertions == [id : Ids, addr : Addrs]
Tasks == [op : {"enable", "disable", "broadcast"}, arg : {None}]
         \cup [op : {"query"}, arg : Callers] \cup [op : {"send", "ping"}, arg : Ids]
Messages == [meant : Ids \cup {None}, dst : Ids \cup {None},
             addr : Addrs \cup {None}, latest : Addrs \cup {None}, age : 0..MaxTime]

ASSUME LanConstants ==
    /\ Ids # {} /\ IsFiniteSet(Ids)
    /\ None \notin Ids \cup Addrs \cup Callers \cup Records \cup Insertions
    /\ Expiry \in Nat /\ MaxTime \in Nat /\ MaxTasks \in Nat \ {0}

VARIABLES
    now,                   \* std::chrono::high_resolution_clock, in seconds
    mPeerRecordTable,      \* id -> the record, or None
    mExclusiveTable,       \* the locked table, which RemoveExpiredRecords works on
    inserting,             \* the insertion in progress: [id, addr], or None
    mIds,                  \* ids to broadcast for
    mRemoteId,             \* assigned nowhere
    bindFamily,            \* mBindAddress.family()
    mBasicNetworkMgr,      \* "null" or "live"
    mDiscoveredAddresses,
    mDisableLANSignaling,  \* of SimpleNetworkInterfaceImpl
    lanTasks,              \* the LAN thread's queue: [op, arg]
    blocked,               \* callers waiting in BlockingCall
    \* What the environment has seen:
    heard,      \* id -> address of the last packet that counted
    requests,   \* <<id, address>> of the broadcast requests sent
    lastSend    \* the last message sent or dropped

tableVars == <<mPeerRecordTable, inserting, heard>>
networkVars == <<mIds, mBasicNetworkMgr, mDiscoveredAddresses, requests>>
fixedVars == <<mRemoteId, bindFamily>>
vars == <<now, tableVars, mExclusiveTable, networkVars, fixedVars, mDisableLANSignaling,
          lanTasks, blocked, lastSend>>

NothingSent == [meant |-> None, dst |-> None, addr |-> None,
                latest |-> None, age |-> 0]

Init ==
    /\ now = 0
    /\ mPeerRecordTable = [id \in Ids |-> None]
    /\ mExclusiveTable = [id \in Ids |-> None]
    /\ inserting = None
    /\ mIds = {} /\ requests = {}
    /\ mRemoteId \in Ids                     \* not initialised
    /\ bindFamily \in Families
    /\ mBasicNetworkMgr = "null" /\ mDiscoveredAddresses = {}
    /\ mDisableLANSignaling \in BOOLEAN      \* not initialised
    /\ lanTasks = <<>> /\ blocked = {}
    /\ heard = [id \in Ids |-> None]
    /\ lastSend = NothingSent

-----------------------------------------------------------------------------
(* PeerRecordTable.                                                        *)

RemoveExpiredRecords(table) ==
    [id \in Ids |-> IF table[id] # None /\ now - table[id].last > Expiry
                    THEN None ELSE table[id]]

\* Every operation begins with this.
PurgeExclusive == mExclusiveTable' = RemoveExpiredRecords(mExclusiveTable)

\* Mutant: expired records are not found.
FindFresh(id) == RemoveExpiredRecords(mPeerRecordTable)[id]

Find(id) == mPeerRecordTable[id]

\* Contains, read from another thread: during an insertion the reader may miss
\* any node of the tree, and may find the new one already.
Contains(id) ==
    IF inserting = None THEN {mPeerRecordTable[id] # None}
    ELSE {FALSE, mPeerRecordTable[id] # None \/ inserting.id = id}

-----------------------------------------------------------------------------
(* The calls of SimpleNetworkInterfaceImpl.                                *)

\* The bound leaves room for the ping of an insertion in progress.
Room == Len(lanTasks) + (IF inserting = None THEN 0 ELSE 1) < MaxTasks

\* rtc::Thread::PostTask.
PostTask(op, arg) == Room /\ lanTasks' = Append(lanTasks, [op |-> op, arg |-> arg])

EnableSignalingOverLAN ==
    /\ mDisableLANSignaling /\ mDisableLANSignaling' = FALSE
    /\ UNCHANGED <<now, tableVars, mExclusiveTable, networkVars, fixedVars, lanTasks,
                   blocked, lastSend>>

DisableSignalingOverLAN ==
    /\ ~mDisableLANSignaling /\ mDisableLANSignaling' = TRUE
    /\ UNCHANGED <<now, tableVars, mExclusiveTable, networkVars, fixedVars, lanTasks,
                   blocked, lastSend>>

EnableBroadcastDiscovery ==
    /\ PostTask("enable", None)
    /\ UNCHANGED <<now, tableVars, mExclusiveTable, networkVars, fixedVars,
                   mDisableLANSignaling, blocked, lastSend>>

DisableBroadcastDiscovery ==
    /\ PostTask("disable", None)
    /\ UNCHANGED <<now, tableVars, mExclusiveTable, networkVars, fixedVars,
                   mDisableLANSignaling, blocked, lastSend>>

\* BlockingCall: the caller waits for its task.
IsBroadcastDiscoveryEnabled(c) ==
    /\ c \notin blocked /\ PostTask("query", c)
    /\ blocked' = blocked \cup {c}
    /\ UNCHANGED <<now, tableVars, mExclusiveTable, networkVars, fixedVars,
                   mDisableLANSignaling, lastSend>>

\* A peer not on the LAN, or a preference for the web socket, sends nothing.
\* SendPacket asks IsNetworkIdOnLan too and stops there.
SendToSignalingChannel(c, id) ==
    /\ c \notin blocked /\ ~mDisableLANSignaling
    /\ PurgeExclusive
    /\ \E onLan \in Contains(id) :
         \/ onLan /\ PostTask("send", id)
         \/ UNCHANGED lanTasks
    /\ UNCHANGED <<now, tableVars, networkVars, fixedVars, mDisableLANSignaling, blocked,
                   lastSend>>

-----------------------------------------------------------------------------
(* Packets, on the LAN thread.                                             *)

LanIdle == inserting = None

\* Mutant: a known peer's record is only refreshed.
OnPacketKnownRefresh(id, addr) ==
    /\ LanIdle /\ mPeerRecordTable[id] # None
    /\ PurgeExclusive
    /\ mPeerRecordTable' = [mPeerRecordTable EXCEPT ![id].last = now]
    /\ heard' = [heard EXCEPT ![id] = addr]
    /\ UNCHANGED <<now, inserting, networkVars, fixedVars, mDisableLANSignaling,
                   lanTasks, blocked, lastSend>>

\* OnPacket with a response or a message of a peer that has a record.  Requests
\* (packet id 0), packets without a sender and malformed ones change nothing.
OnPacketKnown(id, addr) ==
    /\ LanIdle /\ mPeerRecordTable[id] # None
    /\ PurgeExclusive
    /\ mPeerRecordTable' = [mPeerRecordTable EXCEPT ![id] = [addr |-> addr, last |-> now]]
    /\ heard' = [heard EXCEPT ![id] = addr]
    /\ UNCHANGED <<now, inserting, networkVars, fixedVars, mDisableLANSignaling,
                   lanTasks, blocked, lastSend>>

\* Mutant: a packet without a sender is not refused.
OnPacketNewAnonymous(id, addr) ==
    /\ LanIdle /\ mPeerRecordTable[id] = None /\ Room
    /\ PurgeExclusive
    /\ \E sender \in {id, None} : inserting' = [id |-> sender, addr |-> addr]
    /\ UNCHANGED <<now, mPeerRecordTable, heard, networkVars, fixedVars,
                   mDisableLANSignaling, lanTasks, blocked, lastSend>>

\* The same for a peer without one: the insertion begins,
OnPacketNew(id, addr) ==
    /\ LanIdle /\ mPeerRecordTable[id] = None /\ Room
    /\ PurgeExclusive
    /\ inserting' = [id |-> id, addr |-> addr]
    /\ UNCHANGED <<now, mPeerRecordTable, heard, networkVars, fixedVars,
                   mDisableLANSignaling, lanTasks, blocked, lastSend>>

\* and ends, and the ping is posted.  The id of the peer heard is a witness: the
\* task does not know it.
InsertRecord ==
    /\ inserting # None
    /\ mPeerRecordTable' =
         [mPeerRecordTable EXCEPT ![inserting.id] = [addr |-> inserting.addr, last |-> now]]
    /\ heard' = [heard EXCEPT ![inserting.id] = inserting.addr]
    /\ inserting' = None
    /\ lanTasks' = Append(lanTasks, [op |-> "ping", arg |-> inserting.id])
    /\ UNCHANGED <<now, mExclusiveTable, networkVars, fixedVars, mDisableLANSignaling,
                   blocked, lastSend>>

-----------------------------------------------------------------------------
(* Tasks of the LAN thread.                                                *)

Running(op) == LanIdle /\ lanTasks # <<>> /\ Head(lanTasks).op = op

\* Mutant: the broadcast task is started only where the call was made.
EnableTaskOnly ==
    /\ Running("enable") /\ lanTasks' = Tail(lanTasks)
    /\ UNCHANGED <<now, tableVars, mExclusiveTable, networkVars, fixedVars,
                   mDisableLANSignaling, blocked, lastSend>>

\* The id is logged as added and is not added; another BroadcastTask starts.
EnableTask ==
    /\ Running("enable")
    /\ lanTasks' = Append(Tail(lanTasks), [op |-> "broadcast", arg |-> None])
    /\ UNCHANGED <<now, tableVars, mExclusiveTable, networkVars, fixedVars,
                   mDisableLANSignaling, blocked, lastSend>>

\* Mutant: what is still queued is dropped with the discovery.
DisableTaskClearing ==
    /\ Running("disable") /\ lanTasks' = <<>>
    /\ \E id \in Ids : mIds' = mIds \ {id}
    /\ UNCHANGED <<now, tableVars, mExclusiveTable, mBasicNetworkMgr, mDiscoveredAddresses,
                   requests, fixedVars, mDisableLANSignaling, blocked, lastSend>>

DisableTask ==
    /\ Running("disable") /\ lanTasks' = Tail(lanTasks)
    /\ \E id \in Ids : mIds' = mIds \ {id}
    /\ UNCHANGED <<now, tableVars, mExclusiveTable, mBasicNetworkMgr, mDiscoveredAddresses,
                   requests, fixedVars, mDisableLANSignaling, blocked, lastSend>>

ShouldBeginNetworkDiscovery == mBasicNetworkMgr = "null"

\* Mutant: the task stays at the head of the queue.
BroadcastTaskFirst ==
    /\ Running("broadcast")
    /\ mBasicNetworkMgr' = IF ShouldBeginNetworkDiscovery THEN "live" ELSE mBasicNetworkMgr
    /\ requests' = requests \cup (mIds \X mDiscoveredAddresses)
    /\ UNCHANGED <<now, tableVars, mExclusiveTable, mIds, mDiscoveredAddresses, fixedVars,
                   mDisableLANSignaling, lanTasks, blocked, lastSend>>

\* Discovery of the networks if needed, the requests, and the task again.
BroadcastTask ==
    /\ Running("broadcast")
    /\ mBasicNetworkMgr' = IF ShouldBeginNetworkDiscovery THEN "live" ELSE mBasicNetworkMgr
    /\ requests' = requests \cup (mIds \X mDiscoveredAddresses)
    /\ lanTasks' = Append(Tail(lanTasks), Head(lanTasks))
    /\ UNCHANGED <<now, tableVars, mExclusiveTable, mIds, mDiscoveredAddresses, fixedVars,
                   mDisableLANSignaling, blocked, lastSend>>

QueryTask ==
    /\ Running("query") /\ lanTasks' = Tail(lanTasks)
    /\ blocked' = blocked \ {Head(lanTasks).arg}
    /\ UNCHANGED <<now, tableVars, mExclusiveTable, networkVars, fixedVars,
                   mDisableLANSignaling, lastSend>>

\* SendSignalingMessageTo on the LAN thread.  SendToHelper sends the message to the
\* address as it is, or mapped to IPv6, or both: one message here.
SendSignalingMessageTo(dst) ==
    LET record == Find(dst)  known == record # None
    IN lastSend' = [meant |-> Head(lanTasks).arg, dst |-> dst, latest |-> heard[dst],
                    addr |-> IF known THEN record.addr ELSE None,
                    age |-> IF known THEN now - record.last ELSE 0]

\* The ping goes to mRemoteId, whichever peer was heard.
PingTask ==
    /\ Running("ping") /\ lanTasks' = Tail(lanTasks)
    /\ PurgeExclusive
    /\ SendSignalingMessageTo(mRemoteId)
    /\ UNCHANGED <<now, tableVars, networkVars, fixedVars, mDisableLANSignaling, blocked>>

SendTask ==
    /\ Running("send") /\ lanTasks' = Tail(lanTasks)
    /\ PurgeExclusive
    /\ \E dst \in Ids : SendSignalingMessageTo(dst)
    /\ UNCHANGED <<now, tableVars, networkVars, fixedVars, mDisableLANSignaling, blocked>>

RunTask == EnableTask \/ DisableTask \/ BroadcastTask \/ QueryTask \/ PingTask \/ SendTask

\* NetworkManagerBase::GetAnyAddressNetworks: the two wildcard networks, in order.
AnyAddressNetworks == <<"0.0.0.0", "::">>

\* What an address contributes to the broadcast domain.  The mask that should
\* turn an IPv4 address into its broadcast address is built from ipv6_flags,
\* which is 0: the address stays as it is.
BroadcastDomain(ip) ==
    IF ip = "0.0.0.0" THEN {ip} ELSE IF bindFamily = 6 THEN {"FF02::1"} ELSE {}

\* The list is swapped in and cleared once per network, so the last one decides.
OnNetworkDiscoveryComplete ==
    /\ LanIdle /\ mBasicNetworkMgr = "live"
    /\ mDiscoveredAddresses' = BroadcastDomain(AnyAddressNetworks[Len(AnyAddressNetworks)])
    /\ UNCHANGED <<now, tableVars, mExclusiveTable, mIds, mBasicNetworkMgr, requests,
                   fixedVars, mDisableLANSignaling, lanTasks, blocked, lastSend>>

Tick ==
    /\ now < MaxTime /\ now' = now + 1
    /\ UNCHANGED <<tableVars, mExclusiveTable, networkVars, fixedVars, mDisableLANSignaling,
                   lanTasks, blocked, lastSend>>

Next ==
    \/ EnableSignalingOverLAN \/ DisableSignalingOverLAN
    \/ EnableBroadcastDiscovery \/ DisableBroadcastDiscovery
    \/ \E c \in Callers : \/ IsBroadcastDiscoveryEnabled(c)
                          \/ \E id \in Ids : SendToSignalingChannel(c, id)
    \/ \E id \in Ids, addr \in Addrs : OnPacketKnown(id, addr) \/ OnPacketNew(id, addr)
    \/ InsertRecord \/ RunTask \/ OnNetworkDiscoveryComplete \/ Tick

\* The LAN thread keeps running: it finishes what it began and takes the next task.
Spec == Init /\ [][Next]_vars /\ WF_vars(InsertRecord) /\ WF_vars(RunTask)

-----------------------------------------------------------------------------
(* Properties.                                                             *)

\* The types of the variables.
FixedTypes ==
    now \in 0..MaxTime /\ mRemoteId \in Ids /\ bindFamily \in Families
TableTypes ==
    /\ mPeerRecordTable \in Table /\ mExclusiveTable \in Table
    /\ inserting \in Insertions \cup {None}
    /\ heard \in [Ids -> Addrs \cup {None}]
NetworkTypes ==
    /\ mIds \subseteq Ids /\ mBasicNetworkMgr \in {"null", "live"}
    /\ mDiscoveredAddresses \subseteq {"0.0.0.0", "FF02::1"}
    /\ requests \subseteq Ids \X {"0.0.0.0", "FF02::1"}
    /\ mDisableLANSignaling \in BOOLEAN
QueueTypes == lanTasks \in Seq(Tasks) /\ blocked \subseteq Callers

\* Every variable stays in its type.
TypeOK ==
    FixedTypes /\ TableTypes /\ NetworkTypes /\ QueueTypes /\ lastSend \in Messages

\* Whatever arrives between the call and the task, a message goes to the address
\* its peer was last heard from.
SentToLatestAddress == lastSend.addr # None => lastSend.addr = lastSend.latest

\* A message accepted because its peer was on the LAN, or a ping posted because its
\* peer was new, is not dropped as one for an unknown peer when the LAN thread gets
\* to it, unless it has lost its destination.
CheckedPeerIsFound ==
    lastSend.meant # None /\ lastSend.meant = lastSend.dst => lastSend.addr # None

\* Where the query of caller c stands in the queue.
QueryOf(c) == {i \in 1..Len(lanTasks) : lanTasks[i] = [op |-> "query", arg |-> c]}

\* A caller waits in BlockingCall exactly as long as its one query is queued: no
\* caller waits for a task that is gone, and no task refers to the frame of a caller
\* that has gone on.
WaitersQueued ==
    \A c \in Callers :
        /\ c \in blocked <=> QueryOf(c) # {}
        /\ \A i, j \in QueryOf(c) : i = j

\* No task overtakes a waiting query, the broadcast tasks that requeue themselves
\* included: with every task that runs the query moves up, and the first is answered.
QueryMovesUp ==
    [][\A c \in Callers : \A i \in QueryOf(c) :
            IF RunTask THEN IF i = 1 THEN c \notin blocked' ELSE i - 1 \in QueryOf(c)'
                       ELSE i \in QueryOf(c)']_vars

\* The places in the queue whose tasks broadcast, or will start to.
Broadcasts == {i \in 1..Len(lanTasks) : lanTasks[i].op \in {"enable", "broadcast"}}

\* Discovery that was enabled goes on for ever: a broadcast task is back in the queue
\* before the thread takes another task, and no task, that of DisableBroadcastDiscovery
\* included, ends it.  So each call of EnableBroadcastDiscovery adds one for good.
BroadcastsKept == [][Cardinality(Broadcasts) <= Cardinality(Broadcasts')]_vars

\* A caller of IsBroadcastDiscoveryEnabled gets its answer although the broadcast
\* tasks put themselves back into the queue for ever.
QueryAnswered == \A c \in Callers : (c \in blocked) ~> (c \notin blocked)

\* Enabling discovery from any thread ends in a search for networks.
DiscoveryStarts ==
    (\E i \in 1..Len(lanTasks) : lanTasks[i].op = "enable") ~> (mBasicNetworkMgr = "live")

\* What the log of RemoveExpiredRecords says: a peer "inactive for" more than 60
\* seconds is removed, so no message is sent to it.
ExpiredPeerForgotten == lastSend.age <= Expiry
=============================================================================
