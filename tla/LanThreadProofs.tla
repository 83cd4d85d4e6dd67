-------------------------- MODULE LanThreadProofs --------------------------
(***************************************************************************)
(* Theorems about LanThread, for every value of its constants.             *)
(***************************************************************************)
EXTENDS LanThread, FiniteSetTheorems, SequenceTheorems, TLAPS

\* No record is younger than the clock.
RecordsInThePast ==
    \A id \in Ids : mPeerRecordTable[id] # None => mPeerRecordTable[id].last <= now

\* Types are kept only together with RecordsInThePast, which bounds the age of the
\* record a message is sent by.
TypeInv == TypeOK /\ RecordsInThePast

\* Posting and running a task keep the queue in its type.
LEMMA PostType ==
    ASSUME QueueTypes, NEW op, NEW arg, [op |-> op, arg |-> arg] \in Tasks,
           lanTasks' = Append(lanTasks, [op |-> op, arg |-> arg])
    PROVE  lanTasks' \in Seq(Tasks)
BY DEF QueueTypes

LEMMA TailType ==
    ASSUME QueueTypes, NEW op, Running(op)
    PROVE  /\ Head(lanTasks) \in Tasks /\ Tail(lanTasks) \in Seq(Tasks)
BY DEF QueueTypes, Running

\* RemoveExpiredRecords returns a table.
LEMMA PurgeType ==
    ASSUME TableTypes, PurgeExclusive
    PROVE  mExclusiveTable' \in Table
BY DEF TableTypes, PurgeExclusive, RemoveExpiredRecords, Table

\* What SendSignalingMessageTo leaves is a message.
LEMMA MessageType ==
    ASSUME TypeInv, NEW op \in {"send", "ping"}, Running(op), NEW dst \in Ids,
           SendSignalingMessageTo(dst)
    PROVE  lastSend' \in Messages
<1>0. Head(lanTasks).op = op /\ Head(lanTasks).arg \in Ids
  BY TailType DEF Running, Tasks, TypeInv, TypeOK
<1>1. CASE mPeerRecordTable[dst] = None
  <2>1. heard[dst] \in Addrs \cup {None} /\ 0 \in 0..MaxTime
    BY LanConstants DEF TypeInv, TypeOK, TableTypes
  <2> QED
    BY <1>0, <1>1, <2>1 DEF SendSignalingMessageTo, Find, Messages
<1>2. CASE mPeerRecordTable[dst] # None
  <2>1. /\ mPeerRecordTable[dst] \in Records /\ mPeerRecordTable[dst].last <= now
        /\ heard[dst] \in Addrs \cup {None}
    BY <1>2 DEF TypeInv, TypeOK, TableTypes, Table, RecordsInThePast
  <2>2. now - mPeerRecordTable[dst].last \in 0..MaxTime
    BY <2>1, LanConstants DEF Records, TypeInv, TypeOK, FixedTypes
  <2> QED
    BY <1>0, <1>2, <2>1, <2>2 DEF SendSignalingMessageTo, Find, Messages, Records
<1> QED
  BY <1>1, <1>2

\* Every handler and task of the LAN thread keeps every variable in its type.
THEOREM LanTypeInvariant == Spec => []TypeInv
<1> USE LanConstants
<1>1. Init => TypeInv
  <2> SUFFICES ASSUME Init PROVE TypeInv
    OBVIOUS
  <2>1. FixedTypes /\ NetworkTypes /\ lastSend \in Messages
    BY DEF Init, FixedTypes, NetworkTypes, Messages, NothingSent
  <2>2. QueueTypes
    BY DEF Init, QueueTypes
  <2>3. TableTypes /\ RecordsInThePast
    BY DEF Init, TableTypes, RecordsInThePast, Table
  <2> QED
    BY <2>1, <2>2, <2>3 DEF TypeInv, TypeOK
<1>2. TypeInv /\ [Next]_vars => TypeInv'
  <2> SUFFICES ASSUME TypeInv, [Next]_vars PROVE TypeInv'
    OBVIOUS
  <2> USE DEF TypeInv, TypeOK, tableVars, networkVars, fixedVars
  <2>1. CASE EnableSignalingOverLAN
    BY <2>1 DEF EnableSignalingOverLAN, FixedTypes, TableTypes, NetworkTypes, QueueTypes,
       RecordsInThePast
  <2>2. CASE DisableSignalingOverLAN
    BY <2>2 DEF DisableSignalingOverLAN, FixedTypes, TableTypes, NetworkTypes, QueueTypes,
       RecordsInThePast
  <2>3. CASE EnableBroadcastDiscovery
    <3>1. lanTasks' \in Seq(Tasks)
      BY <2>3, PostType DEF EnableBroadcastDiscovery, PostTask, Tasks
    <3> QED
      BY <2>3, <3>1 DEF EnableBroadcastDiscovery, FixedTypes, TableTypes, NetworkTypes, QueueTypes,
         RecordsInThePast
  <2>4. CASE DisableBroadcastDiscovery
    <3>1. lanTasks' \in Seq(Tasks)
      BY <2>4, PostType DEF DisableBroadcastDiscovery, PostTask, Tasks
    <3> QED
      BY <2>4, <3>1 DEF DisableBroadcastDiscovery, FixedTypes, TableTypes, NetworkTypes, QueueTypes,
         RecordsInThePast
  <2>5. ASSUME NEW c \in Callers, IsBroadcastDiscoveryEnabled(c) PROVE TypeInv'
    <3>1. lanTasks' \in Seq(Tasks)
      BY <2>5, PostType DEF IsBroadcastDiscoveryEnabled, PostTask, Tasks
    <3> QED
      BY <2>5, <3>1 DEF IsBroadcastDiscoveryEnabled, FixedTypes, TableTypes, NetworkTypes,
         QueueTypes, RecordsInThePast
  <2>6. ASSUME NEW c \in Callers, NEW id \in Ids, SendToSignalingChannel(c, id)
        PROVE  TypeInv'
    <3>1. mExclusiveTable' \in Table
      BY <2>6, PurgeType DEF SendToSignalingChannel
    <3>2. lanTasks' \in Seq(Tasks)
      BY <2>6, PostType DEF SendToSignalingChannel, PostTask, QueueTypes, Tasks
    <3> QED
      BY <2>6, <3>1, <3>2 DEF SendToSignalingChannel, FixedTypes, TableTypes, NetworkTypes,
         QueueTypes, RecordsInThePast
  <2>7. ASSUME NEW id \in Ids, NEW addr \in Addrs, OnPacketKnown(id, addr) PROVE TypeInv'
    <3>1. mExclusiveTable' \in Table
      BY <2>7, PurgeType DEF OnPacketKnown
    <3>2. [addr |-> addr, last |-> now] \in Records /\ now <= now
      BY DEF Records, FixedTypes
    <3>3. /\ mPeerRecordTable' \in Table /\ RecordsInThePast'
          /\ heard' \in [Ids -> Addrs \cup {None}]
      BY <2>7, <3>2 DEF OnPacketKnown, TableTypes, Table, RecordsInThePast
    <3> QED
      BY <2>7, <3>1, <3>3 DEF OnPacketKnown, FixedTypes, TableTypes, NetworkTypes, QueueTypes
  <2>8. ASSUME NEW id \in Ids, NEW addr \in Addrs, OnPacketNew(id, addr) PROVE TypeInv'
    <3>1. mExclusiveTable' \in Table
      BY <2>8, PurgeType DEF OnPacketNew
    <3> QED
      BY <2>8, <3>1 DEF OnPacketNew, Insertions, FixedTypes, TableTypes, NetworkTypes,
         QueueTypes, RecordsInThePast
  <2>9. CASE InsertRecord
    <3>1. inserting \in Insertions
      BY <2>9 DEF InsertRecord, TableTypes
    <3>2. [addr |-> inserting.addr, last |-> now] \in Records /\ now <= now
      BY <3>1 DEF Records, Insertions, FixedTypes
    <3>3. /\ mPeerRecordTable' \in Table /\ RecordsInThePast'
          /\ heard' \in [Ids -> Addrs \cup {None}]
      BY <2>9, <3>1, <3>2 DEF InsertRecord, TableTypes, Table, RecordsInThePast, Insertions
    <3>a. [op |-> "ping", arg |-> inserting.id] \in Tasks
      BY <3>1 DEF Insertions, Tasks
    <3>4. lanTasks' \in Seq(Tasks)
      BY <2>9, <3>a, PostType DEF InsertRecord
    <3> QED
      BY <2>9, <3>3, <3>4 DEF InsertRecord, FixedTypes, TableTypes, NetworkTypes, QueueTypes
  <2>10. CASE EnableTask
    <3>1. [op |-> "broadcast", arg |-> None] \in Tasks
      BY DEF Tasks
    <3>2. lanTasks' \in Seq(Tasks)
      BY <2>10, <3>1, TailType DEF EnableTask
    <3> QED
      BY <2>10, <3>2 DEF EnableTask, FixedTypes, TableTypes, NetworkTypes, QueueTypes,
         RecordsInThePast
  <2>11. CASE DisableTask
    <3>1. lanTasks' \in Seq(Tasks)
      BY <2>11, TailType DEF DisableTask
    <3> QED
      BY <2>11, <3>1 DEF DisableTask, FixedTypes, TableTypes, NetworkTypes, QueueTypes,
         RecordsInThePast
  <2>12. CASE BroadcastTask
    <3>1. lanTasks' \in Seq(Tasks)
      BY <2>12, TailType DEF BroadcastTask
    <3> QED
      BY <2>12, <3>1 DEF BroadcastTask, FixedTypes, TableTypes, NetworkTypes, QueueTypes,
         RecordsInThePast
  <2>13. CASE QueryTask
    <3>1. lanTasks' \in Seq(Tasks)
      BY <2>13, TailType DEF QueryTask
    <3> QED
      BY <2>13, <3>1 DEF QueryTask, FixedTypes, TableTypes, NetworkTypes, QueueTypes,
         RecordsInThePast
  <2>14. CASE PingTask
    <3>1. mExclusiveTable' \in Table
      BY <2>14, PurgeType DEF PingTask
    <3>2. lanTasks' \in Seq(Tasks)
      BY <2>14, TailType DEF PingTask
    <3>3. lastSend' \in Messages
      BY <2>14, MessageType DEF PingTask, FixedTypes
    <3> QED
      BY <2>14, <3>1, <3>2, <3>3 DEF PingTask, FixedTypes, TableTypes, NetworkTypes,
         QueueTypes, RecordsInThePast
  <2>15. CASE SendTask
    <3>1. mExclusiveTable' \in Table
      BY <2>15, PurgeType DEF SendTask
    <3>2. lanTasks' \in Seq(Tasks)
      BY <2>15, TailType DEF SendTask
    <3>3. lastSend' \in Messages
      BY <2>15, MessageType DEF SendTask
    <3> QED
      BY <2>15, <3>1, <3>2, <3>3 DEF SendTask, FixedTypes, TableTypes, NetworkTypes,
         QueueTypes, RecordsInThePast
  <2>16. CASE OnNetworkDiscoveryComplete
    BY <2>16 DEF OnNetworkDiscoveryComplete, BroadcastDomain, FixedTypes, TableTypes,
       NetworkTypes, QueueTypes, RecordsInThePast
  <2>17. CASE Tick
    <3>1. now' \in 0..MaxTime /\ now <= now'
      BY <2>17 DEF Tick, FixedTypes
    <3>2. RecordsInThePast'
      BY <2>17, <3>1 DEF Tick, RecordsInThePast, TableTypes, Table, Records, FixedTypes
    <3> QED
      BY <2>17, <3>1, <3>2 DEF Tick, FixedTypes, TableTypes, NetworkTypes, QueueTypes
  <2>18. CASE UNCHANGED vars
    BY <2>18 DEF vars, FixedTypes, TableTypes, NetworkTypes, QueueTypes, RecordsInThePast
  <2> QED
    BY <2>1, <2>2, <2>3, <2>4, <2>5, <2>6, <2>7, <2>8, <2>9, <2>10, <2>11, <2>12, <2>13,
       <2>14, <2>15, <2>16, <2>17, <2>18 DEF Next, RunTask
<1> QED
  BY <1>1, <1>2, PTL DEF Spec

\* Every variable of the LAN thread stays in its type.
THEOREM LanTypeCorrect == Spec => []TypeOK
<1>1. TypeInv => TypeOK
  BY DEF TypeInv
<1> QED
  BY <1>1, LanTypeInvariant, PTL

-----------------------------------------------------------------------------
(* Messages: addresses, and peers that were checked before.                *)

\* A peer with a record, or about to have one.
Known(id) == mPeerRecordTable[id] # None \/ (inserting # None /\ inserting.id = id)

\* A record holds the address its peer was last heard from.
RecordsAreLatest ==
    \A id \in Ids : mPeerRecordTable[id] # None => heard[id] = mPeerRecordTable[id].addr

\* A queued message or ping was posted for a peer that is known now as it was then.
QueuedPeersKnown ==
    \A i \in 1..Len(lanTasks) :
        lanTasks[i].op \in {"send", "ping"} => Known(lanTasks[i].arg)

\* The inductive invariant behind the theorems about messages.
MessageInv ==
    /\ RecordsAreLatest /\ QueuedPeersKnown
    /\ SentToLatestAddress /\ CheckedPeerIsFound

\* Posting a task keeps the queue, if a message is for a known peer.
LEMMA PostKeepsPeers ==
    ASSUME QueueTypes, QueuedPeersKnown, NEW task \in Tasks,
           task.op \in {"send", "ping"} => Known(task.arg),
           lanTasks' = Append(lanTasks, task),
           \A id \in Ids : Known(id) => Known(id)'
    PROVE  QueuedPeersKnown'
<1>1. /\ Len(lanTasks') = Len(lanTasks) + 1 /\ lanTasks'[Len(lanTasks) + 1] = task
      /\ \A i \in 1..Len(lanTasks) : lanTasks'[i] = lanTasks[i]
      /\ Len(lanTasks) \in Nat
  BY DEF QueueTypes
<1>2. \A t \in Tasks : t.op \in {"send", "ping"} => t.arg \in Ids
  BY DEF Tasks
<1>3. \A i \in 1..Len(lanTasks) : lanTasks[i] \in Tasks
  BY DEF QueueTypes
<1> QED
  BY <1>1, <1>2, <1>3 DEF QueuedPeersKnown

\* So does taking one from its head,
LEMMA RunKeepsPeers ==
    ASSUME QueueTypes, QueuedPeersKnown, NEW op, Running(op), lanTasks' = Tail(lanTasks),
           UNCHANGED <<mPeerRecordTable, inserting>>
    PROVE  QueuedPeersKnown'
<1>1. /\ Len(lanTasks') = Len(lanTasks) - 1 /\ Len(lanTasks) \in Nat \ {0}
      /\ \A i \in 1..Len(lanTasks') : lanTasks'[i] = lanTasks[i + 1]
  BY DEF QueueTypes, Running
<1> QED
  BY <1>1 DEF QueuedPeersKnown, Known

\* and taking one and posting another that is no message.
LEMMA RequeueKeepsPeers ==
    ASSUME QueueTypes, QueuedPeersKnown, NEW op, Running(op), NEW task \in Tasks,
           task.op \notin {"send", "ping"}, lanTasks' = Append(Tail(lanTasks), task),
           UNCHANGED <<mPeerRecordTable, inserting>>
    PROVE  QueuedPeersKnown'
<1>0. Len(lanTasks) \in Nat \ {0}
  BY DEF QueueTypes, Running
<1>1. /\ Len(Tail(lanTasks)) = Len(lanTasks) - 1 /\ Len(lanTasks) \in Nat \ {0}
      /\ \A i \in 1..Len(Tail(lanTasks)) : Tail(lanTasks)[i] = lanTasks[i + 1]
      /\ Tail(lanTasks) \in Seq(Tasks)
  BY DEF QueueTypes, Running
<1>2. /\ Len(lanTasks') = Len(lanTasks) /\ lanTasks'[Len(lanTasks)] = task
      /\ \A i \in 1..(Len(lanTasks) - 1) : lanTasks'[i] = lanTasks[i + 1]
  BY <1>1
<1>3. ASSUME NEW i \in 1..Len(lanTasks), lanTasks'[i].op \in {"send", "ping"}
      PROVE  \/ mPeerRecordTable[lanTasks'[i].arg] # None
             \/ inserting # None /\ inserting.id = lanTasks'[i].arg
  <2>1. i # Len(lanTasks)
    BY <1>2, <1>3
  <2>2. i \in 1..(Len(lanTasks) - 1) /\ i + 1 \in 1..Len(lanTasks)
    BY <1>0, <2>1
  <2>3. lanTasks'[i] = lanTasks[i + 1]
    BY <1>2, <2>2
  <2> QED
    BY <1>3, <2>2, <2>3 DEF QueuedPeersKnown, Known
<1> QED
  BY <1>2, <1>3 DEF QueuedPeersKnown, Known

\* A message is sent by the record, to the latest address, and is dropped only for an
\* unknown peer.
LEMMA SendKeepsMessages ==
    ASSUME TypeInv, RecordsAreLatest, QueuedPeersKnown, NEW op \in {"send", "ping"},
           Running(op), NEW dst \in Ids, SendSignalingMessageTo(dst)
    PROVE  SentToLatestAddress' /\ CheckedPeerIsFound'
<1>1. mPeerRecordTable[dst] # None => mPeerRecordTable[dst].addr \in Addrs
  BY DEF TypeInv, TypeOK, TableTypes, Table, Records
<1>2. /\ lastSend'.meant = Head(lanTasks).arg /\ lastSend'.dst = dst
      /\ lastSend'.latest = heard[dst]
      /\ lastSend'.addr = IF mPeerRecordTable[dst] # None
                          THEN mPeerRecordTable[dst].addr ELSE None
  BY DEF SendSignalingMessageTo, Find
<1>3. SentToLatestAddress'
  BY <1>2 DEF SentToLatestAddress, RecordsAreLatest
<1>4. Head(lanTasks) = lanTasks[1] /\ 1 \in 1..Len(lanTasks)
  BY DEF TypeInv, TypeOK, QueueTypes, Running
<1>5. Known(Head(lanTasks).arg) /\ LanIdle
  BY <1>4 DEF QueuedPeersKnown, Running
<1>6. CheckedPeerIsFound'
  BY <1>1, <1>2, <1>5, LanConstants DEF CheckedPeerIsFound, Known, LanIdle
<1> QED
  BY <1>3, <1>6

\* Every step keeps the facts about messages.
THEOREM MessageInvariant == Spec => []MessageInv
<1> USE LanConstants
<1>1. Init => MessageInv
  BY DEF Init, MessageInv, RecordsAreLatest, QueuedPeersKnown, SentToLatestAddress,
     CheckedPeerIsFound, NothingSent
<1>2. TypeInv /\ MessageInv /\ [Next]_vars => MessageInv'
  <2> SUFFICES ASSUME TypeInv, MessageInv, [Next]_vars PROVE MessageInv'
    OBVIOUS
  <2> USE DEF MessageInv, tableVars, networkVars, fixedVars
  <2>a. QueueTypes /\ TableTypes /\ mRemoteId \in Ids
    BY DEF TypeInv, TypeOK, FixedTypes
  <2>b. ASSUME UNCHANGED lastSend
        PROVE  SentToLatestAddress' /\ CheckedPeerIsFound'
    BY <2>b DEF SentToLatestAddress, CheckedPeerIsFound
  <2>c. ASSUME UNCHANGED <<mPeerRecordTable, inserting, heard>>
        PROVE  RecordsAreLatest' /\ (\A id \in Ids : Known(id) => Known(id)')
    BY <2>c DEF RecordsAreLatest, Known
  <2>d. ASSUME UNCHANGED <<mPeerRecordTable, inserting, lanTasks>> PROVE QueuedPeersKnown'
    BY <2>d DEF QueuedPeersKnown, Known
  <2>1. CASE EnableSignalingOverLAN \/ DisableSignalingOverLAN
    BY <2>1, <2>b, <2>c, <2>d DEF EnableSignalingOverLAN, DisableSignalingOverLAN
  <2>2. CASE EnableBroadcastDiscovery \/ DisableBroadcastDiscovery
    <3>1. PICK op \in {"enable", "disable"} :
            lanTasks' = Append(lanTasks, [op |-> op, arg |-> None])
      BY <2>2 DEF EnableBroadcastDiscovery, DisableBroadcastDiscovery, PostTask
    <3>2. [op |-> op, arg |-> None] \in Tasks
      BY DEF Tasks
    <3>3. UNCHANGED <<mPeerRecordTable, inserting, heard, lastSend>>
      BY <2>2 DEF EnableBroadcastDiscovery, DisableBroadcastDiscovery
    <3>4. QueuedPeersKnown'
      BY <2>a, <2>c, <3>1, <3>2, <3>3, PostKeepsPeers
    <3> QED
      BY <2>b, <2>c, <3>3, <3>4
  <2>3. ASSUME NEW c \in Callers, IsBroadcastDiscoveryEnabled(c) PROVE MessageInv'
    <3>1. /\ lanTasks' = Append(lanTasks, [op |-> "query", arg |-> c])
          /\ UNCHANGED <<mPeerRecordTable, inserting, heard, lastSend>>
      BY <2>3 DEF IsBroadcastDiscoveryEnabled, PostTask
    <3>2. [op |-> "query", arg |-> c] \in Tasks
      BY DEF Tasks
    <3>3. QueuedPeersKnown'
      BY <2>a, <2>c, <3>1, <3>2, PostKeepsPeers
    <3> QED
      BY <2>b, <2>c, <3>1, <3>3
  <2>4. ASSUME NEW c \in Callers, NEW id \in Ids, SendToSignalingChannel(c, id)
        PROVE  MessageInv'
    <3>1. UNCHANGED <<mPeerRecordTable, inserting, heard, lastSend>>
      BY <2>4 DEF SendToSignalingChannel
    <3>2. CASE lanTasks' = lanTasks
      BY <2>b, <2>c, <2>d, <3>1, <3>2
    <3>3. CASE TRUE \in Contains(id) /\ PostTask("send", id)
      <4>1. Known(id)
        BY <3>3 DEF Contains, Known
      <4>2. [op |-> "send", arg |-> id] \in Tasks
        BY DEF Tasks
      <4>3. QueuedPeersKnown'
        BY <2>a, <2>c, <3>1, <3>3, <4>1, <4>2, PostKeepsPeers DEF PostTask
      <4> QED
        BY <2>b, <2>c, <3>1, <4>3
    <3>4. lanTasks' = lanTasks \/ (TRUE \in Contains(id) /\ PostTask("send", id))
      <4>1. PICK onLan \in Contains(id) :
              \/ onLan /\ PostTask("send", id)
              \/ UNCHANGED lanTasks
        BY <2>4 DEF SendToSignalingChannel
      <4>2. onLan \in BOOLEAN
        BY <4>1 DEF Contains
      <4> QED
        BY <4>1, <4>2
    <3> QED
      BY <3>2, <3>3, <3>4
  <2>5. ASSUME NEW id \in Ids, NEW addr \in Addrs, OnPacketKnown(id, addr) PROVE MessageInv'
    <3>1. [addr |-> addr, last |-> now] \in Records
      BY DEF Records, TypeInv, TypeOK, FixedTypes
    <3>2. RecordsAreLatest' /\ QueuedPeersKnown'
      <4>1. /\ mPeerRecordTable' \in [Ids -> Records \cup {None}]
            /\ mPeerRecordTable'[id] = [addr |-> addr, last |-> now] /\ heard'[id] = addr
            /\ \A j \in Ids \ {id} : /\ mPeerRecordTable'[j] = mPeerRecordTable[j]
                                    /\ heard'[j] = heard[j]
        BY <2>5, <2>a, <3>1 DEF OnPacketKnown, TableTypes, Table
      <4>2. RecordsAreLatest'
        BY <4>1 DEF RecordsAreLatest
      <4>3. \A j \in Ids : Known(j) => Known(j)'
        BY <2>5, <3>1, <4>1 DEF Known, OnPacketKnown
      <4>4. \A i \in 1..Len(lanTasks) : lanTasks[i].op \in {"send", "ping"} => lanTasks[i].arg \in Ids
        BY <2>a DEF QueueTypes, Tasks
      <4>5. QueuedPeersKnown'
        BY <2>5, <4>3, <4>4 DEF QueuedPeersKnown, OnPacketKnown
      <4> QED
        BY <4>2, <4>5
    <3> QED
      BY <2>5, <2>b, <3>2 DEF OnPacketKnown
  <2>6. ASSUME NEW id \in Ids, NEW addr \in Addrs, OnPacketNew(id, addr) PROVE MessageInv'
    <3>1. RecordsAreLatest' /\ QueuedPeersKnown'
      BY <2>6 DEF OnPacketNew, RecordsAreLatest, QueuedPeersKnown, Known, LanIdle
    <3> QED
      BY <2>6, <2>b, <3>1 DEF OnPacketNew
  <2>7. CASE InsertRecord
    <3>1. inserting \in Insertions
      BY <2>7, <2>a DEF InsertRecord, TableTypes
    <3>2. [addr |-> inserting.addr, last |-> now] \in Records /\ inserting.id \in Ids
      BY <3>1 DEF Records, Insertions, TypeInv, TypeOK, FixedTypes
    <3>3. /\ mPeerRecordTable'[inserting.id] = [addr |-> inserting.addr, last |-> now]
          /\ heard'[inserting.id] = inserting.addr
          /\ \A j \in Ids \ {inserting.id} : /\ mPeerRecordTable'[j] = mPeerRecordTable[j]
                                             /\ heard'[j] = heard[j]
      BY <2>7, <2>a, <3>2 DEF InsertRecord, TableTypes, Table
    <3>4. RecordsAreLatest'
      BY <3>2, <3>3 DEF RecordsAreLatest
    <3>5. \A j \in Ids : Known(j) => Known(j)'
      BY <2>7, <3>2, <3>3 DEF Known, InsertRecord
    <3>p. PICK id \in Ids : inserting.id = id
      BY <3>2
    <3>6. [op |-> "ping", arg |-> id] \in Tasks /\ Known(id)
      BY <2>7, <3>p DEF Tasks, Known, InsertRecord
    <3>7. QueuedPeersKnown'
      BY <2>7, <2>a, <3>5, <3>6, <3>p, PostKeepsPeers DEF InsertRecord
    <3> QED
      BY <2>7, <2>b, <3>4, <3>7 DEF InsertRecord
  <2>8. CASE EnableTask \/ BroadcastTask
    <3>1. PICK task \in Tasks : /\ \E op : Running(op)
                              /\ task.op \notin {"send", "ping"}
                              /\ lanTasks' = Append(Tail(lanTasks), task)
      <4>1. [op |-> "broadcast", arg |-> None] \in Tasks
        BY DEF Tasks
      <4>2. BroadcastTask => Head(lanTasks) \in Tasks /\ Head(lanTasks).op = "broadcast"
        BY <2>a, TailType DEF BroadcastTask, Running
      <4> QED
        BY <2>8, <4>1, <4>2 DEF EnableTask, BroadcastTask
    <3>2. UNCHANGED <<mPeerRecordTable, inserting, heard, lastSend>>
      BY <2>8 DEF EnableTask, BroadcastTask
    <3>3. QueuedPeersKnown'
      BY <2>a, <3>1, <3>2, RequeueKeepsPeers
    <3> QED
      BY <2>b, <2>c, <3>2, <3>3
  <2>9. CASE DisableTask \/ QueryTask
    <3>1. /\ \E op : Running(op) /\ lanTasks' = Tail(lanTasks)
          /\ UNCHANGED <<mPeerRecordTable, inserting, heard, lastSend>>
      BY <2>9 DEF DisableTask, QueryTask
    <3>2. QueuedPeersKnown'
      BY <2>a, <3>1, RunKeepsPeers
    <3> QED
      BY <2>b, <2>c, <3>1, <3>2
  <2>10. CASE PingTask
    <3>1. /\ Running("ping") /\ lanTasks' = Tail(lanTasks) /\ LanIdle
          /\ UNCHANGED <<mPeerRecordTable, inserting, heard>>
      BY <2>10 DEF PingTask, Running
    <3>2. QueuedPeersKnown'
      BY <2>a, <3>1, RunKeepsPeers
    <3>3. SentToLatestAddress' /\ CheckedPeerIsFound'
      BY <2>10, <2>a, <3>1, SendKeepsMessages DEF PingTask
    <3> QED
      BY <2>c, <3>1, <3>2, <3>3
  <2>11. CASE SendTask
    <3>1. /\ Running("send") /\ lanTasks' = Tail(lanTasks) /\ LanIdle
          /\ UNCHANGED <<mPeerRecordTable, inserting, heard>>
      BY <2>11 DEF SendTask, Running
    <3>2. QueuedPeersKnown'
      BY <2>a, <3>1, RunKeepsPeers
    <3>3. SentToLatestAddress' /\ CheckedPeerIsFound'
      BY <2>11, <3>1, SendKeepsMessages DEF SendTask
    <3> QED
      BY <2>c, <3>1, <3>2, <3>3
  <2>12. CASE OnNetworkDiscoveryComplete \/ Tick
    BY <2>12, <2>b, <2>c, <2>d DEF OnNetworkDiscoveryComplete, Tick
  <2>13. CASE UNCHANGED vars
    BY <2>13, <2>b, <2>c, <2>d DEF vars
  <2> QED
    BY <2>1, <2>2, <2>3, <2>4, <2>5, <2>6, <2>7, <2>8, <2>9, <2>10, <2>11, <2>12, <2>13
       DEF Next, RunTask
<1> QED
  BY <1>1, <1>2, LanTypeInvariant, PTL DEF Spec

\* A peer that was on the LAN when the message was accepted, or new when the ping was
\* posted, is found by the task.
THEOREM CheckedPeer == Spec => []CheckedPeerIsFound
<1>1. MessageInv => CheckedPeerIsFound
  BY DEF MessageInv
<1> QED
  BY <1>1, MessageInvariant, PTL

\* Messages go to the latest address of their peer.
THEOREM LatestAddress == Spec => []SentToLatestAddress
<1>1. MessageInv => SentToLatestAddress
  BY DEF MessageInv
<1> QED
  BY <1>1, MessageInvariant, PTL

-----------------------------------------------------------------------------
(* Blocking calls.                                                         *)

Query(c) == [op |-> "query", arg |-> c]

\* The queries of a caller after a task is posted, run, or run and requeued.
LEMMA QueriesPosted ==
    ASSUME QueueTypes, NEW task, lanTasks' = Append(lanTasks, task), task \in Tasks
    PROVE  /\ Len(lanTasks) \in Nat
           /\ \A c : QueryOf(c)' = QueryOf(c) \cup (IF task = Query(c) THEN {Len(lanTasks) + 1} ELSE {})
<1>1. /\ Len(lanTasks) \in Nat /\ Len(lanTasks') = Len(lanTasks) + 1
      /\ \A i \in 1..Len(lanTasks) : lanTasks'[i] = lanTasks[i]
      /\ lanTasks'[Len(lanTasks) + 1] = task
  BY DEF QueueTypes
<1>2. 1..Len(lanTasks') = (1..Len(lanTasks)) \cup {Len(lanTasks) + 1}
  BY <1>1
<1>3. \A c : QueryOf(c)' = {i \in 1..Len(lanTasks') : lanTasks'[i] = Query(c)}
  BY DEF QueryOf, Query
<1>4. \A c : QueryOf(c) = {i \in 1..Len(lanTasks) : lanTasks[i] = Query(c)}
  BY DEF QueryOf, Query
<1>5. ASSUME NEW c
      PROVE  QueryOf(c)' = QueryOf(c) \cup (IF task = Query(c) THEN {Len(lanTasks) + 1} ELSE {})
  BY <1>1, <1>2, <1>3, <1>4
<1> QED
  BY <1>1, <1>5

LEMMA Requeued ==
    ASSUME QueueTypes, lanTasks # <<>>, NEW task \in Tasks, lanTasks' = Append(Tail(lanTasks), task)
    PROVE  /\ Len(lanTasks') = Len(lanTasks) /\ lanTasks'[Len(lanTasks)] = task
           /\ \A i \in 1..(Len(lanTasks) - 1) : lanTasks'[i] = lanTasks[i + 1]
<1>1. /\ Len(Tail(lanTasks)) = Len(lanTasks) - 1 /\ Len(lanTasks) \in Nat \ {0}
      /\ \A i \in 1..Len(Tail(lanTasks)) : Tail(lanTasks)[i] = lanTasks[i + 1]
      /\ Tail(lanTasks) \in Seq(Tasks)
  BY DEF QueueTypes
<1> QED
  BY <1>1

LEMMA QueriesRun ==
    ASSUME QueueTypes, lanTasks # <<>>,
           \/ lanTasks' = Tail(lanTasks)
           \/ \E task \in Tasks : task.op # "query" /\ lanTasks' = Append(Tail(lanTasks), task)
    PROVE  /\ Len(lanTasks) \in Nat \ {0} /\ Head(lanTasks) = lanTasks[1]
           /\ \A c : \A i \in QueryOf(c) : i = 1 \/ i - 1 \in QueryOf(c)'
           /\ \A c : \A i \in QueryOf(c)' : i + 1 \in QueryOf(c)
<1>1. /\ Len(lanTasks) \in Nat \ {0} /\ Head(lanTasks) = lanTasks[1]
      /\ Tail(lanTasks) \in Seq(Tasks) /\ Len(Tail(lanTasks)) = Len(lanTasks) - 1
      /\ \A i \in 1..(Len(lanTasks) - 1) : Tail(lanTasks)[i] = lanTasks[i + 1]
  BY DEF QueueTypes
<1>2. /\ \A i \in 1..(Len(lanTasks) - 1) : i \in 1..Len(lanTasks') /\ lanTasks'[i] = lanTasks[i + 1]
      /\ \A i \in 1..Len(lanTasks') : i \in 1..(Len(lanTasks) - 1) \/ lanTasks'[i].op # "query"
  <2>1. CASE lanTasks' = Tail(lanTasks)
    BY <1>1, <2>1
  <2>2. ASSUME NEW task \in Tasks, task.op # "query", lanTasks' = Append(Tail(lanTasks), task)
        PROVE  <1>2!1 /\ <1>2!2
    <3>1. Len(lanTasks') = Len(lanTasks) /\ lanTasks'[Len(lanTasks)] = task
      BY <2>2, Requeued
    <3>2. \A i \in 1..(Len(lanTasks) - 1) : lanTasks'[i] = lanTasks[i + 1]
      BY <2>2, Requeued
    <3>3. Len(lanTasks) \in Nat
      BY <1>1
    <3>4. ASSUME NEW i \in 1..(Len(lanTasks) - 1)
          PROVE  i \in 1..Len(lanTasks') /\ lanTasks'[i] = lanTasks[i + 1]
      BY <3>1, <3>2, <3>3
    <3>5. ASSUME NEW i \in 1..Len(lanTasks'), i \notin 1..(Len(lanTasks) - 1)
          PROVE  lanTasks'[i].op # "query"
      <4>1. i = Len(lanTasks)
        BY <3>1, <3>3, <3>5
      <4> QED
        BY <2>2, <3>1, <4>1
    <3> QED
      BY <3>4, <3>5
  <2> QED
    BY <2>1, <2>2
<1>3. /\ \A c : QueryOf(c)' = {i \in 1..Len(lanTasks') : lanTasks'[i] = Query(c)}
      /\ \A c : QueryOf(c) = {i \in 1..Len(lanTasks) : lanTasks[i] = Query(c)}
      /\ \A c : Query(c).op = "query"
  BY DEF QueryOf, Query
<1>4. ASSUME NEW c, NEW i \in QueryOf(c), i # 1 PROVE i - 1 \in QueryOf(c)'
  <2>1. i \in 1..Len(lanTasks) /\ lanTasks[i] = Query(c)
    BY <1>3, <1>4
  <2>2. i - 1 \in 1..(Len(lanTasks) - 1) /\ (i - 1) + 1 = i
    BY <1>1, <1>4, <2>1
  <2> QED
    BY <1>2, <1>3, <2>1, <2>2
<1>5. ASSUME NEW c, NEW i \in QueryOf(c)' PROVE i + 1 \in QueryOf(c)
  <2>1. i \in 1..Len(lanTasks') /\ lanTasks'[i] = Query(c)
    BY <1>3, <1>5
  <2>2. i \in 1..(Len(lanTasks) - 1)
    BY <1>2, <1>3, <2>1
  <2>3. i + 1 \in 1..Len(lanTasks) /\ lanTasks[i + 1] = Query(c)
    BY <1>1, <1>2, <2>1, <2>2
  <2> QED
    BY <1>3, <2>3
<1> QED
  BY <1>1, <1>4, <1>5

\* What a task that runs does to the queue and to the waiting callers.
LEMMA RunTaskShape ==
    ASSUME QueueTypes, RunTask
    PROVE  /\ lanTasks # <<>> /\ Head(lanTasks) \in Tasks
           /\ \/ lanTasks' = Tail(lanTasks)
              \/ \E task \in Tasks : task.op # "query" /\ lanTasks' = Append(Tail(lanTasks), task)
           /\ blocked' = IF Head(lanTasks).op = "query" THEN blocked \ {Head(lanTasks).arg}
                                                        ELSE blocked
<1>1. [op |-> "broadcast", arg |-> None] \in Tasks
  BY DEF Tasks
<1>2. lanTasks # <<>> /\ Head(lanTasks) \in Tasks
  BY TailType DEF RunTask, EnableTask, DisableTask, BroadcastTask, QueryTask, PingTask, SendTask,
     Running
<1>3. CASE EnableTask \/ BroadcastTask
  BY <1>1, <1>2, <1>3 DEF EnableTask, BroadcastTask, Running
<1>4. CASE DisableTask \/ PingTask \/ SendTask
  BY <1>2, <1>4 DEF DisableTask, PingTask, SendTask, Running
<1>5. CASE QueryTask
  BY <1>2, <1>5 DEF QueryTask, Running
<1> QED
  BY <1>3, <1>4, <1>5 DEF RunTask

\* What the other steps do to them.
LEMMA PostShape ==
    ASSUME TypeInv, [Next]_vars, ~RunTask
    PROVE  \/ UNCHANGED <<lanTasks, blocked>>
           \/ \E task \in Tasks : /\ task.op # "query" /\ lanTasks' = Append(lanTasks, task)
                                  /\ UNCHANGED blocked
           \/ \E c \in Callers : /\ c \notin blocked /\ blocked' = blocked \cup {c}
                                 /\ lanTasks' = Append(lanTasks, Query(c))
<1>0. QueueTypes /\ TableTypes
  BY DEF TypeInv, TypeOK
<1> DEFINE Shape ==
      \/ UNCHANGED <<lanTasks, blocked>>
      \/ \E task \in Tasks : /\ task.op # "query" /\ lanTasks' = Append(lanTasks, task)
                             /\ UNCHANGED blocked
      \/ \E c \in Callers : /\ c \notin blocked /\ blocked' = blocked \cup {c}
                            /\ lanTasks' = Append(lanTasks, Query(c))
<1>1. /\ \A op \in {"enable", "disable"} : [op |-> op, arg |-> None] \in Tasks
      /\ \A id \in Ids : [op |-> "ping", arg |-> id] \in Tasks
  BY DEF Tasks
<1>2. CASE EnableBroadcastDiscovery \/ DisableBroadcastDiscovery
  BY <1>1, <1>2 DEF EnableBroadcastDiscovery, DisableBroadcastDiscovery, PostTask
<1>a. CASE InsertRecord
  <2>1. inserting.id \in Ids
    BY <1>0, <1>a DEF InsertRecord, TableTypes, Insertions
  <2> QED
    BY <1>1, <1>a, <2>1 DEF InsertRecord
<1>3. ASSUME NEW c \in Callers, IsBroadcastDiscoveryEnabled(c) PROVE Shape
  BY <1>3 DEF IsBroadcastDiscoveryEnabled, PostTask, Query
<1>4. ASSUME NEW c \in Callers, NEW id \in Ids, SendToSignalingChannel(c, id) PROVE Shape
  <2>1. [op |-> "send", arg |-> id] \in Tasks
    BY DEF Tasks
  <2> QED
    BY <1>4, <2>1 DEF SendToSignalingChannel, PostTask
<1>5. ASSUME NEW id \in Ids, NEW addr \in Addrs, OnPacketKnown(id, addr) \/ OnPacketNew(id, addr)
      PROVE  Shape
  BY <1>5 DEF OnPacketKnown, OnPacketNew
<1>6. CASE \/ EnableSignalingOverLAN \/ DisableSignalingOverLAN
           \/ OnNetworkDiscoveryComplete \/ Tick \/ UNCHANGED vars
  BY <1>6 DEF EnableSignalingOverLAN, DisableSignalingOverLAN, OnNetworkDiscoveryComplete, Tick,
     vars
<1> HIDE DEF Shape
<1>7. Shape
  BY <1>2, <1>a, <1>3, <1>4, <1>5, <1>6 DEF Next, Shape
<1> QED
  BY <1>7 DEF Shape

\* A caller waits exactly as long as its query is queued, and has no second one.
THEOREM WaitersAreQueued == Spec => []WaitersQueued
<1>1. Init => WaitersQueued
  BY DEF Init, WaitersQueued, QueryOf
<1>2. TypeInv /\ WaitersQueued /\ [Next]_vars => WaitersQueued'
  <2> SUFFICES ASSUME TypeInv, WaitersQueued, [Next]_vars PROVE WaitersQueued'
    OBVIOUS
  <2>0. QueueTypes
    BY DEF TypeInv, TypeOK
  <2>1. CASE UNCHANGED <<lanTasks, blocked>>
    BY <2>1 DEF WaitersQueued, QueryOf
  <2>2. ASSUME NEW task \in Tasks, task.op # "query", lanTasks' = Append(lanTasks, task),
               UNCHANGED blocked
        PROVE  WaitersQueued'
    <3>1. \A c : task # Query(c)
      BY <2>2 DEF Query
    <3>2. \A c : QueryOf(c)' = QueryOf(c)
      BY <2>0, <2>2, <3>1, QueriesPosted
    <3> QED
      BY <2>2, <3>2 DEF WaitersQueued
  <2>3. ASSUME NEW c \in Callers, c \notin blocked, blocked' = blocked \cup {c},
               lanTasks' = Append(lanTasks, Query(c))
        PROVE  WaitersQueued'
    <3>1. Query(c) \in Tasks /\ \A d \in Callers : Query(d) = Query(c) <=> d = c
      BY DEF Query, Tasks
    <3>x. \A d : QueryOf(d)' = QueryOf(d) \cup
                 (IF Query(c) = Query(d) THEN {Len(lanTasks) + 1} ELSE {})
      BY <2>0, <2>3, <3>1, QueriesPosted
    <3>2. /\ QueryOf(c)' = QueryOf(c) \cup {Len(lanTasks) + 1}
          /\ \A d \in Callers \ {c} : QueryOf(d)' = QueryOf(d)
      BY <3>x, <3>1
    <3>3. QueryOf(c) = {}
      BY <2>3 DEF WaitersQueued
    <3> QED
      BY <2>3, <3>2, <3>3 DEF WaitersQueued
  <2>4. CASE RunTask
    <3>1. /\ lanTasks # <<>> /\ Head(lanTasks) \in Tasks
          /\ \/ lanTasks' = Tail(lanTasks)
             \/ \E task \in Tasks : task.op # "query" /\ lanTasks' = Append(Tail(lanTasks), task)
          /\ blocked' = IF Head(lanTasks).op = "query" THEN blocked \ {Head(lanTasks).arg}
                                                       ELSE blocked
      BY <2>0, <2>4, RunTaskShape
    <3>2. /\ Len(lanTasks) \in Nat \ {0} /\ Head(lanTasks) = lanTasks[1]
          /\ \A c : \A i \in QueryOf(c) : i = 1 \/ i - 1 \in QueryOf(c)'
          /\ \A c : \A i \in QueryOf(c)' : i + 1 \in QueryOf(c)
      BY <2>0, <3>1, QueriesRun
    <3>3. ASSUME NEW c \in Callers
          PROVE  /\ c \in blocked' <=> QueryOf(c)' # {}
                 /\ \A i, j \in QueryOf(c)' : i = j
      <4>0. QueryOf(c) \subseteq 1..Len(lanTasks) /\ QueryOf(c)' \subseteq Nat
        BY DEF QueryOf
      <4>1. 1 \in QueryOf(c) <=> Head(lanTasks) = Query(c)
        BY <3>2 DEF QueryOf, Query
      <4>2. c \in blocked' <=> c \in blocked /\ 1 \notin QueryOf(c)
        BY <3>1, <4>1 DEF Query, Tasks
      <4>3. \A i, j \in QueryOf(c)' : i = j
        BY <3>2, <4>0 DEF WaitersQueued
      <4>4. ASSUME 1 \in QueryOf(c) PROVE QueryOf(c)' = {}
        <5>1. \A i \in QueryOf(c) : i = 1
          BY <4>4 DEF WaitersQueued
        <5>2. \A i \in QueryOf(c)' : i + 1 = 1 /\ i \in 1..Len(lanTasks')
          BY <3>2, <5>1 DEF QueryOf
        <5> QED
          BY <5>2
      <4>5. ASSUME 1 \notin QueryOf(c) PROVE QueryOf(c)' # {} <=> QueryOf(c) # {}
        BY <3>2, <4>5
      <4>6. c \in blocked <=> QueryOf(c) # {}
        BY DEF WaitersQueued
      <4> QED
        BY <4>2, <4>3, <4>4, <4>5, <4>6
    <3> QED
      BY <3>3 DEF WaitersQueued
  <2> QED
    BY <2>0, <2>1, <2>2, <2>3, <2>4, PostShape
<1> QED
  BY <1>1, <1>2, LanTypeInvariant, PTL DEF Spec

\* With every task that runs a waiting query moves up or is answered; nothing that
\* is posted, and no broadcast task that requeues itself, gets ahead of it.
THEOREM QueriesMoveUp == Spec => QueryMovesUp
<1> DEFINE Up == \A c \in Callers : \A i \in QueryOf(c) :
              IF RunTask THEN IF i = 1 THEN c \notin blocked' ELSE i - 1 \in QueryOf(c)'
                         ELSE i \in QueryOf(c)'
<1>1. ASSUME TypeInv, [Next]_vars PROVE Up
  <2>0. QueueTypes
    BY <1>1 DEF TypeInv, TypeOK
  <2>1. ASSUME RunTask, NEW c \in Callers, NEW i \in QueryOf(c)
        PROVE  IF i = 1 THEN c \notin blocked' ELSE i - 1 \in QueryOf(c)'
    <3>1. /\ lanTasks # <<>> /\ Head(lanTasks) \in Tasks
          /\ \/ lanTasks' = Tail(lanTasks)
             \/ \E task \in Tasks : task.op # "query" /\ lanTasks' = Append(Tail(lanTasks), task)
          /\ blocked' = IF Head(lanTasks).op = "query" THEN blocked \ {Head(lanTasks).arg}
                                                       ELSE blocked
      BY <2>0, <2>1, RunTaskShape
    <3>2. Head(lanTasks) = lanTasks[1] /\ (i = 1 \/ i - 1 \in QueryOf(c)')
      BY <2>0, <2>1, <3>1, QueriesRun
    <3>3. lanTasks[i] = [op |-> "query", arg |-> c]
      BY <2>1 DEF QueryOf
    <3>4. CASE i = 1
      BY <3>1, <3>2, <3>3, <3>4
    <3> QED
      BY <3>2, <3>4
  <2>2. ASSUME ~RunTask, NEW c \in Callers, NEW i \in QueryOf(c) PROVE i \in QueryOf(c)'
    <3>1. CASE UNCHANGED lanTasks
      BY <2>2, <3>1 DEF QueryOf
    <3>2. ASSUME NEW task \in Tasks, lanTasks' = Append(lanTasks, task) PROVE i \in QueryOf(c)'
      <4>1. QueryOf(c) \subseteq QueryOf(c)'
        BY <2>0, <3>2, QueriesPosted
      <4> QED
        BY <2>2, <4>1
    <3>3. \A d \in Callers : Query(d) \in Tasks
      BY DEF Query, Tasks
    <3> QED
      BY <1>1, <2>0, <2>2, <3>1, <3>2, <3>3, PostShape
  <2> QED
    BY <2>1, <2>2
<1>2. TypeInv /\ [Next]_vars => [Up]_vars
  BY <1>1
<1> QED
  BY <1>2, LanTypeInvariant, PTL DEF Spec, QueryMovesUp

-----------------------------------------------------------------------------
(* Broadcast tasks.                                                        *)

\* A task that runs leaves the queue, but for one that broadcasts, whose successor
\* takes the last place.
LEMMA BroadcastsRun ==
    ASSUME QueueTypes, RunTask
    PROVE  Cardinality(Broadcasts) <= Cardinality(Broadcasts')
<1> DEFINE n == Len(lanTasks)
           last == [op |-> "broadcast", arg |-> None]
           Place(i) == IF i = 1 THEN n ELSE i - 1
           f == [i \in Broadcasts |-> Place(i)]
<1>1. lanTasks # <<>>
  BY RunTaskShape
<1>2. /\ n \in Nat \ {0} /\ Head(lanTasks) = lanTasks[1]
      /\ Tail(lanTasks) \in Seq(Tasks) /\ Len(Tail(lanTasks)) = n - 1
      /\ \A i \in 1..(n - 1) : Tail(lanTasks)[i] = lanTasks[i + 1]
  BY <1>1 DEF QueueTypes
<1>3. last \in Tasks /\ last.op = "broadcast"
  BY DEF Tasks
<1>4. \/ lanTasks' = Tail(lanTasks) /\ lanTasks[1].op \notin {"enable", "broadcast"}
      \/ \E task \in Tasks : task.op = "broadcast" /\ lanTasks' = Append(Tail(lanTasks), task)
  <2>1. CASE EnableTask
    BY <1>3, <2>1 DEF EnableTask
  <2>2. CASE BroadcastTask
    <3>1. Head(lanTasks) \in Tasks
      BY RunTaskShape
    <3> QED
      BY <2>2, <3>1 DEF BroadcastTask, Running
  <2>3. CASE DisableTask \/ QueryTask \/ PingTask \/ SendTask
    BY <1>2, <2>3 DEF DisableTask, QueryTask, PingTask, SendTask, Running
  <2> QED
    BY <2>1, <2>2, <2>3 DEF RunTask
<1>5. ASSUME NEW i \in Broadcasts PROVE Place(i) \in Broadcasts'
  <2>1. i \in 1..n /\ lanTasks[i].op \in {"enable", "broadcast"}
    BY <1>5 DEF Broadcasts
  <2>2. CASE lanTasks' = Tail(lanTasks) /\ lanTasks[1].op \notin {"enable", "broadcast"}
    <3>1. i # 1 /\ i - 1 \in 1..(n - 1) /\ (i - 1) + 1 = i
      BY <1>2, <2>1, <2>2
    <3>2. i - 1 \in 1..Len(lanTasks') /\ lanTasks'[i - 1] = lanTasks[i]
      BY <1>2, <2>2, <3>1
    <3> QED
      BY <2>1, <3>1, <3>2 DEF Broadcasts
  <2>3. ASSUME NEW task \in Tasks, task.op = "broadcast", lanTasks' = Append(Tail(lanTasks), task)
        PROVE  Place(i) \in Broadcasts'
    <3>1. Len(lanTasks') = n /\ lanTasks'[n] = task
      BY <1>1, <2>3, Requeued
    <3>2. \A j \in 1..(n - 1) : lanTasks'[j] = lanTasks[j + 1]
      BY <1>1, <2>3, Requeued
    <3>3. CASE i = 1
      <4>1. n \in 1..Len(lanTasks') /\ lanTasks'[n].op = "broadcast"
        BY <1>2, <2>3, <3>1
      <4> QED
        BY <3>3, <4>1 DEF Broadcasts
    <3>4. CASE i # 1
      <4>1. i - 1 \in 1..(n - 1) /\ (i - 1) + 1 = i /\ i - 1 \in 1..Len(lanTasks')
        BY <1>2, <2>1, <3>1, <3>4
      <4>2. lanTasks'[i - 1] = lanTasks[i]
        BY <3>2, <4>1
      <4> QED
        BY <2>1, <3>4, <4>1, <4>2 DEF Broadcasts
    <3> QED
      BY <3>3, <3>4
  <2> QED
    BY <1>4, <2>2, <2>3
<1>6. \A i, j \in Broadcasts : Place(i) = Place(j) => i = j
  BY <1>2 DEF Broadcasts
<1>7. f \in Injection(Broadcasts, Broadcasts')
  <2>1. f \in [Broadcasts -> Broadcasts']
    BY <1>5
  <2>2. \A i, j \in Broadcasts : f[i] = f[j] => i = j
    BY <1>6
  <2> QED
    BY <2>1, <2>2 DEF Injection, IsInjective
<1>8. IsFiniteSet(Broadcasts')
  <2>1. Broadcasts' \subseteq 1..Len(lanTasks')
    BY DEF Broadcasts
  <2>2. Len(lanTasks') \in Nat
    BY <1>2, <1>4
  <2>3. IsFiniteSet(1..Len(lanTasks'))
    BY <2>2, FS_Interval
  <2> QED
    BY <2>1, <2>3, FS_Subset
<1> QED
  BY <1>7, <1>8, FS_Injection

\* No broadcast task is lost: not by running it, and not by any other task or call.
THEOREM BroadcastsGoOn == Spec => BroadcastsKept
<1>1. ASSUME TypeInv, [Next]_vars PROVE Cardinality(Broadcasts) <= Cardinality(Broadcasts')
  <2>0. QueueTypes
    BY <1>1 DEF TypeInv, TypeOK
  <2>1. CASE RunTask
    BY <2>0, <2>1, BroadcastsRun
  <2>2. CASE ~RunTask
    <3>1. /\ Len(lanTasks') \in Nat
          /\ \A i \in 1..Len(lanTasks) : i \in 1..Len(lanTasks') /\ lanTasks'[i] = lanTasks[i]
      <4>0. Len(lanTasks) \in Nat /\ \A c \in Callers : Query(c) \in Tasks
        BY <2>0 DEF QueueTypes, Query, Tasks
      <4>1. CASE UNCHANGED lanTasks
        BY <4>0, <4>1
      <4>2. ASSUME NEW task \in Tasks, lanTasks' = Append(lanTasks, task) PROVE <3>1
        BY <2>0, <4>0, <4>2 DEF QueueTypes
      <4> QED
        BY <1>1, <2>0, <2>2, <4>0, <4>1, <4>2, PostShape
    <3>2. Broadcasts \subseteq Broadcasts' /\ Broadcasts' \subseteq 1..Len(lanTasks')
      BY <3>1 DEF Broadcasts
    <3>3. IsFiniteSet(1..Len(lanTasks'))
      BY <3>1, FS_Interval
    <3>4. IsFiniteSet(Broadcasts')
      BY <3>2, <3>3, FS_Subset
    <3> QED
      BY <3>2, <3>4, FS_Subset
  <2> QED
    BY <2>1, <2>2
<1>2. TypeInv /\ [Next]_vars => [Cardinality(Broadcasts) <= Cardinality(Broadcasts')]_vars
  BY <1>1
<1> QED
  BY <1>2, LanTypeInvariant, PTL DEF Spec, BroadcastsKept
=============================================================================
