--------------------------- MODULE SessionManager ---------------------------
(***************************************************************************)
(* The session table, NetherNet::NetworkSessionManager, with the two locks *)
(* that guard it and the threads that use it.                              *)
(*                                                                         *)
(* Application threads enter through SimpleNetworkInterfaceImpl, which     *)
(* takes mApiLevelMutex, and the manager takes mSessionCreationMutex.  The *)
(* signal thread takes only the second lock (ProcessError), or none: the   *)
(* two Initiate functions and the tasks posted by FilterDeadSession touch  *)
(* the table without it.  One step of a thread is what it does between two *)
(* points where another thread can intervene.                              *)
(*                                                                         *)
(* mSessionList is a std::map, and mSessionList[id] inserts a record that  *)
(* is missing.  The insertion takes time (inserting), and others may search*)
(* the tree or insert in it meanwhile: a search can then miss a record, an *)
(* insertion can overwrite the link to a record inserted since it began,   *)
(* and a record that was missed is inserted a second time.  A tree broken  *)
(* beyond that, which makes a search crash or run for ever, is left out.   *)
(*                                                                         *)
(* The lines that store a new session in the table are commented out in    *)
(* both Initiate functions, pending a constructor: at this commit no record*)
(* ever holds a session.  Create and StoreSession stand for those lines.   *)
(* Time is abstract: timedOut[s] says that s has been in its negotiation   *)
(* state for longer than the timeout.                                      *)
(***************************************************************************)
EXTENDS Integers, Sequences, FiniteSets

CONSTANTS
    Ids,          \* NetworkIDs of remote users
    Sessions,     \* the session objects that can be created
    ApiThreads,   \* threads of the application
    Signal,       \* the signal thread
    NoRecord,     \* the table has no record of an id
    Null,         \* nullptr
    MaxTasks      \* bound: removal tasks in the signal thread's queue

ASSUME ManagerConstants ==
    /\ Signal \notin ApiThreads
    /\ NoRecord \notin Sessions /\ Null \notin Sessions \cup Ids /\ NoRecord # Null
    /\ MaxTasks \in Nat \ {0}

Threads == ApiThreads \cup {Signal}
Free == "free"        \* nobody holds the lock
ASSUME FreeIsNoThread == Free \notin Threads

\* Waiting for the remote side's response (outgoing), for the local accept
\* (incoming), or past both.
Negotiation == {"WaitingForResponse", "WaitingForAccept", "ICEProcessing"}

LookupOps == {"SendPacket", "GetSessionState", "ProcessError"}     \* GetCurrentSession
FindOps == {"AcceptSessionWithUser", "CloseSessionWithUser"}       \* mSessionList.find
ApiOps == {"SendPacket", "GetSessionState", "InitiateOutgoingSession",
           "IsPacketAvailable"} \cup FindOps
Ops == ApiOps \cup {"ProcessError", "InitiateIncomingSession", "none"}
Initiating == {"InitiateIncomingSession", "InitiateOutgoingSession"}
Steps == {"idle", "lockApi", "lockKnown", "known", "lockMgr", "filter", "notify", "read",
          "use", "unlock", "clear", "replace", "store", "open"}
\* The steps that evaluate mSessionList[id].
IndexSteps == {"known", "filter", "read", "replace", "store"}

VARIABLES
    mSessionList,           \* id -> NoRecord, Null or the session owned
    mApiLevelMutex, mSessionCreationMutex,   \* their holders
    call,                   \* thread -> the call it is in
    inserting,              \* threads in the middle of inserting their call's record
    raced,                  \* thread -> ids inserted since its own insertion began
    detached,               \* ids one of whose records can no longer be found
    overlapped,             \* threads whose call overlaps another
    mThread,                \* the signal thread: running, quitting, or no pointer to it
    signalTasks,            \* removals FilterDeadSession posted: id, and whom it meant
    born,                   \* sessions created so far
    remote,                 \* session -> mRemoteID
    negotiation, timedOut, alive,   \* session -> what IsDeadSession looks at
    reported                \* sessions IsDeadSession has reported closed

mapVars == <<mSessionList, inserting, raced, detached>>
threadVars == <<mThread, signalTasks>>
sessionVars == <<born, remote, negotiation, timedOut, alive>>
vars == <<mapVars, mApiLevelMutex, mSessionCreationMutex, call, overlapped, threadVars,
          sessionVars, reported>>

Idle == [op |-> "none", at |-> "idle", id |-> Null, found |-> Null]

Init ==
    /\ mSessionList = [id \in Ids |-> NoRecord]
    /\ mApiLevelMutex = Free /\ mSessionCreationMutex = Free
    /\ call = [t \in Threads |-> Idle]
    /\ inserting = {} /\ raced = [t \in Threads |-> {}] /\ detached = {}
    /\ overlapped = {}
    /\ mThread \in {"running", "null"}      \* Initialize was called, or was not
    /\ signalTasks = <<>>
    /\ born = {}
    /\ remote = [s \in Sessions |-> Null]
    /\ negotiation = [s \in Sessions |-> "WaitingForResponse"]
    /\ timedOut = [s \in Sessions |-> FALSE]
    /\ alive = [s \in Sessions |-> FALSE]
    /\ reported = {}

At(t, step) == call[t].at = step
Goto(t, step) == call' = [call EXCEPT ![t].at = step]
Found(t, step, s) == call' = [call EXCEPT ![t].at = step, ![t].found = s]

Begin(t, c) ==
    /\ At(t, "idle")
    /\ call' = [call EXCEPT ![t] = c]
    /\ LET busy == {u \in Threads : ~At(u, "idle")}
       IN overlapped' = IF busy = {} THEN overlapped ELSE overlapped \cup busy \cup {t}

End(t) == call' = [call EXCEPT ![t] = Idle] /\ overlapped' = overlapped \ {t}

-----------------------------------------------------------------------------
(* The map, and what happens to it without a lock.                         *)

\* Another thread is changing the tree.
Racing(t) == \E u \in inserting : u # t

\* A search by t can end without the record of id.
Misses(t, id) == mSessionList[id] = NoRecord \/ Racing(t)

\* Mutant: the end iterator of a failed search is used.
FindUnchecked(t, id) == {mSessionList[id]}

\* mSessionList.find(id), and the session when there is a record with one.
Find(t, id) == ({mSessionList[id]} \ {NoRecord}) \cup {x \in {Null} : Misses(t, id)}

\* mSessionList[id] did not find the record: a new one is on its way into the tree.
\* InitiateIncomingSession empties a record only if it has just seen it.
BeginInsert(t) ==
    /\ call[t].at \in IndexSteps /\ t \notin inserting
    /\ Misses(t, call[t].id)
    /\ At(t, "replace") => mSessionList[call[t].id] # NoRecord
    /\ inserting' = inserting \cup {t}
    /\ raced' = [raced EXCEPT ![t] = {}]
    /\ UNCHANGED <<mSessionList, detached, mApiLevelMutex, mSessionCreationMutex, call,
                   overlapped, threadVars, sessionVars, reported>>

\* The new record, with session x, is in the tree.  It hides an older one of the same
\* id or is hidden by it, and records linked since it was begun may be cut off.
EndInsert(t, x) ==
    LET id == call[t].id
    IN /\ t \in inserting
       /\ \E lost \in SUBSET raced[t], y \in {x, mSessionList[id]} \ {NoRecord} :
            /\ mSessionList' = [j \in Ids |-> IF j = id THEN y
                                ELSE IF j \in lost THEN NoRecord ELSE mSessionList[j]]
            /\ detached' = detached \cup lost \cup {j \in {id} : mSessionList[j] # NoRecord}
       /\ inserting' = inserting \ {t}
       /\ raced' = [u \in Threads |-> IF u \in inserting \ {t} THEN raced[u] \cup {id} ELSE {}]

\* The session s that mSessionList[id] gives to t's call, and the assignment of x to it.
Index(t, s) ==
    \/ /\ t \notin inserting /\ mSessionList[call[t].id] # NoRecord
       /\ s = mSessionList[call[t].id]
       /\ UNCHANGED mapVars
    \/ s = Null /\ EndInsert(t, Null)

Assign(t, x) ==
    \/ /\ t \notin inserting /\ mSessionList[call[t].id] # NoRecord
       /\ mSessionList' = [mSessionList EXCEPT ![call[t].id] = x]
       /\ UNCHANGED <<inserting, raced, detached>>
    \/ EndInsert(t, x)

\* The record that session s of id was found in is emptied through a reference.  Once
\* records of id have been cut off or hidden, it need not be the one that is found now.
EmptyRecordOf(id, s) ==
    \/ /\ mSessionList[id] # NoRecord
       /\ mSessionList' = [mSessionList EXCEPT ![id] = Null]
    \/ /\ mSessionList[id] = NoRecord \/ (id \in detached /\ mSessionList[id] # s)
       /\ UNCHANGED mSessionList

-----------------------------------------------------------------------------
(* Calls of the application, and their locks.                              *)

\* A call of SimpleNetworkInterfaceImpl.  It posts at most one removal, so the
\* bound on the queue limits the calls begun.
BeginApiCall(t) ==
    /\ t \in ApiThreads
    /\ Len(signalTasks) + Cardinality({u \in ApiThreads : ~At(u, "idle")}) < MaxTasks
    /\ \E op \in ApiOps, id \in Ids :
         Begin(t, [op |-> op, at |-> "lockApi", id |-> id, found |-> Null])
    /\ UNCHANGED <<mapVars, mApiLevelMutex, mSessionCreationMutex, threadVars, sessionVars,
                   reported>>

\* A packet that is too large and the user's own id return at once; the step is
\* then the whole call.
LockApi(t) ==
    /\ At(t, "lockApi") /\ mApiLevelMutex = Free
    /\ \/ /\ mApiLevelMutex' = t
          /\ Goto(t, CASE call[t].op = "SendPacket" -> "lockKnown"
                       [] call[t].op = "InitiateOutgoingSession" -> "open"
                       [] OTHER -> "lockMgr")
          /\ UNCHANGED overlapped
       \/ /\ call[t].op \in {"SendPacket", "GetSessionState"}
          /\ End(t) /\ UNCHANGED mApiLevelMutex
    /\ UNCHANGED <<mapVars, mSessionCreationMutex, threadVars, sessionVars, reported>>

\* Mutant: HasKnownConnection looks without the lock.
LockKnownUnlocked(t) ==
    /\ At(t, "lockKnown")
    /\ Goto(t, "known")
    /\ UNCHANGED <<mapVars, mApiLevelMutex, mSessionCreationMutex, overlapped, threadVars,
                   sessionVars, reported>>

\* SendPacket's test of HasKnownConnection, which takes the lock...
LockKnown(t) ==
    /\ At(t, "lockKnown") /\ mSessionCreationMutex = Free
    /\ mSessionCreationMutex' = t
    /\ Goto(t, "known")
    /\ UNCHANGED <<mapVars, mApiLevelMutex, overlapped, threadVars, sessionVars, reported>>

\* ... and releases it.  An unknown user is still sent to when on the LAN or signed in.
HasKnownConnection(t) ==
    /\ At(t, "known")
    /\ \E s \in Sessions \cup {Null} :
         /\ Index(t, s)
         /\ \/ /\ Goto(t, "lockMgr")
               /\ mSessionCreationMutex' =
                    IF mSessionCreationMutex = t THEN Free ELSE mSessionCreationMutex
            \/ s = Null /\ Goto(t, "unlock") /\ UNCHANGED mSessionCreationMutex
    /\ UNCHANGED <<mApiLevelMutex, overlapped, threadVars, sessionVars, reported>>

\* Mutant: IsPacketAvailable drops the old packets, with the lock that this takes.
LockManagerClearing(t) ==
    /\ At(t, "lockMgr") /\ mSessionCreationMutex = Free
    /\ mSessionCreationMutex' = t
    /\ \/ call[t].op \in LookupOps /\ Goto(t, "filter")
       \/ call[t].op \in FindOps /\ \E s \in Find(t, call[t].id) : Found(t, "use", s)
       \/ call[t].op = "IsPacketAvailable" /\ Goto(t, "clear")
    /\ UNCHANGED <<mapVars, mApiLevelMutex, overlapped, threadVars, sessionVars, reported>>

\* FindOps read the record here; no dead session is filtered out for them.
LockManager(t) ==
    /\ At(t, "lockMgr") /\ mSessionCreationMutex = Free
    /\ mSessionCreationMutex' = t
    /\ \/ call[t].op \in LookupOps /\ Goto(t, "filter")
       \/ call[t].op \in FindOps /\ \E s \in Find(t, call[t].id) : Found(t, "use", s)
       \/ call[t].op = "IsPacketAvailable" /\ Goto(t, "unlock")
    /\ UNCHANGED <<mapVars, mApiLevelMutex, overlapped, threadVars, sessionVars, reported>>

Unlock(t) ==
    /\ At(t, "unlock")
    /\ mSessionCreationMutex' = IF mSessionCreationMutex = t THEN Free ELSE mSessionCreationMutex
    /\ mApiLevelMutex' = IF mApiLevelMutex = t THEN Free ELSE mApiLevelMutex
    /\ End(t)
    /\ UNCHANGED <<mapVars, threadVars, sessionVars, reported>>

-----------------------------------------------------------------------------
(* GetCurrentSession: FilterDeadSession, then a second look at the record. *)

IsDead(s) == ~alive[s] \/ (negotiation[s] # "ICEProcessing" /\ timedOut[s])

FilterDeadSession(t) ==
    /\ At(t, "filter")
    /\ \E s \in Sessions \cup {Null} :
         /\ Index(t, s)
         /\ IF s # Null /\ IsDead(s) THEN Found(t, "notify", s) ELSE Goto(t, "read")
    /\ UNCHANGED <<mApiLevelMutex, mSessionCreationMutex, overlapped, threadVars, sessionVars,
                   reported>>

\* The removal of session s from the record of id is posted.  A thread that quits
\* takes no more tasks.
PostRemoval(id, s) ==
    signalTasks' = IF mThread = "running" THEN Append(signalTasks, [id |-> id, dead |-> s])
                   ELSE signalTasks

\* Mutant: the caller goes on with the session that was found dead.
NotifyDeadKept(t) ==
    /\ At(t, "notify")
    /\ LET s == call[t].found  id == call[t].id
       IN /\ reported' = reported \cup {s}
          /\ \/ t = Signal /\ EmptyRecordOf(id, s) /\ UNCHANGED signalTasks
             \/ t # Signal /\ PostRemoval(id, s) /\ UNCHANGED mSessionList
    /\ Goto(t, "use")
    /\ UNCHANGED <<inserting, raced, detached, mApiLevelMutex, mSessionCreationMutex,
                   overlapped, mThread, sessionVars>>

\* Mutant: on the signal thread itself the record is left as it is.
NotifyDeadElsewhere(t) ==
    /\ At(t, "notify")
    /\ reported' = reported \cup {call[t].found}
    /\ IF t = Signal THEN UNCHANGED signalTasks ELSE PostRemoval(call[t].id, call[t].found)
    /\ Found(t, "use", Null)
    /\ UNCHANGED <<mapVars, mApiLevelMutex, mSessionCreationMutex, overlapped, mThread,
                   sessionVars>>

\* The record is emptied at once on the signal thread, and on any other by a posted
\* task, if there is a thread to take it.  The caller is given no session.
NotifyDead(t) ==
    /\ At(t, "notify")
    /\ LET s == call[t].found  id == call[t].id
       IN /\ reported' = reported \cup {s}
          /\ \/ t = Signal /\ EmptyRecordOf(id, s) /\ UNCHANGED signalTasks
             \/ t # Signal /\ PostRemoval(id, s) /\ UNCHANGED mSessionList
    /\ Found(t, "use", Null)
    /\ UNCHANGED <<inserting, raced, detached, mApiLevelMutex, mSessionCreationMutex,
                   overlapped, mThread, sessionVars>>

\* Mutant: with the lock held, the lookup is repeated until there is a session.
ReadCurrentRetry(t) ==
    /\ At(t, "read")
    /\ \E s \in Sessions \cup {Null} :
         /\ Index(t, s)
         /\ IF s = Null THEN Goto(t, "filter") ELSE Found(t, "use", s)
    /\ UNCHANGED <<mApiLevelMutex, mSessionCreationMutex, overlapped, threadVars, sessionVars,
                   reported>>

ReadCurrent(t) ==
    /\ At(t, "read")
    /\ \E s \in Sessions \cup {Null} : Index(t, s) /\ Found(t, "use", s)
    /\ UNCHANGED <<mApiLevelMutex, mSessionCreationMutex, overlapped, threadVars, sessionVars,
                   reported>>

-----------------------------------------------------------------------------
(* What the calls do with the session they found.                          *)

\* AcceptSession moves a waiting session on; SendPacket, GetSessionState, Close
\* and ProcessError leave what the manager looks at as it is.
UseSession(t) ==
    /\ At(t, "use") /\ call[t].op \in LookupOps \cup FindOps
    /\ LET s == call[t].found
       IN IF /\ s # Null /\ call[t].op = "AcceptSessionWithUser"
             /\ negotiation[s] = "WaitingForAccept"
          THEN negotiation' = [negotiation EXCEPT ![s] = "ICEProcessing"]
          ELSE UNCHANGED negotiation
    /\ Goto(t, "unlock")
    /\ UNCHANGED <<mapVars, mApiLevelMutex, mSessionCreationMutex, overlapped, threadVars,
                   born, remote, timedOut, alive, reported>>

\* A request that repeats the connection id of the current session is ignored.
CheckOverlap ==
    /\ At(Signal, "use") /\ call[Signal].op = "InitiateIncomingSession"
    /\ \/ call[Signal].found # Null /\ Goto(Signal, "unlock")
       \/ Goto(Signal, "clear")
    /\ UNCHANGED <<mapVars, mApiLevelMutex, mSessionCreationMutex, overlapped, threadVars,
                   sessionVars, reported>>

\* Takes mSessionCreationMutex and releases it.
ClearPacketData(t) ==
    /\ At(t, "clear") /\ mSessionCreationMutex = Free
    /\ Goto(t, IF call[t].op = "InitiateIncomingSession" THEN "replace" ELSE "filter")
    /\ UNCHANGED <<mapVars, mApiLevelMutex, mSessionCreationMutex, overlapped, threadVars,
                   sessionVars, reported>>

\* InitiateIncomingSession drops the old session, if the table contains the id.
EmptyRecord ==
    /\ At(Signal, "replace")
    /\ \/ /\ Signal \notin inserting /\ Misses(Signal, call[Signal].id)
          /\ UNCHANGED mapVars
       \/ Assign(Signal, Null)
    /\ Goto(Signal, "store")
    /\ UNCHANGED <<mApiLevelMutex, mSessionCreationMutex, overlapped, threadVars, sessionVars,
                   reported>>

\* InitiateOutgoingSession: an id that has a record, of whatever kind, is left alone.
OpenOutgoing(t) ==
    /\ At(t, "open")
    /\ \/ mSessionList[call[t].id] # NoRecord /\ Goto(t, "unlock")
       \/ Misses(t, call[t].id) /\ Goto(t, "clear")
    /\ UNCHANGED <<mapVars, mApiLevelMutex, mSessionCreationMutex, overlapped, threadVars,
                   sessionVars, reported>>

\* Its tail, after GetCurrentSession: a new session unless one has come in meanwhile.
CheckCurrent(t) ==
    /\ At(t, "use") /\ call[t].op = "InitiateOutgoingSession"
    /\ Goto(t, IF call[t].found # Null THEN "unlock" ELSE "store")
    /\ UNCHANGED <<mapVars, mApiLevelMutex, mSessionCreationMutex, overlapped, threadVars,
                   sessionVars, reported>>

\* A new session s of user id in negotiation state n (commented out in the code).
Create(id, s, n) ==
    /\ s \in Sessions \ born
    /\ born' = born \cup {s}
    /\ remote' = [remote EXCEPT ![s] = id]
    /\ negotiation' = [negotiation EXCEPT ![s] = n]
    /\ \E a \in BOOLEAN : alive' = [alive EXCEPT ![s] = a]     \* mConnectionStat is uninitialised
    /\ UNCHANGED timedOut

\* The tail of both Initiate functions: the new session is stored, by mSessionList[id],
\* in its record (commented out in the code).  When there are no more, nothing is.
StoreSession(t) ==
    /\ At(t, "store")
    /\ \/ \E s \in Sessions :
            /\ Create(call[t].id, s, IF call[t].op = "InitiateOutgoingSession"
                                     THEN "WaitingForResponse" ELSE "WaitingForAccept")
            /\ Assign(t, s)
       \/ /\ born = Sessions /\ UNCHANGED sessionVars
          /\ \/ t \notin inserting /\ UNCHANGED mapVars
             \/ EndInsert(t, Null)
    /\ Goto(t, "unlock")
    /\ UNCHANGED <<mApiLevelMutex, mSessionCreationMutex, overlapped, threadVars, reported>>

-----------------------------------------------------------------------------
(* The signal thread and time.                                             *)

\* ReceiveFromSignalingChannel: an error message, or a connect request.
BeginSignal ==
    /\ mThread # "null"
    /\ \E id \in Ids :
         \/ Begin(Signal, [op |-> "ProcessError", at |-> "lockMgr", id |-> id, found |-> Null])
         \/ Begin(Signal, [op |-> "InitiateIncomingSession", at |-> "filter", id |-> id,
                           found |-> Null])
    /\ UNCHANGED <<mapVars, mApiLevelMutex, mSessionCreationMutex, threadVars, sessionVars,
                   reported>>

\* Mutant: the task leaves a session alone that has come to life again.
RemoveTaskChecked ==
    /\ At(Signal, "idle") /\ mThread # "null" /\ signalTasks # <<>>
    /\ \/ IsDead(Head(signalTasks).dead)
          /\ EmptyRecordOf(Head(signalTasks).id, Head(signalTasks).dead)
       \/ ~IsDead(Head(signalTasks).dead) /\ UNCHANGED mSessionList
    /\ signalTasks' = Tail(signalTasks)
    /\ UNCHANGED <<inserting, raced, detached, mApiLevelMutex, mSessionCreationMutex, call,
                   overlapped, mThread, sessionVars, reported>>

\* The task FilterDeadSession posted.
RemoveTask ==
    /\ At(Signal, "idle") /\ mThread # "null" /\ signalTasks # <<>>
    /\ EmptyRecordOf(Head(signalTasks).id, Head(signalTasks).dead)
    /\ signalTasks' = Tail(signalTasks)
    /\ UNCHANGED <<inserting, raced, detached, mApiLevelMutex, mSessionCreationMutex, call,
                   overlapped, mThread, sessionVars, reported>>

\* NetworkSession::ProcessSignal(ConnectResponse), on the signal thread.
ConnectResponse(s) ==
    /\ At(Signal, "idle") /\ mThread # "null" /\ s \in born
    /\ negotiation[s] # "ICEProcessing"
    /\ negotiation' = [negotiation EXCEPT ![s] = "ICEProcessing"]
    /\ UNCHANGED <<mapVars, mApiLevelMutex, mSessionCreationMutex, call, overlapped, threadVars,
                   born, remote, timedOut, alive, reported>>

\* mNegotiationTimeout elapses.
TimePasses(s) ==
    /\ s \in born /\ ~timedOut[s]
    /\ timedOut' = [timedOut EXCEPT ![s] = TRUE]
    /\ UNCHANGED <<mapVars, mApiLevelMutex, mSessionCreationMutex, call, overlapped, threadVars,
                   born, remote, negotiation, alive, reported>>

\* RtcThreadManager::Shutdown: Stop lets the queue run empty, then the pointer goes.
ShutdownStop ==
    /\ mThread = "running" /\ mThread' = "quitting"
    /\ UNCHANGED <<mapVars, mApiLevelMutex, mSessionCreationMutex, call, overlapped, signalTasks,
                   sessionVars, reported>>

ShutdownClear ==
    /\ mThread = "quitting" /\ At(Signal, "idle") /\ signalTasks = <<>>
    /\ mThread' = "null"
    /\ UNCHANGED <<mapVars, mApiLevelMutex, mSessionCreationMutex, call, overlapped, signalTasks,
                   sessionVars, reported>>

-----------------------------------------------------------------------------
\* The steps of a call that has begun.
Step(t) ==
    \/ LockApi(t) \/ LockKnown(t) \/ HasKnownConnection(t) \/ LockManager(t) \/ Unlock(t)
    \/ BeginInsert(t) \/ FilterDeadSession(t) \/ NotifyDead(t) \/ ReadCurrent(t)
    \/ UseSession(t) \/ ClearPacketData(t) \/ OpenOutgoing(t) \/ CheckCurrent(t)
    \/ StoreSession(t)

SignalStep == Step(Signal) \/ CheckOverlap \/ EmptyRecord

Next ==
    \/ \E t \in ApiThreads : BeginApiCall(t) \/ Step(t)
    \/ BeginSignal \/ SignalStep \/ RemoveTask \/ ShutdownStop \/ ShutdownClear
    \/ \E s \in Sessions : ConnectResponse(s) \/ TimePasses(s)

\* A thread inside a call keeps running.  The signal thread keeps taking tasks
\* from its queue between the messages it handles, and is granted a mutex that is
\* released again and again: both compete with others, hence strong fairness.
Fairness ==
    /\ \A t \in ApiThreads : WF_vars(Step(t))
    /\ WF_vars(SignalStep) /\ SF_vars(RemoveTask)
    /\ SF_vars(LockManager(Signal)) /\ SF_vars(ClearPacketData(Signal))

Spec == Init /\ [][Next]_vars /\ Fairness

-----------------------------------------------------------------------------
(* Properties.                                                             *)

\* Every variable stays in its type.
TypeOK ==
    /\ mSessionList \in [Ids -> Sessions \cup {NoRecord, Null}]
    /\ mApiLevelMutex \in ApiThreads \cup {Free}
    /\ mSessionCreationMutex \in Threads \cup {Free}
    /\ call \in [Threads -> [op : Ops, at : Steps, id : Ids \cup {Null},
                             found : Sessions \cup {Null}]]
    /\ inserting \subseteq Threads /\ overlapped \subseteq Threads
    /\ raced \in [Threads -> SUBSET Ids] /\ detached \subseteq Ids
    /\ mThread \in {"running", "quitting", "null"}
    /\ signalTasks \in Seq([id : Ids, dead : Sessions])
    /\ born \subseteq Sessions
    /\ remote \in [Sessions -> Ids \cup {Null}]
    /\ negotiation \in [Sessions -> Negotiation]
    /\ timedOut \in [Sessions -> BOOLEAN] /\ alive \in [Sessions -> BOOLEAN]
    /\ reported \subseteq Sessions

\* While the signal thread runs, a session whose death has been reported to the
\* application and that is still in the table is on its way out: its removal is in the
\* thread's queue.  (Without a thread the death is reported and nothing is posted.)
RemovalPending ==
    mThread = "running" =>
        \A id \in Ids : mSessionList[id] \in reported =>
            \E i \in 1..Len(signalTasks) : signalTasks[i] = [id |-> id, dead |-> mSessionList[id]]

\* A session is in the record of its own user only: however lookups, removals and
\* replacements interleave, a packet for one user never reaches another's session.
RecordsMatchUsers ==
    \A id \in Ids : mSessionList[id] \in Sessions => remote[mSessionList[id]] = id

\* The session a call works on belongs to the user the call names.
FoundMatchesCall ==
    \A t \in Threads : call[t].found # Null => remote[call[t].found] = call[t].id

\* The session mutex is held by a thread that is inside a locked section of the
\* manager and by no other: InitiateIncomingSession and InitiateOutgoingSession
\* never hold it, which is what lets them call ClearPacketData.
LockedSections ==
    \A t \in Threads :
        (mSessionCreationMutex = t) <=>
            \/ call[t].at = "known"
            \/ call[t].op \in LookupOps /\ call[t].at \in {"filter", "notify", "read", "use", "unlock"}
            \/ call[t].op \in FindOps \cup {"IsPacketAvailable"} /\ call[t].at \in {"use", "unlock"}

\* Thread t is blocked on a mutex that u holds.
WaitsFor(t, u) ==
    \/ At(t, "lockApi") /\ mApiLevelMutex = u
    \/ call[t].at \in {"lockKnown", "lockMgr", "clear"} /\ mSessionCreationMutex = u

\* The two mutexes cannot deadlock: who holds one that another thread waits for is
\* inside a call, and a chain of waiting threads, from the interface's mutex to the
\* manager's, ends after two of them with a thread that can run.
NoCircularWait ==
    \A t, u \in Threads : WaitsFor(t, u) =>
        /\ ~At(u, "idle")
        /\ \A v, w \in Threads : ~(WaitsFor(u, v) /\ WaitsFor(v, w))

\* Calls that take the session mutex never change the tree of mSessionList at the same
\* time: when two threads do, one of them is in an Initiate function, which takes none.
OnlyInitiateRaces ==
    \A t, u \in inserting :
        t = u \/ call[t].op \in Initiating \/ call[u].op \in Initiating

\* What SessionTable sees: a record without a session is no record, and a session
\* found dead is not given to the caller.
Held(id) == IF mSessionList[id] = NoRecord THEN Null ELSE mSessionList[id]
TableView == [id \in Ids |-> Held(id)]
UserView == [t \in Threads |-> call[t].id]
Given(c) == IF c.at = "notify" THEN Null ELSE c.found
GivenView == [t \in Threads |-> Given(call[t])]

Table == INSTANCE SessionTable WITH
    Users <- Ids, table <- TableView, owner <- remote, calling <- UserView, got <- GivenView

\* Although calls use the map without its mutex and removals run late: a call is given
\* the session that is current at one instant, or none; the application's calls make a
\* session only if they were given none; and a record is emptied only for a request
\* from outside or after a session of its user was reported dead.  A session is missed
\* or lost otherwise only by a call that overlaps another.
ImplementsTable == Table!Spec

\* A dead session that was reported while the signal thread ran leaves the table, a
\* shutdown in between included.
DeadSessionLeaves ==
    \A s \in Sessions :
        (s \in reported /\ mThread = "running") ~> (\A id \in Ids : mSessionList[id] # s)

\* No call keeps the session mutex for ever, although callbacks, the second lock
\* and the signal thread's own calls come in between.
MutexReleased ==
    \A t \in Threads : (mSessionCreationMutex = t) ~> (mSessionCreationMutex # t)
=============================================================================
