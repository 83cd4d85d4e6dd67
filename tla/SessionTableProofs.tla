------------------------- MODULE SessionTableProofs -------------------------
(***************************************************************************)
(* SessionManager implements SessionTable, and its two mutexes cannot      *)
(* deadlock.  To the inductive invariant of SessionManagerProofs this adds *)
(* what a call has found at each step, who holds the interface's mutex,    *)
(* whom the queued removals are for, which calls overlap, and that a call  *)
(* which overlaps none inserts into a map that stays as it was.            *)
(***************************************************************************)
EXTENDS SessionManagerProofs

\* A call that has not read the table has no session, and the signal thread and
\* the application make different calls.
ShapeOK(t, c) ==
    /\ c.at = "idle" => c.id = Null /\ c.found = Null
    /\ c.at \in {"lockApi", "lockKnown", "known", "lockMgr", "filter", "open", "read"} =>
         c.found = Null
    /\ c.at \in {"clear", "store"} /\ c.op = "InitiateOutgoingSession" => c.found = Null
    /\ t = Signal => c.op \in {"none", "ProcessError", "InitiateIncomingSession"}
    /\ t # Signal => c.op # "InitiateIncomingSession"

ShapesOK == \A t \in Threads : ShapeOK(t, call[t])

Outside == {"idle", "lockApi"}

\* The interface's mutex is held from the second step of a call to its last.
ApiOK == \A t \in ApiThreads : (mApiLevelMutex = t) <=> call[t].at \notin Outside

\* A session has no user until it is created, and a queued removal is for the user
\* of a session that was reported.
QueueOK ==
    /\ \A s \in Sessions \ born : remote[s] = Null
    /\ \A i \in 1..Len(signalTasks) :
         signalTasks[i].dead \in reported /\ remote[signalTasks[i].dead] = signalTasks[i].id

\* Of two calls in progress each overlaps the other.
OverlapOK ==
    \A t, u \in Threads : t # u /\ ~At(t, "idle") /\ ~At(u, "idle") => t \in overlapped

\* While a call that overlaps none inserts a record, nobody else does.
InsertOK ==
    \A t \in inserting \ overlapped : raced[t] = {} /\ mSessionList[call[t].id] = NoRecord

SharedInv == ManagerInv /\ ShapesOK /\ ApiOK /\ QueueOK /\ OverlapOK /\ InsertOK

-----------------------------------------------------------------------------
(* The control flow of a call.                                             *)

\* A step of a call in progress.
CallStep(t) == Step(t) \/ (t = Signal /\ (CheckOverlap \/ EmptyRecord))

\* The steps that keep what the call has found, for any operation and for one.
Onward == {<<"lockApi", "lockKnown">>, <<"lockApi", "open">>, <<"lockApi", "lockMgr">>,
           <<"lockKnown", "known">>, <<"known", "lockMgr">>, <<"known", "unlock">>,
           <<"lockMgr", "filter">>, <<"lockMgr", "unlock">>, <<"filter", "read">>,
           <<"use", "unlock">>, <<"store", "unlock">>, <<"open", "unlock">>}
Incoming == {<<"use", "clear">>, <<"clear", "replace">>, <<"replace", "store">>}
Outgoing == {<<"open", "clear">>, <<"clear", "filter">>, <<"use", "store">>}
\* The steps that replace it.
Finding == {<<"lockMgr", "use">>, <<"filter", "notify">>, <<"notify", "use">>, <<"read", "use">>}

\* A call with operation op that has found s goes from one step to another.
Keeps(op, s, a, b) ==
    \/ <<a, b>> \in Onward
    \/ <<a, b>> \in Incoming /\ op = "InitiateIncomingSession"
    \/ <<a, b>> \in Outgoing /\ op = "InitiateOutgoingSession" /\ (a = "use" => s = Null)

\* One step of a call turns a into b.
Moves(a, b) ==
    \/ b = Idle /\ a.at \in {"lockApi", "unlock"}
    \/ /\ b.op = a.op /\ b.id = a.id
       /\ \/ b.found = a.found /\ Keeps(a.op, a.found, a.at, b.at)
          \/ <<a.at, b.at>> \in Finding

\* A thread goes on with the session it has.
LEMMA GotoMoves ==
    ASSUME CallsOK, NEW t \in Threads, NEW step \in Steps, Goto(t, step),
           Keeps(call[t].op, call[t].found, call[t].at, step)
    PROVE  \E c \in Calls : call' = [call EXCEPT ![t] = c] /\ Moves(call[t], c)
<1>1. PICK c \in Calls :
        /\ call' = [call EXCEPT ![t] = c]
        /\ c.op = call[t].op /\ c.at = step /\ c.id = call[t].id /\ c.found = call[t].found
  BY GotoIs
<1>2. Moves(call[t], c)
  BY <1>1 DEF Moves
<1> QED
  BY <1>1, <1>2

\* A thread goes on with another session, or without.
LEMMA FoundMoves ==
    ASSUME CallsOK, NEW t \in Threads, NEW step \in Steps, NEW s \in Sessions \cup {Null},
           Found(t, step, s), <<call[t].at, step>> \in Finding
    PROVE  \E c \in Calls : call' = [call EXCEPT ![t] = c] /\ Moves(call[t], c)
<1>1. PICK c \in Calls :
        /\ call' = [call EXCEPT ![t] = c]
        /\ c.op = call[t].op /\ c.at = step /\ c.id = call[t].id /\ c.found = s
  BY FoundIs
<1>2. Moves(call[t], c)
  BY <1>1 DEF Moves
<1> QED
  BY <1>1, <1>2

LEMMA IdleIsCall == Idle \in Calls
  BY DEF Idle, Calls, Ops, Steps

\* Every step of a thread inside a call follows the control flow.
LEMMA StepMoves ==
    ASSUME ManagerInv, NEW t \in Threads, CallStep(t), ~BeginInsert(t)
    PROVE  \E c \in Calls : call' = [call EXCEPT ![t] = c] /\ Moves(call[t], c)
<1>0. CallsOK /\ TableOK
  BY DEF ManagerInv
<1>1. CASE LockApi(t)
  <2>1. call[t].at = "lockApi"
    BY <1>1 DEF LockApi, At
  <2>2. CASE End(t)
    BY <2>1, <2>2, IdleIsCall DEF Moves, End
  <2>3. ASSUME NEW step \in {"lockKnown", "open", "lockMgr"}, Goto(t, step)
        PROVE  \E c \in Calls : call' = [call EXCEPT ![t] = c] /\ Moves(call[t], c)
    BY <1>0, <2>1, <2>3, GotoMoves DEF Steps, Onward, Keeps
  <2> QED
    BY <1>1, <2>2, <2>3 DEF LockApi
<1>2. CASE LockKnown(t) \/ HasKnownConnection(t)
  <2>1. \/ call[t].at = "lockKnown" /\ Goto(t, "known")
        \/ call[t].at = "known" /\ (Goto(t, "lockMgr") \/ Goto(t, "unlock"))
    BY <1>2 DEF LockKnown, HasKnownConnection, At
  <2> QED
    BY <1>0, <2>1, GotoMoves DEF Steps, Onward, Keeps
<1>3. CASE LockManager(t)
  <2>1. call[t].at = "lockMgr" /\ call[t].id \in Ids
    BY <1>3, CallFacts DEF LockManager, At
  <2>2. ASSUME NEW step \in {"filter", "unlock"}, Goto(t, step)
        PROVE  \E c \in Calls : call' = [call EXCEPT ![t] = c] /\ Moves(call[t], c)
    BY <1>0, <2>1, <2>2, GotoMoves DEF Steps, Onward, Keeps
  <2>3. ASSUME NEW s \in Find(t, call[t].id), Found(t, "use", s)
        PROVE  \E c \in Calls : call' = [call EXCEPT ![t] = c] /\ Moves(call[t], c)
    <3>1. s \in Sessions \cup {Null}
      BY <1>0, <2>1, <2>3, FindFinds
    <3> QED
      BY <1>0, <2>1, <2>3, <3>1, FoundMoves DEF Steps, Finding
  <2> QED
    BY <1>3, <2>2, <2>3 DEF LockManager
<1>4. CASE Unlock(t)
  BY <1>4, IdleIsCall DEF Unlock, At, Moves, End
<1>5. CASE FilterDeadSession(t)
  <2>1. call[t].at = "filter"
    BY <1>5 DEF FilterDeadSession, At
  <2>2. ASSUME NEW s \in Sessions \cup {Null}, Found(t, "notify", s)
        PROVE  \E c \in Calls : call' = [call EXCEPT ![t] = c] /\ Moves(call[t], c)
    BY <1>0, <2>1, <2>2, FoundMoves DEF Steps, Finding
  <2>3. CASE Goto(t, "read")
    BY <1>0, <2>1, <2>3, GotoMoves DEF Steps, Onward, Keeps
  <2> QED
    BY <1>5, <2>2, <2>3 DEF FilterDeadSession
<1>6. CASE NotifyDead(t) \/ ReadCurrent(t)
  <2>1. PICK s \in Sessions \cup {Null} :
          Found(t, "use", s) /\ <<call[t].at, "use">> \in Finding
    BY <1>6 DEF NotifyDead, ReadCurrent, At, Finding
  <2> QED
    BY <1>0, <2>1, FoundMoves DEF Steps
<1>7. CASE UseSession(t) \/ StoreSession(t)
  <2>1. call[t].at \in {"use", "store"} /\ Goto(t, "unlock")
    BY <1>7 DEF UseSession, StoreSession, At
  <2> QED
    BY <1>0, <2>1, GotoMoves DEF Steps, Onward, Keeps
<1>8. CASE ClearPacketData(t)
  <2>1. call[t].at = "clear" /\ call[t].op \in Initiating
    BY <1>8, CallFacts DEF ClearPacketData, At, OpsAt
  <2>2. \/ Goto(t, "replace") /\ call[t].op = "InitiateIncomingSession"
        \/ Goto(t, "filter") /\ call[t].op = "InitiateOutgoingSession"
    BY <1>8, <2>1 DEF ClearPacketData, Initiating
  <2> QED
    BY <1>0, <2>1, <2>2, GotoMoves DEF Steps, Incoming, Outgoing, Keeps
<1>9. CASE OpenOutgoing(t) \/ CheckCurrent(t)
  <2>1. /\ call[t].op = "InitiateOutgoingSession"
        /\ \/ call[t].at = "open" /\ (Goto(t, "unlock") \/ Goto(t, "clear"))
           \/ call[t].at = "use" /\ (Goto(t, "unlock") \/ (call[t].found = Null /\ Goto(t, "store")))
    BY <1>9, CallFacts DEF OpenOutgoing, CheckCurrent, At, OpsAt
  <2> QED
    BY <1>0, <2>1, GotoMoves DEF Steps, Onward, Outgoing, Keeps
<1>10. CASE t = Signal /\ (CheckOverlap \/ EmptyRecord)
  <2>1. /\ call[t].op = "InitiateIncomingSession"
        /\ \/ call[t].at = "use" /\ (Goto(t, "unlock") \/ Goto(t, "clear"))
           \/ call[t].at = "replace" /\ Goto(t, "store")
    BY <1>10, CallFacts DEF CheckOverlap, EmptyRecord, At, OpsAt
  <2> QED
    BY <1>0, <2>1, GotoMoves DEF Steps, Onward, Incoming, Keeps
<1> QED
  BY <1>1, <1>2, <1>3, <1>4, <1>5, <1>6, <1>7, <1>8, <1>9, <1>10 DEF Step, CallStep

-----------------------------------------------------------------------------
(* The added parts of the invariant.                                       *)

LEMMA ShapesMove ==
    ASSUME CallsOK, ShapesOK, NEW t \in Threads, NEW c \in Calls,
           call' = [call EXCEPT ![t] = c], Moves(call[t], c)
    PROVE  ShapesOK'
<1>1. call'[t] = c /\ \A u \in Threads \ {t} : call'[u] = call[u]
  BY DEF CallsOK
<1>2. ShapeOK(t, call[t])
  BY DEF ShapesOK
<1>3. ShapeOK(t, c)
  <2>1. CASE c = Idle
    BY <2>1 DEF ShapeOK, Idle
  <2>2. CASE /\ c.op = call[t].op /\ c.id = call[t].id
             /\ \/ c.found = call[t].found /\ <<call[t].at, c.at>> \in Onward
                \/ <<call[t].at, c.at>> \in Finding
    BY <1>2, <2>2 DEF ShapeOK, Onward, Finding
  <2>3. CASE /\ c.op = call[t].op /\ c.id = call[t].id /\ c.found = call[t].found
             /\ \/ <<call[t].at, c.at>> \in Incoming /\ call[t].op = "InitiateIncomingSession"
                \/ /\ <<call[t].at, c.at>> \in Outgoing /\ call[t].op = "InitiateOutgoingSession"
                   /\ call[t].at = "use" => call[t].found = Null
    BY <1>2, <2>3 DEF ShapeOK, Incoming, Outgoing
  <2> QED
    BY <2>1, <2>2, <2>3 DEF Moves, Keeps
<1>4. \A u \in Threads \ {t} : ShapeOK(u, call'[u])
  BY <1>1 DEF ShapesOK
<1> QED
  BY <1>1, <1>3, <1>4 DEF ShapesOK, ShapeOK

\* A thread moves between two steps that both hold the interface's mutex, or both
\* do not; the signal thread never does.
LEMMA ApiStays ==
    ASSUME CallsOK, ApiOK, NEW t \in Threads, NEW c, call' = [call EXCEPT ![t] = c],
           t \in ApiThreads => (c.at \in Outside <=> call[t].at \in Outside),
           UNCHANGED mApiLevelMutex
    PROVE  ApiOK'
<1>1. call'[t] = c /\ \A u \in Threads \ {t} : call'[u] = call[u]
  BY DEF CallsOK
<1> QED
  BY <1>1 DEF ApiOK, Threads

LEMMA ApiTaken ==
    ASSUME CallsOK, ApiOK, NEW t \in ApiThreads, NEW c, call' = [call EXCEPT ![t] = c],
           mApiLevelMutex = Free, mApiLevelMutex' = t, c.at \notin Outside
    PROVE  ApiOK'
<1>1. call'[t] = c /\ \A u \in Threads \ {t} : call'[u] = call[u]
  BY DEF CallsOK, Threads
<1>2. \A u \in ApiThreads : call[u].at \in Outside
  BY FreeIsNoThread DEF ApiOK, Threads
<1> QED
  BY <1>1, <1>2 DEF ApiOK, Threads

LEMMA ApiReleased ==
    ASSUME CallsOK, ApiOK, NEW t \in Threads, call' = [call EXCEPT ![t] = Idle],
           call[t].at \notin Outside,
           mApiLevelMutex' = IF mApiLevelMutex = t THEN Free ELSE mApiLevelMutex
    PROVE  ApiOK'
<1>1. call'[t] = Idle /\ \A u \in Threads \ {t} : call'[u] = call[u]
  BY DEF CallsOK
<1>2. Idle.at \in Outside
  BY DEF Idle, Outside
<1> QED
  BY <1>1, <1>2, FreeIsNoThread DEF ApiOK, Threads

\* Every step of a call keeps track of the interface's mutex.
LEMMA ApiStep ==
    ASSUME ManagerInv, ShapesOK, ApiOK, NEW t \in Threads, CallStep(t), ~BeginInsert(t)
    PROVE  ApiOK'
<1>0. CallsOK /\ ShapeOK(t, call[t])
  BY DEF ManagerInv, ShapesOK
<1>1. PICK c \in Calls : call' = [call EXCEPT ![t] = c] /\ Moves(call[t], c)
  BY StepMoves
<1>2. call'[t] = c
  BY <1>0, <1>1 DEF CallsOK
<1>3. CASE LockApi(t)
  <2>1. call[t].at = "lockApi" /\ t \in ApiThreads /\ mApiLevelMutex = Free
    BY <1>3, CallFacts DEF LockApi, At, Threads
  <2>2. CASE End(t) /\ UNCHANGED mApiLevelMutex
    BY <1>0, <2>1, <2>2, ApiStays DEF Idle, Outside, End
  <2>3. CASE mApiLevelMutex' = t /\ (Goto(t, "lockKnown") \/ Goto(t, "open") \/ Goto(t, "lockMgr"))
    <3>1. c.at \in {"lockKnown", "open", "lockMgr"}
      BY <1>0, <1>2, <2>3 DEF Goto, CallsOK, Calls
    <3> QED
      BY <1>0, <1>1, <2>1, <2>3, <3>1, ApiTaken DEF Outside
  <2> QED
    BY <1>3, <2>2, <2>3 DEF LockApi
<1>4. CASE Unlock(t)
  BY <1>0, <1>4, ApiReleased DEF Unlock, At, Outside, End
<1>5. CASE ~LockApi(t) /\ ~Unlock(t)
  <2>1. UNCHANGED mApiLevelMutex /\ call[t].at \notin {"idle", "lockApi", "unlock"}
    BY <1>5 DEF CallStep, Step, LockKnown, HasKnownConnection, LockManager, FilterDeadSession,
                NotifyDead, ReadCurrent, UseSession, ClearPacketData, OpenOutgoing,
                CheckCurrent, StoreSession, CheckOverlap, EmptyRecord, At
  <2>2. c.at \notin Outside
    BY <1>1, <2>1 DEF Moves, Keeps, Onward, Incoming, Outgoing, Finding, Outside
  <2> QED
    BY <1>0, <1>1, <2>1, <2>2, ApiStays DEF Outside
<1> QED
  BY <1>3, <1>4, <1>5

\* The queue and the users of sessions as they are.
LEMMA QueueStays ==
    ASSUME QueueOK, UNCHANGED <<born, remote, signalTasks>>, reported \subseteq reported'
    PROVE  QueueOK'
BY DEF QueueOK

LEMMA QueueCreate ==
    ASSUME TableOK, QueueOK, NEW id, NEW s \in Sessions, NEW n, Create(id, s, n),
           UNCHANGED <<signalTasks, reported>>
    PROVE  QueueOK'
<1>1. s \notin born /\ born' = born \cup {s} /\ remote' = [remote EXCEPT ![s] = id]
  BY DEF Create
<1>2. \A r \in Sessions \ {s} : remote'[r] = remote[r]
  BY <1>1 DEF TableOK
<1>3. reported \subseteq Sessions \ {s}
  BY <1>1 DEF TableOK
<1> QED
  BY <1>1, <1>2, <1>3 DEF QueueOK

LEMMA QueuePosted ==
    ASSUME TableOK, QueueOK, NEW id \in Ids, NEW s \in Sessions, remote[s] = id,
           signalTasks' = Append(signalTasks, [id |-> id, dead |-> s]),
           reported' = reported \cup {s}, UNCHANGED <<born, remote>>
    PROVE  QueueOK'
<1>1. /\ Len(signalTasks) \in Nat /\ Len(signalTasks') = Len(signalTasks) + 1
      /\ \A i \in 1..Len(signalTasks) : signalTasks'[i] = signalTasks[i]
      /\ signalTasks'[Len(signalTasks) + 1] = [id |-> id, dead |-> s]
  BY DEF TableOK
<1>2. ASSUME NEW i \in 1..Len(signalTasks')
      PROVE  signalTasks'[i].dead \in reported' /\ remote'[signalTasks'[i].dead] = signalTasks'[i].id
  <2>1. CASE i \in 1..Len(signalTasks)
    BY <1>1, <2>1 DEF QueueOK
  <2>2. CASE i = Len(signalTasks) + 1
    BY <1>1, <2>2
  <2> QED
    BY <1>1, <2>1, <2>2
<1> QED
  BY <1>2 DEF QueueOK

LEMMA QueueRun ==
    ASSUME TableOK, QueueOK, signalTasks # <<>>, signalTasks' = Tail(signalTasks),
           UNCHANGED <<born, remote, reported>>
    PROVE  QueueOK'
<1>1. /\ Len(signalTasks) \in Nat /\ Len(signalTasks') = Len(signalTasks) - 1
      /\ \A i \in 1..Len(signalTasks') : signalTasks'[i] = signalTasks[i + 1]
  BY DEF TableOK
<1>2. \A i \in 1..Len(signalTasks') : i + 1 \in 1..Len(signalTasks)
  BY <1>1
<1> QED
  BY <1>1, <1>2 DEF QueueOK

LEMMA QueueStep ==
    ASSUME ManagerInv, QueueOK, NEW t \in Threads, CallStep(t)
    PROVE  QueueOK'
<1>0. TableOK
  BY DEF ManagerInv
<1>1. CASE NotifyDead(t)
  <2>1. /\ call[t].id \in Ids /\ call[t].found \in Sessions
        /\ remote[call[t].found] = call[t].id
        /\ reported' = reported \cup {call[t].found} /\ UNCHANGED <<born, remote>>
    BY <1>1, CallFacts DEF NotifyDead, At, sessionVars
  <2>2. CASE UNCHANGED signalTasks
    BY <2>1, <2>2, QueueStays
  <2>3. CASE signalTasks' = Append(signalTasks, [id |-> call[t].id, dead |-> call[t].found])
    BY <1>0, <2>1, <2>3, QueuePosted
  <2> QED
    BY <1>1, <2>2, <2>3 DEF NotifyDead, PostRemoval
<1>2. CASE StoreSession(t)
  <2>1. UNCHANGED <<signalTasks, reported>>
    BY <1>2 DEF StoreSession, threadVars
  <2>2. CASE UNCHANGED sessionVars
    BY <2>1, <2>2, QueueStays DEF sessionVars
  <2>3. ASSUME NEW s \in Sessions, NEW n, Create(call[t].id, s, n) PROVE QueueOK'
    BY <1>0, <2>1, <2>3, QueueCreate
  <2> QED
    BY <1>2, <2>2, <2>3 DEF StoreSession
<1>3. CASE ~NotifyDead(t) /\ ~StoreSession(t)
  <2>1. UNCHANGED <<born, remote, signalTasks, reported>>
    BY <1>3 DEF CallStep, Step, LockApi, LockKnown, HasKnownConnection, LockManager, Unlock,
                BeginInsert, FilterDeadSession, ReadCurrent, UseSession, ClearPacketData,
                OpenOutgoing, CheckCurrent, CheckOverlap, EmptyRecord, sessionVars, threadVars
  <2> QED
    BY <2>1, QueueStays
<1> QED
  BY <1>1, <1>2, <1>3

\* A thread inside a call stays among the calls that overlap, until its call ends.
LEMMA OverlapStep ==
    ASSUME NEW t \in Threads, CallStep(t)
    PROVE  /\ call[t].at # "idle"
           /\ UNCHANGED overlapped \/ End(t)
<1>1. call[t].at # "idle"
  BY DEF CallStep, Step, LockApi, LockKnown, HasKnownConnection, LockManager, Unlock,
         BeginInsert, FilterDeadSession, NotifyDead, ReadCurrent, UseSession, ClearPacketData,
         OpenOutgoing, CheckCurrent, StoreSession, CheckOverlap, EmptyRecord, At, IndexSteps
<1>2. UNCHANGED overlapped \/ End(t)
  BY DEF CallStep, Step, LockApi, LockKnown, HasKnownConnection, LockManager, Unlock,
         BeginInsert, FilterDeadSession, NotifyDead, ReadCurrent, UseSession, ClearPacketData,
         OpenOutgoing, CheckCurrent, StoreSession, CheckOverlap, EmptyRecord
<1> QED
  BY <1>1, <1>2

LEMMA OverlapMoves ==
    ASSUME CallsOK, OverlapOK, NEW t \in Threads, call[t].at # "idle", NEW c,
           call' = [call EXCEPT ![t] = c], UNCHANGED overlapped \/ End(t)
    PROVE  OverlapOK'
<1>1. call'[t] = c /\ \A u \in Threads \ {t} : call'[u] = call[u]
  BY DEF CallsOK
<1>2. CASE UNCHANGED overlapped
  BY <1>1, <1>2 DEF OverlapOK, At
<1>3. CASE End(t)
  <2>1. call'[t].at = "idle"
    BY <1>3 DEF End, Idle, CallsOK
  <2>2. overlapped' = overlapped \ {t}
    BY <1>3 DEF End
  <2> QED
    BY <1>1, <2>1, <2>2 DEF OverlapOK, At
<1> QED
  BY <1>2, <1>3

LEMMA OverlapBegins ==
    ASSUME CallsOK, MapOK, OverlapOK, InsertOK, NEW t \in Threads, NEW c, Begin(t, c),
           UNCHANGED mapVars
    PROVE  OverlapOK' /\ InsertOK'
<1> DEFINE busy == {u \in Threads : ~At(u, "idle")}
<1>1. /\ call[t].at = "idle" /\ call' = [call EXCEPT ![t] = c]
      /\ overlapped' = IF busy = {} THEN overlapped ELSE overlapped \cup busy \cup {t}
  BY DEF Begin, At
<1>2. call'[t] = c /\ \A u \in Threads \ {t} : call'[u] = call[u]
  BY <1>1 DEF CallsOK
<1>3. \A u \in busy : u \in overlapped' /\ t \in overlapped'
  BY <1>1
<1>4. ASSUME NEW u \in Threads, NEW v \in Threads, u # v, ~At(u, "idle")', ~At(v, "idle")'
      PROVE  u \in overlapped'
  <2>1. CASE u = t
    <3>1. v \in busy
      BY <1>2, <1>4, <2>1 DEF At
    <3> QED
      BY <1>3, <2>1, <3>1
  <2>2. CASE u # t
    <3>1. u \in busy
      BY <1>2, <1>4, <2>2 DEF At
    <3> QED
      BY <1>3, <3>1
  <2> QED
    BY <2>1, <2>2
<1>5. inserting \subseteq busy
  BY DEF MapOK, IndexSteps, At
<1> QED
  BY <1>3, <1>4, <1>5 DEF OverlapOK, InsertOK, mapVars

\* A step of a call other than the beginning of an insertion leaves its thread outside
\* one, and begins no other.
LEMMA InsertersLeave ==
    ASSUME ManagerInv, NEW t \in Threads, CallStep(t), ~BeginInsert(t)
    PROVE  inserting' \subseteq inserting \ {t}
<1>1. CASE t \notin inserting /\ UNCHANGED inserting
  BY <1>1
<1>2. ASSUME NEW x, EndInsert(t, x) PROVE inserting' \subseteq inserting \ {t}
  BY <1>2 DEF EndInsert
<1>3. ASSUME NEW s, Index(t, s) PROVE inserting' \subseteq inserting \ {t}
  BY <1>1, <1>2, <1>3 DEF Index, mapVars
<1>4. ASSUME NEW s, Assign(t, s) PROVE inserting' \subseteq inserting \ {t}
  BY <1>1, <1>2, <1>4 DEF Assign
<1>5. CASE call[t].at \notin IndexSteps
  <2>1. UNCHANGED inserting
    BY <1>5 DEF CallStep, Step, LockApi, LockKnown, HasKnownConnection, LockManager, Unlock,
         FilterDeadSession, NotifyDead, ReadCurrent, UseSession, ClearPacketData, OpenOutgoing,
         CheckCurrent, StoreSession, CheckOverlap, EmptyRecord, At, IndexSteps, mapVars
  <2> QED
    BY <1>1, <1>5, <2>1, CallFacts
<1>6. CASE call[t].at \in IndexSteps
  <2>1. \/ HasKnownConnection(t) \/ FilterDeadSession(t) \/ ReadCurrent(t) \/ StoreSession(t)
        \/ t = Signal /\ EmptyRecord
    BY <1>6 DEF CallStep, Step, LockApi, LockKnown, LockManager, Unlock, NotifyDead, UseSession,
         ClearPacketData, OpenOutgoing, CheckCurrent, CheckOverlap, At, IndexSteps
  <2>2. CASE HasKnownConnection(t) \/ FilterDeadSession(t) \/ ReadCurrent(t)
    BY <1>3, <2>2 DEF HasKnownConnection, FilterDeadSession, ReadCurrent
  <2>3. CASE StoreSession(t)
    BY <1>1, <1>2, <1>4, <2>3 DEF StoreSession, mapVars
  <2>4. CASE t = Signal /\ EmptyRecord
    BY <1>1, <1>4, <2>4 DEF EmptyRecord, mapVars
  <2> QED
    BY <2>1, <2>2, <2>3, <2>4
<1> QED
  BY <1>5, <1>6

\* A thread that races with another is in a call that overlaps.
LEMMA RaceOverlaps ==
    ASSUME MapOK, OverlapOK, NEW t \in Threads, call[t].at # "idle", Racing(t)
    PROVE  t \in overlapped
BY DEF MapOK, OverlapOK, Racing, At, IndexSteps

LEMMA InsertStep ==
    ASSUME ManagerInv, OverlapOK, InsertOK, NEW t \in Threads, CallStep(t)
    PROVE  InsertOK'
<1>0. CallsOK /\ MapOK
  BY DEF ManagerInv
<1>1. call[t].at # "idle" /\ (UNCHANGED overlapped \/ End(t))
  BY OverlapStep
<1>2. overlapped \ {t} \subseteq overlapped'
  BY <1>1 DEF End
<1>3. inserting' \subseteq inserting \cup {t}
  BY InsertersLeave DEF BeginInsert
<1>4. ASSUME NEW u \in inserting' \ overlapped', u # t PROVE FALSE
  <2>1. u \in inserting /\ u \notin overlapped
    BY <1>2, <1>3, <1>4
  <2>2. u \in Threads /\ ~At(u, "idle") /\ ~At(t, "idle")
    BY <1>0, <1>1, <2>1 DEF MapOK, IndexSteps, At
  <2> QED
    BY <1>4, <2>1, <2>2 DEF OverlapOK
<1>5. CASE ~BeginInsert(t)
  BY <1>4, <1>5, InsertersLeave DEF InsertOK
<1>6. CASE BeginInsert(t)
  <2>1. /\ UNCHANGED <<mSessionList, call, overlapped>> /\ raced'[t] = {}
        /\ mSessionList[call[t].id] = NoRecord \/ Racing(t)
    BY <1>0, <1>6 DEF BeginInsert, Misses, MapOK
  <2>2. t \in overlapped \/ mSessionList[call[t].id] = NoRecord
    BY <1>0, <1>1, <2>1, RaceOverlaps
  <2> QED
    BY <1>4, <2>1, <2>2 DEF InsertOK
<1> QED
  BY <1>5, <1>6

-----------------------------------------------------------------------------
(* The invariant, and the deadlock.                                        *)

LEMMA SharedInitially == Init => SharedInv
<1> SUFFICES ASSUME Init PROVE SharedInv
  OBVIOUS
<1>1. ManagerInv
  BY ManagerInitially
<1>2. ShapesOK
  BY DEF Init, ShapesOK, ShapeOK, Idle
<1>3. ApiOK
  BY FreeIsNoThread DEF Init, ApiOK, Idle, Outside, Threads
<1>4. QueueOK
  BY DEF Init, QueueOK
<1>5. OverlapOK /\ InsertOK
  BY DEF Init, OverlapOK, InsertOK, Idle, At
<1> QED
  BY <1>1, <1>2, <1>3, <1>4, <1>5 DEF SharedInv

\* Steps of no thread in a call.
Background ==
    \/ ShutdownStop \/ ShutdownClear
    \/ \E s \in Sessions : ConnectResponse(s) \/ TimePasses(s)

\* The kinds of steps.
LEMMA StepKinds ==
    ASSUME Next
    PROVE  \/ BeginSignal \/ \E t \in ApiThreads : BeginApiCall(t)
           \/ \E t \in Threads : CallStep(t)
           \/ RemoveTask \/ Background
BY DEF Next, SignalStep, CallStep, Background, Threads

LEMMA SharedStep ==
    ASSUME SharedInv, [Next]_vars
    PROVE  SharedInv'
<1>0. /\ ManagerInv /\ CallsOK /\ TableOK /\ MapOK /\ ShapesOK /\ ApiOK /\ QueueOK
      /\ OverlapOK /\ InsertOK
  BY DEF SharedInv, ManagerInv
<1>1. ManagerInv'
  BY <1>0, ManagerStep
<1>2. ASSUME NEW t \in Threads, CallStep(t)
      PROVE  ShapesOK' /\ ApiOK' /\ QueueOK' /\ OverlapOK' /\ InsertOK'
  <2>1. QueueOK' /\ InsertOK'
    BY <1>0, <1>2, QueueStep, InsertStep
  <2>2. CASE BeginInsert(t)
    BY <1>0, <2>1, <2>2 DEF BeginInsert, ShapesOK, ShapeOK, ApiOK, OverlapOK, At
  <2>3. CASE ~BeginInsert(t)
    <3>1. PICK c \in Calls : call' = [call EXCEPT ![t] = c] /\ Moves(call[t], c)
      BY <1>0, <1>2, <2>3, StepMoves
    <3>2. ShapesOK' /\ ApiOK'
      BY <1>0, <1>2, <2>3, <3>1, ShapesMove, ApiStep
    <3>3. OverlapOK'
      BY <1>0, <1>2, <3>1, OverlapStep, OverlapMoves
    <3> QED
      BY <2>1, <3>2, <3>3
  <2> QED
    BY <2>2, <2>3
<1>3. CASE BeginSignal \/ \E t \in ApiThreads : BeginApiCall(t)
  <2>1. PICK t \in Threads, c \in Calls :
          /\ Begin(t, c) /\ c.id \in Ids /\ c.found = Null
          /\ \/ t \in ApiThreads /\ c.at = "lockApi"
                /\ c.op # "InitiateIncomingSession"
             \/ t = Signal /\ c.at \in {"lockMgr", "filter"}
                /\ c.op \in {"ProcessError", "InitiateIncomingSession"}
          /\ UNCHANGED <<mapVars, mApiLevelMutex, threadVars, sessionVars, reported>>
    BY <1>0, <1>3, BeginShape DEF ApiOps, FindOps
  <2>2. /\ call[t].at = "idle" /\ call' = [call EXCEPT ![t] = c] /\ call'[t] = c
        /\ \A u \in Threads \ {t} : call'[u] = call[u]
    BY <1>0, <2>1 DEF CallsOK, Begin, At
  <2>3. ShapeOK(t, c)
    BY <2>1, ManagerConstants DEF ShapeOK
  <2>4. ShapesOK'
    BY <1>0, <2>2, <2>3 DEF ShapesOK, ShapeOK
  <2>5. t \in ApiThreads => (c.at \in Outside <=> call[t].at \in Outside)
    BY <2>1, <2>2, ManagerConstants DEF Outside
  <2>6. ApiOK'
    BY <1>0, <2>1, <2>2, <2>5, ApiStays
  <2>7. OverlapOK' /\ InsertOK'
    BY <1>0, <2>1, OverlapBegins
  <2>8. QueueOK'
    BY <1>0, <2>1, QueueStays DEF sessionVars, threadVars
  <2> QED
    BY <1>1, <2>4, <2>6, <2>7, <2>8 DEF SharedInv
<1>4. CASE RemoveTask
  <2>1. UNCHANGED <<call, mApiLevelMutex, overlapped, inserting, raced>>
    BY <1>4 DEF RemoveTask
  <2>2. QueueOK'
    BY <1>0, <1>4, QueueRun DEF RemoveTask, sessionVars
  <2>3. \A j \in Ids : mSessionList[j] = NoRecord => mSessionList'[j] = NoRecord
    BY <1>0, <1>4 DEF RemoveTask, EmptyRecordOf, TableOK
  <2>4. \A t \in inserting : call[t].id \in Ids
    BY <1>0, CallFacts DEF MapOK, IndexSteps
  <2>5. InsertOK'
    BY <1>0, <2>1, <2>3, <2>4 DEF InsertOK
  <2> QED
    BY <1>0, <1>1, <2>1, <2>2, <2>5 DEF ShapesOK, ShapeOK, ApiOK, OverlapOK, At, SharedInv
<1>5. CASE UNCHANGED vars \/ Background
  <2>1. UNCHANGED <<call, mApiLevelMutex, born, remote, signalTasks, reported, overlapped,
                    inserting, raced, mSessionList>>
    BY <1>5 DEF vars, mapVars, sessionVars, threadVars, Background, ShutdownStop, ShutdownClear,
                ConnectResponse, TimePasses
  <2>2. QueueOK'
    BY <1>0, <2>1, QueueStays
  <2> QED
    BY <1>0, <1>1, <2>1, <2>2
       DEF ShapesOK, ShapeOK, ApiOK, OverlapOK, InsertOK, At, SharedInv
<1> QED
  BY <1>1, <1>2, <1>3, <1>4, <1>5, StepKinds DEF SharedInv

\* The inductive invariant with the interface's mutex, the queue of removals and the
\* calls that overlap.
THEOREM SharedInvariant == Spec => []SharedInv
<1>1. SharedInv /\ [Next]_vars => SharedInv'
  BY SharedStep
<1> QED
  BY <1>1, SharedInitially, PTL DEF Spec

\* Neither mutex is ever waited for in a circle, nor held by a thread outside a
\* call, for any number of application threads.
THEOREM DeadlockFree == Spec => []NoCircularWait
<1>1. SharedInv => NoCircularWait
  <2> SUFFICES ASSUME SharedInv PROVE NoCircularWait
    OBVIOUS
  <2>1. \A u \in Threads : mSessionCreationMutex = u =>
          call[u].at \in {"known", "filter", "notify", "read", "use", "unlock"}
    BY DEF SharedInv, ManagerInv, MutexOK, Locked
  <2>2. \A u \in Threads : mApiLevelMutex = u => call[u].at \notin Outside
    BY FreeIsNoThread DEF SharedInv, ApiOK, ManagerInv, RestOK
  <2>3. ASSUME NEW v \in Threads, NEW w \in Threads, WaitsFor(v, w),
               call[v].at # "lockApi"
        PROVE  \A u \in Threads : ~WaitsFor(w, u)
    BY <2>1, <2>3 DEF WaitsFor, At
  <2>4. ASSUME NEW t \in Threads, NEW u \in Threads, WaitsFor(t, u)
        PROVE  call[u].at \notin Outside
    BY <2>1, <2>2, <2>4 DEF WaitsFor, Outside
  <2> QED
    BY <2>3, <2>4 DEF NoCircularWait, Outside, At
<1> QED
  BY <1>1, SharedInvariant, PTL

-----------------------------------------------------------------------------
(* The refinement.                                                         *)

\* The views are functions of the threads.
LEMMA ViewFunctions ==
    /\ UserView = [u \in Threads |-> UserView[u]] /\ GivenView = [u \in Threads |-> GivenView[u]]
    /\ UserView' = [u \in Threads |-> UserView'[u]]
    /\ GivenView' = [u \in Threads |-> GivenView'[u]]
BY DEF UserView, GivenView

\* The views of a thread that replaces its call.
LEMMA CallViews ==
    ASSUME CallsOK, NEW t \in Threads, NEW c, call' = [call EXCEPT ![t] = c]
    PROVE  /\ UserView[t] = call[t].id /\ GivenView[t] = Given(call[t])
           /\ UserView'[t] = c.id /\ GivenView'[t] = Given(c)
           /\ \A u \in Threads \ {t} : UserView'[u] = UserView[u] /\ GivenView'[u] = GivenView[u]
<1>1. call'[t] = c /\ \A u \in Threads \ {t} : call'[u] = call[u]
  BY DEF CallsOK
<1>2. \A u \in Threads : UserView[u] = call[u].id /\ UserView'[u] = call'[u].id
  BY DEF UserView
<1>3. \A u \in Threads : GivenView[u] = Given(call[u]) /\ GivenView'[u] = Given(call'[u])
  BY DEF GivenView, Given
<1> QED
  BY <1>1, <1>2, <1>3

\* The view of a thread whose user and given session stay as they are.
LEMMA SameViews ==
    ASSUME CallsOK, NEW t \in Threads, NEW c, call' = [call EXCEPT ![t] = c],
           c.id = call[t].id, Given(c) = Given(call[t])
    PROVE  UNCHANGED <<UserView, GivenView>>
<1>1. call'[t] = c /\ \A u \in Threads \ {t} : call'[u] = call[u]
  BY DEF CallsOK
<1>2. \A u \in Threads : call'[u].id = call[u].id /\ Given(call'[u]) = Given(call[u])
  BY <1>1
<1>3. GivenView' = [u \in Threads |-> Given(call'[u])]
  BY DEF GivenView, Given
<1> QED
  BY <1>2, <1>3 DEF UserView, GivenView

\* The view of the table.
LEMMA ViewTable ==
    ASSUME NEW j \in Ids
    PROVE  TableView[j] = Held(j) /\ TableView'[j] = Held(j)'
<1>1. TableView' = [i \in Ids |-> Held(i)']
  BY DEF TableView
<1> QED
  BY <1>1 DEF TableView

LEMMA TableSet ==
    ASSUME TableOK, NEW id \in Ids, NEW x \in Sessions \cup {Null},
           mSessionList' = [mSessionList EXCEPT ![id] = x]
    PROVE  TableView' = [TableView EXCEPT ![id] = x]
<1>1. /\ Held(id)' = x
      /\ \A j \in Ids \ {id} : Held(j)' = Held(j)
  BY ManagerConstants DEF TableOK, Held
<1>2. TableView' = [j \in Ids |-> Held(j)']
  BY DEF TableView
<1> QED
  BY <1>1, <1>2 DEF TableView

LEMMA TableSame ==
    ASSUME UNCHANGED mSessionList
    PROVE  UNCHANGED TableView
BY DEF TableView, Held

\* An empty record is like none.
LEMMA TableEmptied ==
    ASSUME TableOK, NEW id \in Ids, NEW s, EmptyRecordOf(id, s)
    PROVE  TableView' \in {TableView, [TableView EXCEPT ![id] = Null]}
<1>1. CASE mSessionList' = [mSessionList EXCEPT ![id] = Null]
  BY <1>1, TableSet
<1>2. CASE UNCHANGED mSessionList
  BY <1>2, TableSame
<1> QED
  BY <1>1, <1>2 DEF EmptyRecordOf

\* The end of an insertion, by a call that overlaps another...
LEMMA TableRaced ==
    ASSUME TableOK, MapOK, NEW t \in Threads, call[t].id \in Ids,
           NEW x \in Sessions \cup {Null}, EndInsert(t, x)
    PROVE  \E z \in {x, TableView[call[t].id]}, lost \in SUBSET Ids :
             TableView' = Table!Without([TableView EXCEPT ![call[t].id] = z], lost)
<1> DEFINE id == call[t].id
<1>1. PICK lost \in SUBSET raced[t], y \in {x, mSessionList[id]} \ {NoRecord} :
        mSessionList' = [j \in Ids |-> IF j = id THEN y
                         ELSE IF j \in lost THEN NoRecord ELSE mSessionList[j]]
  BY DEF EndInsert
<1>2. lost \ {id} \in SUBSET Ids
  BY <1>1 DEF MapOK
<1>3. y \in {x, TableView[id]}
  BY <1>1, ViewTable DEF Held
<1>4. ASSUME NEW j \in Ids
      PROVE  Held(j)' = IF j = id THEN y ELSE IF j \in lost THEN Null ELSE Held(j)
  BY <1>1 DEF Held
<1>5. TableView' = [j \in Ids |-> Held(j)'] /\ TableView = [j \in Ids |-> Held(j)]
  BY DEF TableView
<1>6. TableView' = Table!Without([TableView EXCEPT ![id] = y], lost \ {id})
  BY <1>4, <1>5 DEF Table!Without
<1> QED
  BY <1>2, <1>3, <1>6

\* ... and by one that does not.
LEMMA TableInserted ==
    ASSUME SharedInv, NEW t \in Threads, call[t].id \in Ids, t \notin overlapped,
           NEW x \in Sessions \cup {Null}, EndInsert(t, x)
    PROVE  TableView' = [TableView EXCEPT ![call[t].id] = x] /\ TableView[call[t].id] = Null
<1> DEFINE id == call[t].id
<1>1. PICK lost \in SUBSET raced[t], y \in {x, mSessionList[id]} \ {NoRecord} :
        mSessionList' = [j \in Ids |-> IF j = id THEN y
                         ELSE IF j \in lost THEN NoRecord ELSE mSessionList[j]]
  BY DEF EndInsert
<1>2. raced[t] = {} /\ mSessionList[id] = NoRecord
  BY DEF SharedInv, InsertOK, EndInsert
<1>3. mSessionList' = [j \in Ids |-> IF j = id THEN x ELSE mSessionList[j]]
  BY <1>1, <1>2
<1>4. TableOK /\ mSessionList = [j \in Ids |-> mSessionList[j]]
  BY DEF SharedInv, ManagerInv, TableOK
<1>5. mSessionList' = [mSessionList EXCEPT ![id] = x]
  BY <1>3, <1>4
<1> QED
  BY <1>2, <1>4, <1>5, TableSet, ViewTable DEF Held

\* An insertion of an empty record changes nothing or makes users lose their sessions.
LEMMA InsertRefines ==
    ASSUME SharedInv, NEW t \in Threads, call[t].id \in Ids, EndInsert(t, Null),
           UNCHANGED <<remote, reported, overlapped, UserView, GivenView>>
    PROVE  [Table!Next]_(Table!tableVars)
<1>0. TableOK /\ MapOK
  BY DEF SharedInv, ManagerInv
<1>1. CASE t \notin overlapped
  <2>1. TableView' = [TableView EXCEPT ![call[t].id] = Null] /\ TableView[call[t].id] = Null
    BY <1>1, TableInserted
  <2>2. UNCHANGED TableView
    BY <2>1 DEF TableView
  <2> QED
    BY <2>2 DEF Table!tableVars
<1>2. CASE t \in overlapped
  <2>1. PICK z \in {Null, TableView[call[t].id]}, lost \in SUBSET Ids :
          TableView' = Table!Without([TableView EXCEPT ![call[t].id] = z], lost)
    BY <1>0, TableRaced
  <2>2. PICK gone \in SUBSET Ids : TableView' = Table!Without(TableView, gone)
    <3>1. CASE z = Null
      <4>1. TableView' = Table!Without(TableView, lost \cup {call[t].id})
        BY <2>1, <3>1 DEF Table!Without, TableView
      <4> QED
        BY <2>1, <4>1
    <3>2. CASE z = TableView[call[t].id]
      <4>1. TableView' = Table!Without(TableView, lost)
        BY <2>1, <3>2 DEF Table!Without, TableView
      <4> QED
        BY <2>1, <4>1
    <3> QED
      BY <2>1, <3>1, <3>2
  <2>3. Table!Lose(t)
    BY <1>2, <2>2 DEF Table!Lose
  <2> QED
    BY <2>3 DEF Table!Next
<1> QED
  BY <1>1, <1>2

\* So does mSessionList[id] by a call that goes on as it was.
LEMMA IndexRefines ==
    ASSUME SharedInv, NEW t \in Threads, call[t].id \in Ids, NEW s, Index(t, s),
           UNCHANGED <<remote, reported, overlapped, UserView, GivenView>>
    PROVE  [Table!Next]_(Table!tableVars)
<1>1. CASE UNCHANGED mapVars
  BY <1>1, TableSame DEF Table!tableVars, mapVars
<1>2. CASE EndInsert(t, Null)
  BY <1>2, InsertRefines
<1> QED
  BY <1>1, <1>2 DEF Index

\* A call begins.
LEMMA BeginRefines ==
    ASSUME SharedInv, BeginSignal \/ \E t \in ApiThreads : BeginApiCall(t)
    PROVE  Table!Next
<1>0. ManagerInv /\ CallsOK /\ TableOK /\ ShapesOK
  BY DEF SharedInv, ManagerInv
<1>1. PICK t \in Threads, c \in Calls :
        /\ Begin(t, c) /\ c.id \in Ids /\ c.found = Null /\ c.at # "notify"
        /\ UNCHANGED <<mapVars, sessionVars, reported>>
  BY <1>0, BeginShape
<1>2. /\ call[t].at = "idle" /\ call' = [call EXCEPT ![t] = c]
      /\ call[t].id = Null /\ call[t].found = Null
  BY <1>0, <1>1 DEF ShapesOK, ShapeOK, Begin, At
<1>3. Given(c) = Null /\ Given(call[t]) = Null
  BY <1>1, <1>2 DEF Given
<1>views. /\ UserView[t] = Null /\ UserView'[t] = c.id /\ GivenView'[t] = GivenView[t]
      /\ \A u \in Threads \ {t} : UserView'[u] = UserView[u] /\ GivenView'[u] = GivenView[u]
  BY <1>0, <1>1, <1>2, <1>3, CallViews
<1>4. UserView' = [UserView EXCEPT ![t] = c.id]
  BY <1>views, ViewFunctions
<1>5. UNCHANGED GivenView
  BY <1>views, ViewFunctions
<1>6. UNCHANGED TableView
  BY <1>1, TableSame DEF mapVars
<1>7. \A u \in Threads : At(u, "idle") <=> UserView[u] = Null
  <2> TAKE u \in Threads
  <2>1. UserView[u] = call[u].id
    BY DEF UserView
  <2>2. CASE At(u, "idle")
    BY <1>0, <2>1, <2>2 DEF ShapesOK, ShapeOK, At
  <2>3. CASE ~At(u, "idle")
    BY <1>0, <2>1, <2>3, CallFacts, ManagerConstants DEF At
  <2> QED
    BY <2>2, <2>3
<1>8. {u \in Threads : ~At(u, "idle")} = {u \in Threads : UserView[u] # Null}
  BY <1>7
<1>9. overlapped' = IF {u \in Threads : UserView[u] # Null} = {} THEN overlapped
                    ELSE overlapped \cup {u \in Threads : UserView[u] # Null} \cup {t}
  BY <1>1, <1>8 DEF Begin
<1>10. Table!Begin(t, c.id)
  BY <1>1, <1>views, <1>4, <1>5, <1>6, <1>9 DEF Table!Begin, sessionVars
<1> QED
  BY <1>1, <1>10 DEF Table!Next

\* A call ends.
LEMMA EndRefines ==
    ASSUME SharedInv, NEW t \in Threads, End(t), UNCHANGED <<mSessionList, remote, reported>>
    PROVE  Table!Next
<1>1. UserView' = [UserView EXCEPT ![t] = Null] /\ GivenView' = [GivenView EXCEPT ![t] = Null]
  <2>1. Idle.id = Null /\ Given(Idle) = Null
    BY DEF Idle, Given
  <2>2. /\ UserView'[t] = Null /\ GivenView'[t] = Null
        /\ \A u \in Threads \ {t} : UserView'[u] = UserView[u] /\ GivenView'[u] = GivenView[u]
    BY <2>1, CallViews DEF SharedInv, ManagerInv, End
  <2> QED
    BY <2>2, ViewFunctions
<1>2. UNCHANGED TableView
  BY TableSame
<1>3. Table!End(t)
  BY <1>1, <1>2 DEF Table!End, End
<1> QED
  BY <1>3 DEF Table!Next

\* A call goes on with what it has.
LEMMA OnwardViews ==
    ASSUME SharedInv, NEW t \in Threads, NEW step \in Steps \ {"notify"}, Goto(t, step),
           call[t].at # "notify"
    PROVE  /\ UNCHANGED <<UserView, GivenView>>
           /\ UserView[t] = call[t].id /\ GivenView[t] = call[t].found
<1>0. CallsOK
  BY DEF SharedInv, ManagerInv
<1>1. PICK c \in Calls :
        /\ call' = [call EXCEPT ![t] = c]
        /\ c.op = call[t].op /\ c.at = step /\ c.id = call[t].id /\ c.found = call[t].found
  BY <1>0, GotoIs
<1>2. Given(c) = Given(call[t]) /\ Given(call[t]) = call[t].found
  BY <1>1 DEF Given
<1> QED
  BY <1>0, <1>1, <1>2, SameViews, CallViews

LEMMA OnwardRefines ==
    ASSUME SharedInv, NEW t \in Threads, NEW step \in Steps \ {"notify"}, Goto(t, step),
           call[t].at # "notify", UNCHANGED <<mSessionList, remote, reported, overlapped>>
    PROVE  UNCHANGED Table!tableVars
<1>1. UNCHANGED <<UserView, GivenView>> /\ UNCHANGED TableView
  BY OnwardViews, TableSame
<1> QED
  BY <1>1 DEF Table!tableVars

\* A call that had none is given the session of its user, or misses it.
LEMMA FetchRefines ==
    ASSUME SharedInv, NEW t \in Threads, call[t].id \in Ids, NEW s \in Sessions \cup {Null},
           s = Held(call[t].id) \/ (s = Null /\ t \in overlapped),
           Found(t, "use", s), UNCHANGED <<mSessionList, remote, reported, overlapped>>
    PROVE  Table!Next
<1>0. CallsOK /\ TableOK
  BY DEF SharedInv, ManagerInv
<1>1. PICK c \in Calls :
        /\ call' = [call EXCEPT ![t] = c]
        /\ c.op = call[t].op /\ c.at = "use" /\ c.id = call[t].id /\ c.found = s
  BY <1>0, FoundIs DEF Steps
<1>2. Given(c) = s /\ TableView[call[t].id] = Held(call[t].id)
  BY <1>1, ViewTable DEF Given
<1>views. /\ UserView[t] \in Ids /\ UserView[t] = call[t].id /\ UserView'[t] = UserView[t]
      /\ GivenView'[t] = s
      /\ \A u \in Threads \ {t} : UserView'[u] = UserView[u] /\ GivenView'[u] = GivenView[u]
  BY <1>0, <1>1, <1>2, CallViews
<1>3. GivenView' = [GivenView EXCEPT ![t] = s]
  BY <1>views, ViewFunctions
<1>4. UNCHANGED UserView
  BY <1>views, ViewFunctions
<1>5. UNCHANGED TableView
  BY TableSame
<1>6. Table!Fetch(t)
  BY <1>2, <1>views, <1>3, <1>4, <1>5 DEF Table!Fetch
<1> QED
  BY <1>6 DEF Table!Next

\* GetCurrentSession's second look.
LEMMA ReadRefines ==
    ASSUME SharedInv, NEW t \in Threads, ReadCurrent(t)
    PROVE  [Table!Next]_(Table!tableVars)
<1>0. ManagerInv /\ CallsOK /\ ShapesOK
  BY DEF SharedInv, ManagerInv
<1>1. /\ call[t].at = "read" /\ call[t].id \in Ids /\ call[t].found = Null
      /\ UNCHANGED <<overlapped, remote, reported>>
  BY <1>0, CallFacts DEF ReadCurrent, At, ShapesOK, ShapeOK, sessionVars
<1>2. PICK s \in Sessions \cup {Null} : Index(t, s) /\ Found(t, "use", s)
  BY DEF ReadCurrent
<1>3. CASE mSessionList[call[t].id] # NoRecord /\ s = mSessionList[call[t].id] /\ UNCHANGED mapVars
  BY <1>1, <1>2, <1>3, FetchRefines DEF Held, mapVars
<1>4. CASE s = Null /\ EndInsert(t, Null)
  <2>1. PICK c \in Calls :
          /\ call' = [call EXCEPT ![t] = c]
          /\ c.op = call[t].op /\ c.at = "use" /\ c.id = call[t].id /\ c.found = Null
    BY <1>0, <1>2, <1>4, FoundIs DEF Steps
  <2>2. Given(c) = Given(call[t])
    BY <1>1, <2>1 DEF Given
  <2>3. UNCHANGED <<UserView, GivenView>>
    BY <1>0, <2>1, <2>2, SameViews
  <2> QED
    BY <1>1, <1>4, <2>3, InsertRefines
<1> QED
  BY <1>2, <1>3, <1>4 DEF Index

\* A session is found dead: nothing happens to the caller until it is reported.
LEMMA FilterRefines ==
    ASSUME SharedInv, NEW t \in Threads, FilterDeadSession(t)
    PROVE  [Table!Next]_(Table!tableVars)
<1>0. ManagerInv /\ CallsOK /\ ShapesOK
  BY DEF SharedInv, ManagerInv
<1>1. /\ call[t].at = "filter" /\ call[t].id \in Ids /\ call[t].found = Null
      /\ UNCHANGED <<overlapped, remote, reported>>
  BY <1>0, CallFacts DEF FilterDeadSession, At, ShapesOK, ShapeOK, sessionVars
<1>2. PICK s \in Sessions \cup {Null} :
        Index(t, s) /\ (Found(t, "notify", s) \/ Goto(t, "read"))
  BY DEF FilterDeadSession
<1>3. UNCHANGED <<UserView, GivenView>>
  <2>1. CASE Goto(t, "read")
    BY <1>1, <2>1, OnwardViews DEF Steps
  <2>2. CASE Found(t, "notify", s)
    <3>1. PICK c \in Calls :
            /\ call' = [call EXCEPT ![t] = c]
            /\ c.op = call[t].op /\ c.at = "notify" /\ c.id = call[t].id /\ c.found = s
      BY <1>0, <2>2, FoundIs DEF Steps
    <3>2. Given(c) = Given(call[t])
      BY <1>1, <3>1 DEF Given
    <3> QED
      BY <1>0, <3>1, <3>2, SameViews
  <2> QED
    BY <1>2, <2>1, <2>2
<1> QED
  BY <1>1, <1>2, <1>3, IndexRefines

LEMMA ReportRefines ==
    ASSUME SharedInv, NEW t \in Threads, NotifyDead(t)
    PROVE  Table!Next
<1>0. ManagerInv /\ CallsOK /\ TableOK
  BY DEF SharedInv, ManagerInv
<1>1. /\ call[t].at = "notify" /\ call[t].id \in Ids /\ call[t].found \in Sessions
      /\ remote[call[t].found] = call[t].id
      /\ reported' = reported \cup {call[t].found}
      /\ Found(t, "use", Null) /\ UNCHANGED <<remote, overlapped>>
  BY <1>0, CallFacts DEF NotifyDead, At, sessionVars
<1>2. PICK c \in Calls :
        /\ call' = [call EXCEPT ![t] = c]
        /\ c.op = call[t].op /\ c.at = "use" /\ c.id = call[t].id /\ c.found = Null
  BY <1>0, <1>1, FoundIs DEF Steps
<1>3. Given(c) = Null /\ Given(call[t]) = Null
  BY <1>1, <1>2 DEF Given
<1>4. UNCHANGED <<UserView, GivenView>>
  BY <1>0, <1>2, <1>3, SameViews
<1>5. UserView[t] = call[t].id /\ GivenView[t] = Null
  BY <1>0, <1>2, <1>3, CallViews
<1>6. TableView' \in {TableView, [TableView EXCEPT ![call[t].id] = Null]}
  <2>1. CASE EmptyRecordOf(call[t].id, call[t].found)
    BY <1>0, <1>1, <2>1, TableEmptied
  <2>2. CASE UNCHANGED mSessionList
    BY <2>2, TableSame
  <2> QED
    BY <2>1, <2>2 DEF NotifyDead
<1>7. Table!Report(t, call[t].found)
  BY <1>1, <1>4, <1>5, <1>6 DEF Table!Report
<1> QED
  BY <1>1, <1>7 DEF Table!Next

\* InitiateIncomingSession drops the old session.
LEMMA EmptyRefines ==
    ASSUME SharedInv, EmptyRecord
    PROVE  [Table!Next]_(Table!tableVars)
<1>0. ManagerInv /\ TableOK /\ Signal \in Threads
  BY DEF SharedInv, ManagerInv, Threads
<1>1. /\ call[Signal].at = "replace" /\ call[Signal].id \in Ids /\ Goto(Signal, "store")
      /\ UNCHANGED <<overlapped, remote, reported>>
  BY <1>0, CallFacts DEF EmptyRecord, At, sessionVars
<1>2. UNCHANGED <<UserView, GivenView>> /\ UserView[Signal] = call[Signal].id
  BY <1>0, <1>1, OnwardViews DEF Steps
<1>3. CASE UNCHANGED mapVars
  BY <1>1, <1>2, <1>3, TableSame DEF Table!tableVars, mapVars
<1>4. CASE mSessionList' = [mSessionList EXCEPT ![call[Signal].id] = Null]
  <2>1. TableView' = [TableView EXCEPT ![call[Signal].id] = Null]
    BY <1>0, <1>1, <1>4, TableSet
  <2>2. Table!Refuse
    BY <1>1, <1>2, <2>1 DEF Table!Refuse
  <2> QED
    BY <2>2 DEF Table!Next
<1>5. CASE EndInsert(Signal, Null)
  BY <1>0, <1>1, <1>2, <1>5, InsertRefines
<1> QED
  BY <1>3, <1>4, <1>5 DEF EmptyRecord, Assign

\* A session is created for the user of the call.
LEMMA CreateRefines ==
    ASSUME SharedInv, NEW t \in Threads, call[t].at = "store",
           NEW s \in Sessions, NEW n, Create(call[t].id, s, n), Assign(t, s),
           Goto(t, "unlock"), UNCHANGED <<reported, overlapped>>
    PROVE  Table!Next
<1>0. ManagerInv /\ CallsOK /\ TableOK /\ MapOK /\ ShapesOK /\ QueueOK
  BY DEF SharedInv, ManagerInv
<1>1. /\ call[t].id \in Ids /\ s \notin born
      /\ remote' = [remote EXCEPT ![s] = call[t].id]
  BY <1>0, CallFacts DEF Create
<1>2. t = Signal \/ call[t].found = Null
  <2>1. call[t].op \in Initiating
    BY <1>0, CallFacts DEF OpsAt
  <2>2. CASE call[t].op = "InitiateOutgoingSession"
    BY <1>0, <2>2 DEF ShapesOK, ShapeOK
  <2>3. CASE call[t].op = "InitiateIncomingSession"
    BY <1>0, <2>3 DEF ShapesOK, ShapeOK
  <2> QED
    BY <2>1, <2>2, <2>3 DEF Initiating
<1>3. /\ UNCHANGED <<UserView, GivenView>>
      /\ UserView[t] = call[t].id /\ GivenView[t] = call[t].found
  BY OnwardViews DEF Steps
<1>4. remote[s] = Null
  BY <1>0, <1>1 DEF QueueOK
<1>5. \/ TableView' = [TableView EXCEPT ![call[t].id] = s]
      \/ /\ t \in overlapped
         /\ \E z \in {s, TableView[call[t].id]}, lost \in SUBSET Ids :
              TableView' = Table!Without([TableView EXCEPT ![call[t].id] = z], lost)
  <2>1. CASE mSessionList' = [mSessionList EXCEPT ![call[t].id] = s]
    BY <1>0, <1>1, <2>1, TableSet
  <2>2. CASE EndInsert(t, s) /\ t \notin overlapped
    BY <1>1, <2>2, TableInserted
  <2>3. CASE EndInsert(t, s) /\ t \in overlapped
    BY <1>0, <1>1, <2>3, TableRaced
  <2> QED
    BY <2>1, <2>2, <2>3 DEF Assign
<1>6. Table!Create(t, s)
  BY <1>1, <1>2, <1>3, <1>4, <1>5 DEF Table!Create
<1> QED
  BY <1>6 DEF Table!Next

LEMMA StoreRefines ==
    ASSUME SharedInv, NEW t \in Threads, StoreSession(t)
    PROVE  [Table!Next]_(Table!tableVars)
<1>0. ManagerInv
  BY DEF SharedInv
<1>1. /\ call[t].at = "store" /\ call[t].id \in Ids
      /\ Goto(t, "unlock") /\ UNCHANGED <<reported, overlapped>>
  BY <1>0, CallFacts DEF StoreSession, At
<1>2. UNCHANGED <<UserView, GivenView>>
  BY <1>1, OnwardViews DEF Steps
<1>3. CASE UNCHANGED sessionVars /\ UNCHANGED mapVars
  BY <1>1, <1>2, <1>3, TableSame DEF Table!tableVars, mapVars, sessionVars
<1>4. CASE UNCHANGED sessionVars /\ EndInsert(t, Null)
  BY <1>1, <1>2, <1>4, InsertRefines DEF sessionVars
<1>5. ASSUME NEW s \in Sessions, NEW n, Create(call[t].id, s, n), Assign(t, s)
      PROVE  Table!Next
  BY <1>1, <1>5, CreateRefines
<1> QED
  BY <1>3, <1>4, <1>5 DEF StoreSession

\* A record is emptied by the task of a session that was reported.
LEMMA RemoveRefines ==
    ASSUME SharedInv, RemoveTask
    PROVE  [Table!Next]_(Table!tableVars)
<1>0. TableOK /\ QueueOK
  BY DEF SharedInv, ManagerInv
<1>1. /\ signalTasks # <<>>
      /\ EmptyRecordOf(Head(signalTasks).id, Head(signalTasks).dead)
      /\ UNCHANGED <<call, remote, reported, overlapped>>
  BY DEF RemoveTask, sessionVars
<1>2. /\ Head(signalTasks).id \in Ids /\ Head(signalTasks).dead \in reported
      /\ remote[Head(signalTasks).dead] = Head(signalTasks).id
  <2>1. signalTasks \in Seq([id : Ids, dead : Sessions])
    BY <1>0 DEF TableOK
  <2>2. Head(signalTasks) = signalTasks[1] /\ 1 \in 1..Len(signalTasks)
    BY <1>1, <2>1
  <2>3. Head(signalTasks) \in [id : Ids, dead : Sessions]
    BY <1>1, <2>1, HeadOf
  <2> QED
    BY <1>0, <2>2, <2>3 DEF QueueOK
<1>3. UNCHANGED <<UserView, GivenView>>
  BY <1>1 DEF UserView, GivenView, Given
<1>4. TableView' \in {TableView, [TableView EXCEPT ![Head(signalTasks).id] = Null]}
  BY <1>0, <1>1, <1>2, TableEmptied
<1>5. CASE UNCHANGED TableView
  BY <1>1, <1>3, <1>5 DEF Table!tableVars
<1>6. CASE TableView' = [TableView EXCEPT ![Head(signalTasks).id] = Null]
  <2>1. Table!Vacate(Head(signalTasks).id)
    BY <1>1, <1>2, <1>3, <1>6 DEF Table!Vacate
  <2> QED
    BY <1>2, <2>1 DEF Table!Next
<1> QED
  BY <1>4, <1>5, <1>6

\* Every step of a call is a step of the abstract table, or none.
LEMMA CallRefines ==
    ASSUME SharedInv, NEW t \in Threads, CallStep(t)
    PROVE  [Table!Next]_(Table!tableVars)
<1>0. ManagerInv /\ TableOK /\ MapOK /\ OverlapOK
  BY DEF SharedInv, ManagerInv
<1>1. CASE LockApi(t) \/ LockKnown(t) \/ Unlock(t)
  <2>1. /\ call[t].at # "notify" /\ UNCHANGED <<mSessionList, remote, reported>>
    BY <1>1 DEF LockApi, LockKnown, Unlock, At, sessionVars, mapVars
  <2>2. CASE End(t)
    BY <2>1, <2>2, EndRefines
  <2>3. ASSUME NEW step \in {"lockKnown", "known", "open", "lockMgr"}, Goto(t, step),
               UNCHANGED overlapped
        PROVE  UNCHANGED Table!tableVars
    BY <2>1, <2>3, OnwardRefines DEF Steps
  <2> QED
    BY <1>1, <2>2, <2>3 DEF LockApi, LockKnown, Unlock
<1>2. CASE HasKnownConnection(t)
  <2>1. /\ call[t].at = "known" /\ call[t].id \in Ids /\ UNCHANGED <<remote, reported, overlapped>>
        /\ Goto(t, "lockMgr") \/ Goto(t, "unlock")
    BY <1>0, <1>2, CallFacts DEF HasKnownConnection, At, sessionVars
  <2>2. UNCHANGED <<UserView, GivenView>>
    BY <2>1, OnwardViews DEF Steps
  <2>3. PICK s : Index(t, s)
    BY <1>2 DEF HasKnownConnection
  <2> QED
    BY <2>1, <2>2, <2>3, IndexRefines
<1>3. CASE LockManager(t)
  <2>1. /\ call[t].at = "lockMgr" /\ call[t].id \in Ids
        /\ UNCHANGED <<mSessionList, remote, reported, overlapped>>
    BY <1>0, <1>3, CallFacts DEF LockManager, At, sessionVars, mapVars
  <2>2. ASSUME NEW step \in {"filter", "unlock"}, Goto(t, step)
        PROVE  UNCHANGED Table!tableVars
    BY <2>1, <2>2, OnwardRefines DEF Steps
  <2>3. ASSUME NEW s \in Find(t, call[t].id), Found(t, "use", s)
        PROVE  Table!Next
    <3>1. /\ s \in Sessions \cup {Null}
          /\ s # Null => s = mSessionList[call[t].id]
          /\ s = Null => mSessionList[call[t].id] \in {NoRecord, Null} \/ Racing(t)
      BY <1>0, <2>1, <2>3, FindFinds
    <3>2. s = Held(call[t].id) \/ (s = Null /\ t \in overlapped)
      BY <1>0, <2>1, <3>1, RaceOverlaps, ManagerConstants DEF Held
    <3> QED
      BY <2>1, <2>3, <3>1, <3>2, FetchRefines
  <2> QED
    BY <1>3, <2>2, <2>3 DEF LockManager
<1>4. CASE BeginInsert(t)
  <2>1. UNCHANGED <<mSessionList, call, remote, reported, overlapped>>
    BY <1>4 DEF BeginInsert, sessionVars
  <2> QED
    BY <2>1 DEF Table!tableVars, TableView, UserView, GivenView, Given, Held
<1>5. CASE FilterDeadSession(t) \/ NotifyDead(t) \/ ReadCurrent(t) \/ StoreSession(t)
  BY <1>5, FilterRefines, ReportRefines, ReadRefines, StoreRefines
<1>6. CASE \/ UseSession(t) \/ ClearPacketData(t) \/ OpenOutgoing(t) \/ CheckCurrent(t)
           \/ t = Signal /\ CheckOverlap
  <2>1. call[t].at # "notify" /\ UNCHANGED <<mSessionList, remote, reported, overlapped>>
    BY <1>6 DEF UseSession, ClearPacketData, OpenOutgoing, CheckCurrent, CheckOverlap, At,
                sessionVars, mapVars
  <2>2. PICK step \in {"unlock", "clear", "filter", "replace", "store"} : Goto(t, step)
    BY <1>6 DEF UseSession, ClearPacketData, OpenOutgoing, CheckCurrent, CheckOverlap
  <2> QED
    BY <2>1, <2>2, OnwardRefines DEF Steps
<1>7. CASE t = Signal /\ EmptyRecord
  BY <1>7, EmptyRefines
<1> QED
  BY <1>1, <1>2, <1>3, <1>4, <1>5, <1>6, <1>7 DEF Step, CallStep

\* The manager implements the abstract table: InitiateIncomingSession and
\* InitiateOutgoingSession use the map without the mutex, and removals run late; a call
\* that overlaps no other nevertheless sees and leaves the table as if it were alone, and
\* one that does can miss or lose sessions and no more, for any number of users, sessions
\* and threads.
THEOREM ManagerImplementsTable == Spec => ImplementsTable
<1>1. Init => Table!Init
  BY ManagerConstants
     DEF Init, Table!Init, TableView, UserView, GivenView, Given, Held, Idle
<1>2. ASSUME SharedInv, [Next]_vars PROVE [Table!Next]_(Table!tableVars)
  <2>1. CASE BeginSignal \/ \E t \in ApiThreads : BeginApiCall(t)
    BY <1>2, <2>1, BeginRefines
  <2>2. ASSUME NEW t \in Threads, CallStep(t)
        PROVE  [Table!Next]_(Table!tableVars)
    BY <1>2, <2>2, CallRefines
  <2>3. CASE RemoveTask
    BY <1>2, <2>3, RemoveRefines
  <2>4. CASE UNCHANGED vars \/ Background
    <3>1. UNCHANGED <<mSessionList, call, remote, reported, overlapped>>
      BY <2>4 DEF vars, mapVars, sessionVars, Background, ShutdownStop, ShutdownClear,
                  ConnectResponse, TimePasses
    <3> QED
      BY <3>1 DEF Table!tableVars, TableView, UserView, GivenView, Given, Held
  <2> QED
    BY <1>2, <2>1, <2>2, <2>3, <2>4, StepKinds
<1> QED
  BY <1>1, <1>2, SharedInvariant, PTL DEF Spec, ImplementsTable, Table!Spec
=============================================================================
