------------------------ MODULE SessionManagerProofs ------------------------
(***************************************************************************)
(* Theorems about SessionManager, for any number of users, sessions and    *)
(* application threads.  The inductive invariant has five parts: the calls *)
(* in progress, the table with the queue of removals, the session mutex,   *)
(* the insertions into the map, and the remaining types.                   *)
(***************************************************************************)
EXTENDS SessionManager, TLAPS

Calls == [op : Ops, at : Steps, id : Ids \cup {Null}, found : Sessions \cup {Null}]

\* The calls that can be at each step.
OpsAt(step) ==
    CASE step = "idle" -> {"none"}
      [] step = "lockApi" -> ApiOps
      [] step \in {"lockKnown", "known"} -> {"SendPacket"}
      [] step = "lockMgr" -> LookupOps \cup FindOps \cup {"IsPacketAvailable"}
      [] step \in {"filter", "notify", "read"} -> LookupOps \cup Initiating
      [] step = "use" -> LookupOps \cup FindOps \cup Initiating
      [] step = "unlock" -> Ops \ {"none"}
      [] step \in {"clear", "store"} -> Initiating
      [] step = "replace" -> {"InitiateIncomingSession"}
      [] OTHER -> {"InitiateOutgoingSession"}

\* A call c that thread t can be in.
CallOK(t, c) ==
    /\ c \in Calls
    /\ c.op \in OpsAt(c.at)
    /\ c.at # "idle" => c.id \in Ids
    /\ c.at = "notify" => c.found # Null
    /\ t = Signal => c.at # "lockApi"
    /\ c.found # Null => c.found \in born /\ remote[c.found] = c.id

CallsOK ==
    /\ call \in [Threads -> Calls]
    /\ \A t \in Threads : CallOK(t, call[t])

\* Records hold sessions of their own user, and what was reported is on its way out.
TableOK ==
    /\ mSessionList \in [Ids -> Sessions \cup {NoRecord, Null}]
    /\ born \subseteq Sessions /\ reported \subseteq born
    /\ remote \in [Sessions -> Ids \cup {Null}]
    /\ signalTasks \in Seq([id : Ids, dead : Sessions])
    /\ \A id \in Ids : mSessionList[id] \in Sessions =>
         mSessionList[id] \in born /\ remote[mSessionList[id]] = id
    /\ RemovalPending

\* The calls and steps that hold the session mutex.
Locked(c) ==
    \/ c.at = "known"
    \/ c.op \in LookupOps /\ c.at \in {"filter", "notify", "read", "use", "unlock"}
    \/ c.op \in FindOps \cup {"IsPacketAvailable"} /\ c.at \in {"use", "unlock"}

MutexOK ==
    /\ mSessionCreationMutex \in Threads \cup {Free}
    /\ \A t \in Threads : (mSessionCreationMutex = t) <=> Locked(call[t])

\* Insertions are made at the steps that evaluate mSessionList[id].
MapOK ==
    /\ inserting \subseteq Threads
    /\ \A t \in inserting : call[t].at \in IndexSteps
    /\ raced \in [Threads -> SUBSET Ids] /\ detached \subseteq Ids

RestOK ==
    /\ mApiLevelMutex \in ApiThreads \cup {Free}
    /\ overlapped \subseteq Threads
    /\ mThread \in {"running", "quitting", "null"}
    /\ negotiation \in [Sessions -> Negotiation]
    /\ timedOut \in [Sessions -> BOOLEAN] /\ alive \in [Sessions -> BOOLEAN]

ManagerInv == CallsOK /\ TableOK /\ MutexOK /\ MapOK /\ RestOK

-----------------------------------------------------------------------------
(* Steps of one thread.                                                    *)

\* A thread replaces its call by one that it can be in.
LEMMA CallChanges ==
    ASSUME CallsOK, NEW t \in Threads, NEW c, CallOK(t, c)',
           call' = [call EXCEPT ![t] = c],
           born \subseteq born', \A s \in born : remote'[s] = remote[s]
    PROVE  CallsOK'
<1>1. c \in Calls
  BY DEF CallOK
<1>2. call' \in [Threads -> Calls] /\ call'[t] = c
      /\ \A u \in Threads \ {t} : call'[u] = call[u]
  BY <1>1 DEF CallsOK
<1>3. ASSUME NEW u \in Threads, u # t PROVE CallOK(u, call[u])'
  <2>1. CallOK(u, call[u]) /\ call'[u] = call[u]
    BY <1>2, <1>3 DEF CallsOK
  <2> QED
    BY <2>1 DEF CallOK
<1>4. CallOK(t, call[t])'
  BY <1>2 DEF CallOK
<1> QED
  BY <1>2, <1>3, <1>4 DEF CallsOK

\* Goto and Found as a replacement of the call.
LEMMA GotoIs ==
    ASSUME CallsOK, NEW t \in Threads, NEW step \in Steps, Goto(t, step)
    PROVE  \E c \in Calls :
             /\ call' = [call EXCEPT ![t] = c]
             /\ c.op = call[t].op /\ c.at = step /\ c.id = call[t].id
             /\ c.found = call[t].found
<1>1. call[t] \in Calls
  BY DEF CallsOK
<1> DEFINE c == [call[t] EXCEPT !.at = step]
<1>2. /\ c \in Calls /\ c.op = call[t].op /\ c.at = step /\ c.id = call[t].id
      /\ c.found = call[t].found
  BY <1>1 DEF Calls
<1>3. call' = [call EXCEPT ![t] = c]
  BY DEF Goto
<1> QED
  BY <1>2, <1>3

LEMMA FoundIs ==
    ASSUME CallsOK, NEW t \in Threads, NEW step \in Steps, NEW s \in Sessions \cup {Null},
           Found(t, step, s)
    PROVE  \E c \in Calls :
             /\ call' = [call EXCEPT ![t] = c]
             /\ c.op = call[t].op /\ c.at = step /\ c.id = call[t].id /\ c.found = s
<1>1. call[t] \in Calls
  BY DEF CallsOK
<1> DEFINE c == [call[t] EXCEPT !.at = step, !.found = s]
<1>2. /\ c \in Calls /\ c.op = call[t].op /\ c.at = step /\ c.id = call[t].id /\ c.found = s
  BY <1>1 DEF Calls
<1>3. call' = [call EXCEPT ![t] = c]
  BY DEF Found, CallsOK
<1> QED
  BY <1>2, <1>3

\* A thread moves without taking or giving back the mutex.
LEMMA MutexStays ==
    ASSUME CallsOK, MutexOK, NEW t \in Threads, NEW c, call' = [call EXCEPT ![t] = c],
           Locked(c) <=> Locked(call[t]), UNCHANGED mSessionCreationMutex
    PROVE  MutexOK'
<1>1. call'[t] = c /\ \A u \in Threads \ {t} : call'[u] = call[u]
  BY DEF CallsOK
<1>2. \A u \in Threads : Locked(call'[u]) <=> Locked(call[u])
  BY <1>1
<1> QED
  BY <1>2 DEF MutexOK, Locked

\* A thread moves and takes the mutex, or gives it back.
LEMMA MutexTaken ==
    ASSUME CallsOK, MutexOK, NEW t \in Threads, NEW c, call' = [call EXCEPT ![t] = c],
           Locked(c), mSessionCreationMutex = Free, mSessionCreationMutex' = t
    PROVE  MutexOK'
<1>1. call'[t] = c /\ \A u \in Threads \ {t} : call'[u] = call[u]
  BY DEF CallsOK
<1>2. \A u \in Threads \ {t} : ~Locked(call[u])
  BY FreeIsNoThread DEF MutexOK
<1> QED
  BY <1>1, <1>2 DEF MutexOK, Locked

LEMMA MutexReturned ==
    ASSUME CallsOK, MutexOK, NEW t \in Threads, NEW c, call' = [call EXCEPT ![t] = c], ~Locked(c),
           mSessionCreationMutex' = IF mSessionCreationMutex = t THEN Free
                                    ELSE mSessionCreationMutex
    PROVE  MutexOK'
<1>1. call'[t] = c /\ \A u \in Threads \ {t} : call'[u] = call[u]
  BY DEF CallsOK
<1>2. \A u \in Threads : (mSessionCreationMutex = u) <=> Locked(call[u])
  BY DEF MutexOK
<1>3. mSessionCreationMutex' \in Threads \cup {Free}
  BY DEF MutexOK
<1>4. \A u \in Threads : (mSessionCreationMutex' = u) <=> Locked(call'[u])
  BY <1>1, <1>2, FreeIsNoThread
<1> QED
  BY <1>3, <1>4 DEF MutexOK, Locked

-----------------------------------------------------------------------------
(* The map.                                                                *)

\* A step of t that adds no session to a record and leaves t outside an insertion.
Thins(t) ==
    /\ mSessionList' \in [Ids -> Sessions \cup {NoRecord, Null}]
    /\ \A j \in Ids : mSessionList'[j] \in Sessions => mSessionList'[j] = mSessionList[j]
    /\ inserting' \subseteq inserting \ {t}
    /\ raced' \in [Threads -> SUBSET Ids] /\ detached' \subseteq Ids

\* What the end of an insertion does to the records.
LEMMA InsertEnds ==
    ASSUME TableOK, MapOK, NEW t \in Threads, call[t].id \in Ids,
           NEW x \in Sessions \cup {Null}, EndInsert(t, x)
    PROVE  /\ mSessionList' \in [Ids -> Sessions \cup {NoRecord, Null}]
           /\ \A j \in Ids \ {call[t].id} : mSessionList'[j] \in {mSessionList[j], NoRecord}
           /\ mSessionList'[call[t].id] \in {x, mSessionList[call[t].id]}
           /\ inserting' \subseteq inserting \ {t}
           /\ raced' \in [Threads -> SUBSET Ids] /\ detached' \subseteq Ids
<1> DEFINE id == call[t].id
<1>1. PICK lost \in SUBSET raced[t], y \in {x, mSessionList[id]} \ {NoRecord} :
        /\ mSessionList' = [j \in Ids |-> IF j = id THEN y
                            ELSE IF j \in lost THEN NoRecord ELSE mSessionList[j]]
        /\ detached' = detached \cup lost \cup {j \in {id} : mSessionList[j] # NoRecord}
  BY DEF EndInsert
<1>2. /\ inserting' = inserting \ {t}
      /\ raced' = [u \in Threads |-> IF u \in inserting \ {t} THEN raced[u] \cup {id} ELSE {}]
  BY DEF EndInsert
<1>3. lost \subseteq Ids /\ y \in Sessions \cup {NoRecord, Null}
  BY <1>1 DEF MapOK, TableOK
<1>4. raced' \in [Threads -> SUBSET Ids]
  BY <1>2 DEF MapOK
<1>5. detached' \subseteq Ids
  BY <1>1, <1>3 DEF MapOK
<1>6. mSessionList' \in [Ids -> Sessions \cup {NoRecord, Null}]
  BY <1>1, <1>3 DEF TableOK
<1>7. /\ \A j \in Ids \ {id} : mSessionList'[j] \in {mSessionList[j], NoRecord}
      /\ mSessionList'[id] \in {x, mSessionList[id]}
  BY <1>1
<1> QED
  BY <1>2, <1>4, <1>5, <1>6, <1>7

\* Reading a record, emptying it, or leaving it alone adds no session.
LEMMA IndexThins ==
    ASSUME TableOK, MapOK, NEW t \in Threads, call[t].id \in Ids,
           NEW s \in Sessions \cup {Null}, Index(t, s)
    PROVE  /\ Thins(t)
           /\ s # Null => s = mSessionList[call[t].id] /\ UNCHANGED mapVars
           /\ s # Null => s \in born /\ remote[s] = call[t].id
<1>1. CASE t \notin inserting /\ s = mSessionList[call[t].id] /\ UNCHANGED mapVars
  BY <1>1 DEF Thins, TableOK, MapOK, mapVars
<1>2. CASE s = Null /\ EndInsert(t, Null)
  BY <1>2, InsertEnds, ManagerConstants DEF Thins
<1> QED
  BY <1>1, <1>2 DEF Index

LEMMA AssignThins ==
    ASSUME TableOK, MapOK, NEW t \in Threads, call[t].id \in Ids, Assign(t, Null)
    PROVE  Thins(t)
<1>1. CASE /\ t \notin inserting /\ mSessionList' = [mSessionList EXCEPT ![call[t].id] = Null]
           /\ UNCHANGED <<inserting, raced, detached>>
  BY <1>1, ManagerConstants DEF Thins, TableOK, MapOK
<1>2. CASE EndInsert(t, Null)
  BY <1>2, InsertEnds, ManagerConstants DEF Thins
<1> QED
  BY <1>1, <1>2 DEF Assign

LEMMA NothingThins ==
    ASSUME TableOK, MapOK, NEW t, t \notin inserting, UNCHANGED mapVars
    PROVE  Thins(t)
BY DEF Thins, TableOK, MapOK, mapVars

\* The table with no more sessions than before.
LEMMA TableThinned ==
    ASSUME TableOK, mSessionList' \in [Ids -> Sessions \cup {NoRecord, Null}],
           \A j \in Ids : mSessionList'[j] \in Sessions => mSessionList'[j] = mSessionList[j],
           UNCHANGED <<born, remote, reported, signalTasks>>,
           mThread' = "running" => mThread = "running"
    PROVE  TableOK'
<1>1. RemovalPending'
  BY DEF TableOK, RemovalPending
<1> QED
  BY <1>1 DEF TableOK

\* What a search can find.
LEMMA FindFinds ==
    ASSUME TableOK, NEW t, NEW id \in Ids, NEW s \in Find(t, id)
    PROVE  /\ s \in Sessions \cup {Null}
           /\ s # Null => s = mSessionList[id] /\ s \in born /\ remote[s] = id
           /\ s = Null => mSessionList[id] \in {NoRecord, Null} \/ Racing(t)
BY ManagerConstants DEF TableOK, Find, Misses

\* The parts of the invariant after a thread has moved.
LEMMA MoveKeeps ==
    ASSUME ManagerInv, NEW t \in Threads, NEW c, CallOK(t, c)',
           call' = [call EXCEPT ![t] = c],
           born \subseteq born', \A s \in born : remote'[s] = remote[s],
           inserting' \subseteq inserting \ {t}, raced' \in [Threads -> SUBSET Ids],
           detached' \subseteq Ids, TableOK', MutexOK', RestOK'
    PROVE  ManagerInv'
<1>1. CallsOK'
  BY CallChanges DEF ManagerInv
<1>2. \A u \in Threads \ {t} : call'[u] = call[u]
  BY DEF ManagerInv, CallsOK
<1>3. MapOK'
  BY <1>2 DEF ManagerInv, MapOK
<1> QED
  BY <1>1, <1>3 DEF ManagerInv

\* A step that adds no session and neither takes nor gives back the mutex.
LEMMA PlainStep ==
    ASSUME ManagerInv, NEW t \in Threads, NEW c, CallOK(t, c),
           call' = [call EXCEPT ![t] = c], Locked(c) <=> Locked(call[t]), Thins(t),
           negotiation' \in [Sessions -> Negotiation],
           mApiLevelMutex' \in ApiThreads \cup {Free}, overlapped' \subseteq Threads,
           UNCHANGED <<mSessionCreationMutex, threadVars, born, remote, timedOut, alive, reported>>
    PROVE  ManagerInv'
<1>1. CallOK(t, c)'
  BY DEF CallOK
<1>2. TableOK'
  BY TableThinned DEF ManagerInv, Thins, threadVars
<1>3. MutexOK'
  BY MutexStays DEF ManagerInv
<1>4. RestOK'
  BY DEF ManagerInv, RestOK, threadVars
<1> QED
  BY <1>1, <1>2, <1>3, <1>4, MoveKeeps DEF Thins

-----------------------------------------------------------------------------
(* The steps, one lemma per group.                                         *)

\* What is known of the thread that takes a step.
LEMMA CallFacts ==
    ASSUME ManagerInv, NEW t \in Threads
    PROVE  /\ call[t] \in Calls /\ call[t].op \in OpsAt(call[t].at)
           /\ call[t].at # "idle" => call[t].id \in Ids
           /\ call[t].at = "notify" => call[t].found # Null
           /\ t = Signal => call[t].at # "lockApi"
           /\ call[t].found \in Sessions \cup {Null}
           /\ call[t].found # Null => call[t].found \in born /\ remote[call[t].found] = call[t].id
           /\ call[t].at \notin IndexSteps => t \notin inserting
           /\ negotiation \in [Sessions -> Negotiation]
           /\ mApiLevelMutex \in ApiThreads \cup {Free}
           /\ overlapped \subseteq Threads
BY DEF ManagerInv, CallsOK, CallOK, RestOK, MapOK, Calls

\* BeginApiCall and BeginSignal.
LEMMA BeginKeeps ==
    ASSUME ManagerInv, NEW t \in Threads, NEW c \in Calls, Begin(t, c),
           c.id \in Ids, c.found = Null,
           \/ t # Signal /\ c.op \in ApiOps /\ c.at = "lockApi"
           \/ c.op = "ProcessError" /\ c.at = "lockMgr"
           \/ c.op = "InitiateIncomingSession" /\ c.at = "filter",
           UNCHANGED <<mapVars, mApiLevelMutex, mSessionCreationMutex, threadVars, sessionVars,
                       reported>>
    PROVE  ManagerInv'
<1>1. CallOK(t, c)
  BY DEF CallOK, OpsAt, LookupOps, Initiating, ApiOps
<1>2. Locked(c) <=> Locked(call[t])
  BY CallFacts DEF Begin, At, Locked, OpsAt, LookupOps, FindOps
<1>3. Thins(t)
  BY CallFacts, NothingThins DEF Begin, At, IndexSteps, ManagerInv
<1>4. call' = [call EXCEPT ![t] = c] /\ overlapped' \subseteq Threads
  BY CallFacts DEF Begin
<1> QED
  BY <1>1, <1>2, <1>3, <1>4, CallFacts, PlainStep DEF sessionVars

\* A thread goes on with the session it has.
LEMMA GotoKeeps ==
    ASSUME ManagerInv, NEW t \in Threads, NEW step \in Steps \ {"idle", "notify", "lockApi"},
           Goto(t, step), call[t].at # "idle", call[t].op \in OpsAt(step),
           Locked([op |-> call[t].op, at |-> step]) <=> Locked(call[t]), Thins(t),
           negotiation' \in [Sessions -> Negotiation],
           mApiLevelMutex' \in ApiThreads \cup {Free},
           UNCHANGED <<mSessionCreationMutex, overlapped, threadVars, born, remote, timedOut,
                       alive, reported>>
    PROVE  ManagerInv'
<1>1. PICK c \in Calls :
        /\ call' = [call EXCEPT ![t] = c]
        /\ c.op = call[t].op /\ c.at = step /\ c.id = call[t].id /\ c.found = call[t].found
  BY GotoIs DEF ManagerInv
<1>2. CallOK(t, c)
  BY <1>1, CallFacts DEF CallOK
<1>3. Locked(c) <=> Locked(call[t])
  BY <1>1 DEF Locked
<1> QED
  BY <1>1, <1>2, <1>3, CallFacts, PlainStep

\* A thread takes the session mutex.
LEMMA TakesKeeps ==
    ASSUME ManagerInv, NEW t \in Threads, NEW c, CallOK(t, c), Locked(c),
           call' = [call EXCEPT ![t] = c], call[t].at \notin IndexSteps,
           mSessionCreationMutex = Free, mSessionCreationMutex' = t,
           UNCHANGED <<mapVars, mApiLevelMutex, overlapped, threadVars, sessionVars, reported>>
    PROVE  ManagerInv'
<1>1. CallOK(t, c)'
  BY DEF CallOK, sessionVars
<1>2. Thins(t)
  BY CallFacts, NothingThins DEF ManagerInv
<1>3. TableOK'
  BY <1>2, TableThinned DEF ManagerInv, Thins, threadVars, sessionVars
<1>4. MutexOK'
  BY MutexTaken DEF ManagerInv
<1>5. RestOK'
  BY DEF ManagerInv, RestOK, threadVars, sessionVars
<1> QED
  BY <1>1, <1>2, <1>3, <1>4, <1>5, MoveKeeps DEF Thins, sessionVars

\* A thread gives the session mutex back, if it has it.
LEMMA ReturnsKeeps ==
    ASSUME ManagerInv, NEW t \in Threads, NEW c, CallOK(t, c), ~Locked(c),
           call' = [call EXCEPT ![t] = c], Thins(t),
           mSessionCreationMutex' = IF mSessionCreationMutex = t THEN Free
                                    ELSE mSessionCreationMutex,
           mApiLevelMutex' \in ApiThreads \cup {Free}, overlapped' \subseteq Threads,
           UNCHANGED <<threadVars, sessionVars, reported>>
    PROVE  ManagerInv'
<1>1. CallOK(t, c)'
  BY DEF CallOK, sessionVars
<1>2. TableOK'
  BY TableThinned DEF ManagerInv, Thins, threadVars, sessionVars
<1>3. MutexOK'
  BY MutexReturned DEF ManagerInv
<1>4. RestOK'
  BY DEF ManagerInv, RestOK, threadVars, sessionVars
<1> QED
  BY <1>1, <1>2, <1>3, <1>4, MoveKeeps DEF Thins, sessionVars

LEMMA IdleOK ==
    ASSUME NEW t
    PROVE  CallOK(t, Idle) /\ ~Locked(Idle)
BY DEF CallOK, Idle, OpsAt, Calls, Ops, Steps, Locked, LookupOps, FindOps

\* The locks of the application's calls.
LEMMA LockApiKeeps ==
    ASSUME ManagerInv, NEW t \in Threads, LockApi(t)
    PROVE  ManagerInv'
<1>1. /\ At(t, "lockApi") /\ call[t].op \in ApiOps /\ t \in ApiThreads /\ call[t].id \in Ids
      /\ UNCHANGED <<mapVars, mSessionCreationMutex, threadVars, sessionVars, reported>>
  BY CallFacts DEF LockApi, At, OpsAt, Threads
<1>0. Thins(t) /\ ~Locked(call[t])
  BY <1>1, CallFacts, NothingThins DEF At, IndexSteps, Locked, ManagerInv
<1>2. CASE /\ mApiLevelMutex' = t /\ UNCHANGED overlapped
           /\ Goto(t, CASE call[t].op = "SendPacket" -> "lockKnown"
                        [] call[t].op = "InitiateOutgoingSession" -> "open"
                        [] OTHER -> "lockMgr")
  <2>1. PICK step \in {"lockKnown", "open", "lockMgr"} :
          Goto(t, step) /\ call[t].op \in OpsAt(step)
    BY <1>1, <1>2 DEF ApiOps, OpsAt, LookupOps, FindOps
  <2>2. step \in Steps \ {"idle", "notify", "lockApi"}
        /\ ~Locked([op |-> call[t].op, at |-> step])
    BY <2>1 DEF Steps, Locked
  <2> QED
    BY <1>0, <1>1, <1>2, <2>1, <2>2, CallFacts, GotoKeeps DEF sessionVars, At
<1>3. CASE End(t) /\ UNCHANGED mApiLevelMutex
  <2>1. call' = [call EXCEPT ![t] = Idle] /\ overlapped' \subseteq Threads
    BY <1>3, CallFacts DEF End
  <2> QED
    BY <1>0, <1>1, <1>3, <2>1, IdleOK, CallFacts, PlainStep DEF sessionVars
<1> QED
  BY <1>2, <1>3 DEF LockApi

LEMMA LockKnownKeeps ==
    ASSUME ManagerInv, NEW t \in Threads, LockKnown(t)
    PROVE  ManagerInv'
<1>1. /\ call[t].at = "lockKnown" /\ call[t].op = "SendPacket" /\ call[t].id \in Ids
      /\ mSessionCreationMutex = Free /\ mSessionCreationMutex' = t /\ Goto(t, "known")
      /\ UNCHANGED <<mapVars, mApiLevelMutex, overlapped, threadVars, sessionVars, reported>>
  BY CallFacts DEF LockKnown, At, OpsAt
<1>2. PICK c \in Calls :
        /\ call' = [call EXCEPT ![t] = c]
        /\ c.op = call[t].op /\ c.at = "known" /\ c.id = call[t].id /\ c.found = call[t].found
  BY <1>1, GotoIs DEF Steps, ManagerInv
<1>3. CallOK(t, c) /\ Locked(c)
  BY <1>1, <1>2, CallFacts DEF CallOK, OpsAt, Locked
<1> QED
  BY <1>1, <1>2, <1>3, TakesKeeps DEF IndexSteps

LEMMA KnownKeeps ==
    ASSUME ManagerInv, NEW t \in Threads, HasKnownConnection(t)
    PROVE  ManagerInv'
<1>1. /\ At(t, "known") /\ call[t].op = "SendPacket" /\ call[t].id \in Ids
      /\ UNCHANGED <<mApiLevelMutex, overlapped, threadVars, sessionVars, reported>>
  BY CallFacts DEF HasKnownConnection, At, OpsAt
<1>2. PICK s \in Sessions \cup {Null} :
        /\ Index(t, s)
        /\ \/ /\ Goto(t, "lockMgr")
              /\ mSessionCreationMutex' = IF mSessionCreationMutex = t THEN Free
                                          ELSE mSessionCreationMutex
           \/ Goto(t, "unlock") /\ UNCHANGED mSessionCreationMutex
  BY DEF HasKnownConnection
<1>3. Thins(t)
  BY <1>1, <1>2, IndexThins DEF ManagerInv
<1>4. CASE /\ Goto(t, "lockMgr")
           /\ mSessionCreationMutex' = IF mSessionCreationMutex = t THEN Free
                                       ELSE mSessionCreationMutex
  <2>1. PICK c \in Calls :
          /\ call' = [call EXCEPT ![t] = c]
          /\ c.op = call[t].op /\ c.at = "lockMgr" /\ c.id = call[t].id
          /\ c.found = call[t].found
    BY <1>4, GotoIs DEF Steps, ManagerInv
  <2>2. CallOK(t, c) /\ ~Locked(c)
    BY <1>1, <2>1, CallFacts DEF CallOK, OpsAt, LookupOps, Locked
  <2> QED
    BY <1>1, <1>3, <1>4, <2>1, <2>2, CallFacts, ReturnsKeeps
<1>5. CASE Goto(t, "unlock") /\ UNCHANGED mSessionCreationMutex
  <2>1. /\ "unlock" \in Steps \ {"idle", "notify", "lockApi"} /\ call[t].op \in OpsAt("unlock")
        /\ Locked([op |-> call[t].op, at |-> "unlock"]) /\ Locked(call[t])
    BY <1>1 DEF Steps, OpsAt, Ops, ApiOps, Locked, LookupOps, At
  <2> QED
    BY <1>1, <1>3, <1>5, <2>1, CallFacts, GotoKeeps DEF sessionVars, At
<1> QED
  BY <1>2, <1>4, <1>5

\* The session mutex is taken by one thread while no other is in a locked section.
LEMMA LockManagerKeeps ==
    ASSUME ManagerInv, NEW t \in Threads, LockManager(t)
    PROVE  ManagerInv'
<1>1. /\ At(t, "lockMgr") /\ mSessionCreationMutex = Free /\ mSessionCreationMutex' = t
      /\ call[t].op \in LookupOps \cup FindOps \cup {"IsPacketAvailable"}
      /\ call[t].id \in Ids
      /\ UNCHANGED <<mapVars, mApiLevelMutex, overlapped, threadVars, sessionVars, reported>>
  BY CallFacts DEF LockManager, At, OpsAt
<1>2. PICK c \in Calls :
        /\ call' = [call EXCEPT ![t] = c]
        /\ c.op = call[t].op /\ c.id = call[t].id
        /\ c.found # Null => c.found \in born /\ remote[c.found] = c.id
        /\ \/ c.op \in LookupOps /\ c.at = "filter"
           \/ c.op \in FindOps /\ c.at = "use"
           \/ c.op = "IsPacketAvailable" /\ c.at = "unlock"
  <2>1. CASE call[t].op \in LookupOps
    <3>1. Goto(t, "filter")
      BY <2>1 DEF LockManager, LookupOps, FindOps
    <3>2. PICK c \in Calls :
            /\ call' = [call EXCEPT ![t] = c]
            /\ c.op = call[t].op /\ c.at = "filter" /\ c.id = call[t].id
            /\ c.found = call[t].found
      BY <3>1, GotoIs DEF Steps, ManagerInv
    <3> QED
      BY <2>1, <3>2, CallFacts
  <2>2. CASE call[t].op \in FindOps
    <3>1. PICK s \in Find(t, call[t].id) : Found(t, "use", s)
      BY <2>2 DEF LockManager, LookupOps, FindOps
    <3>2. /\ s \in Sessions \cup {Null}
          /\ s # Null => s \in born /\ remote[s] = call[t].id
      BY <1>1, FindFinds DEF ManagerInv
    <3>3. PICK c \in Calls :
            /\ call' = [call EXCEPT ![t] = c]
            /\ c.op = call[t].op /\ c.at = "use" /\ c.id = call[t].id
            /\ c.found = s
      BY <3>1, <3>2, FoundIs DEF Steps, ManagerInv
    <3> QED
      BY <2>2, <3>2, <3>3
  <2>3. CASE call[t].op = "IsPacketAvailable"
    <3>1. call[t].op \notin LookupOps /\ call[t].op \notin FindOps
      BY <2>3 DEF LookupOps, FindOps
    <3>2. Goto(t, "unlock")
      BY <2>3, <3>1 DEF LockManager
    <3>3. PICK c \in Calls :
            /\ call' = [call EXCEPT ![t] = c]
            /\ c.op = call[t].op /\ c.at = "unlock" /\ c.id = call[t].id
            /\ c.found = call[t].found
      BY <3>2, GotoIs DEF Steps, ManagerInv
    <3> QED
      BY <2>3, <3>3, CallFacts
  <2> QED
    BY <1>1, <2>1, <2>2, <2>3
<1>3. CallOK(t, c) /\ Locked(c)
  BY <1>1, <1>2 DEF CallOK, OpsAt, LookupOps, FindOps, Ops, ApiOps, Locked
<1> QED
  BY <1>1, <1>2, <1>3, TakesKeeps DEF At, IndexSteps

LEMMA UnlockKeeps ==
    ASSUME ManagerInv, NEW t \in Threads, Unlock(t)
    PROVE  ManagerInv'
<1>1. /\ At(t, "unlock") /\ call' = [call EXCEPT ![t] = Idle]
      /\ mSessionCreationMutex' = IF mSessionCreationMutex = t THEN Free ELSE mSessionCreationMutex
      /\ mApiLevelMutex' \in ApiThreads \cup {Free} /\ overlapped' \subseteq Threads
      /\ UNCHANGED <<mapVars, threadVars, sessionVars, reported>>
  BY CallFacts DEF Unlock, End, At
<1>2. Thins(t)
  BY <1>1, CallFacts, NothingThins DEF At, IndexSteps, ManagerInv
<1> QED
  BY <1>1, <1>2, IdleOK, ReturnsKeeps

\* An insertion begins.
LEMMA InsertKeeps ==
    ASSUME ManagerInv, NEW t \in Threads, BeginInsert(t)
    PROVE  ManagerInv'
<1>1. /\ call[t].at \in IndexSteps /\ inserting' = inserting \cup {t}
      /\ raced' = [raced EXCEPT ![t] = {}]
      /\ UNCHANGED <<mSessionList, detached, mApiLevelMutex, mSessionCreationMutex, call,
                     overlapped, threadVars, sessionVars, reported>>
  BY DEF BeginInsert
<1>2. CallsOK' /\ MutexOK' /\ RestOK'
  BY <1>1 DEF ManagerInv, CallsOK, CallOK, MutexOK, Locked, RestOK, sessionVars, threadVars
<1>3. TableOK'
  BY <1>1 DEF ManagerInv, TableOK, RemovalPending, sessionVars, threadVars
<1>4. MapOK'
  BY <1>1 DEF ManagerInv, MapOK
<1> QED
  BY <1>2, <1>3, <1>4 DEF ManagerInv

\* GetCurrentSession: the dead session is found, or the record is read again.
LEMMA FilterKeeps ==
    ASSUME ManagerInv, NEW t \in Threads, FilterDeadSession(t)
    PROVE  ManagerInv'
<1>1. /\ call[t].at = "filter" /\ call[t].op \in LookupOps \cup Initiating /\ call[t].id \in Ids
      /\ UNCHANGED <<mApiLevelMutex, mSessionCreationMutex, overlapped, threadVars, sessionVars,
                     reported>>
  BY CallFacts DEF FilterDeadSession, At, OpsAt
<1>2. PICK s \in Sessions \cup {Null} :
        /\ Index(t, s)
        /\ (s # Null /\ Found(t, "notify", s)) \/ Goto(t, "read")
  BY DEF FilterDeadSession
<1>3. Thins(t) /\ (s # Null => s \in born /\ remote[s] = call[t].id)
  BY <1>1, <1>2, IndexThins DEF ManagerInv
<1>4. CASE s # Null /\ Found(t, "notify", s)
  <2>1. PICK c \in Calls :
          /\ call' = [call EXCEPT ![t] = c]
          /\ c.op = call[t].op /\ c.at = "notify" /\ c.id = call[t].id /\ c.found = s
    BY <1>4, FoundIs DEF Steps, ManagerInv
  <2>2. CallOK(t, c)
    BY <1>1, <1>3, <1>4, <2>1 DEF CallOK, OpsAt
  <2>3. Locked(c) <=> Locked(call[t])
    BY <1>1, <2>1 DEF Locked
  <2> QED
    BY <1>1, <1>3, <2>1, <2>2, <2>3, CallFacts, PlainStep DEF sessionVars
<1>5. CASE Goto(t, "read")
  <2>1. /\ "read" \in Steps \ {"idle", "notify", "lockApi"} /\ call[t].op \in OpsAt("read")
        /\ Locked([op |-> call[t].op, at |-> "read"]) <=> Locked(call[t])
    BY <1>1 DEF Steps, OpsAt, Locked
  <2> QED
    BY <1>1, <1>3, <1>5, <2>1, CallFacts, GotoKeeps DEF sessionVars
<1> QED
  BY <1>2, <1>4, <1>5

LEMMA ReadKeeps ==
    ASSUME ManagerInv, NEW t \in Threads, ReadCurrent(t)
    PROVE  ManagerInv'
<1>1. /\ call[t].at = "read" /\ call[t].op \in LookupOps \cup Initiating /\ call[t].id \in Ids
      /\ UNCHANGED <<mApiLevelMutex, mSessionCreationMutex, overlapped, threadVars, sessionVars,
                     reported>>
  BY CallFacts DEF ReadCurrent, At, OpsAt
<1>2. PICK s \in Sessions \cup {Null} : Index(t, s) /\ Found(t, "use", s)
  BY DEF ReadCurrent
<1>3. Thins(t) /\ (s # Null => s \in born /\ remote[s] = call[t].id)
  BY <1>1, <1>2, IndexThins DEF ManagerInv
<1>4. PICK c \in Calls :
        /\ call' = [call EXCEPT ![t] = c]
        /\ c.op = call[t].op /\ c.at = "use" /\ c.id = call[t].id /\ c.found = s
  BY <1>2, FoundIs DEF Steps, ManagerInv
<1>5. CallOK(t, c)
  BY <1>1, <1>3, <1>4 DEF CallOK, OpsAt
<1>6. Locked(c) <=> Locked(call[t])
  BY <1>1, <1>4 DEF Locked, Initiating, FindOps, LookupOps
<1> QED
  BY <1>1, <1>3, <1>4, <1>5, <1>6, CallFacts, PlainStep DEF sessionVars

LEMMA UseKeeps ==
    ASSUME ManagerInv, NEW t \in Threads,
           \/ UseSession(t) \/ ClearPacketData(t) \/ OpenOutgoing(t) \/ CheckCurrent(t)
           \/ t = Signal /\ CheckOverlap
    PROVE  ManagerInv'
<1>1. /\ call[t].at \in {"use", "clear", "open"}
      /\ UNCHANGED <<mapVars, mApiLevelMutex, mSessionCreationMutex, overlapped, threadVars,
                     born, remote, timedOut, alive, reported>>
  BY DEF UseSession, ClearPacketData, OpenOutgoing, CheckCurrent, CheckOverlap, At, sessionVars
<1>2. Thins(t)
  BY <1>1, CallFacts, NothingThins DEF IndexSteps, ManagerInv
<1>3. negotiation' \in [Sessions -> Negotiation]
  BY CallFacts DEF UseSession, ClearPacketData, OpenOutgoing, CheckCurrent, CheckOverlap,
                   Negotiation, sessionVars
<1>4. PICK step \in {"unlock", "clear", "store", "replace", "filter"} :
        /\ Goto(t, step) /\ call[t].op \in OpsAt(step)
        /\ Locked([op |-> call[t].op, at |-> step]) <=> Locked(call[t])
  <2>1. CASE UseSession(t)
    BY <2>1 DEF UseSession, At, OpsAt, Ops, ApiOps, LookupOps, FindOps, Locked
  <2>2. CASE ClearPacketData(t)
    <3>1. call[t].at = "clear" /\ call[t].op \in Initiating
      BY <2>2, CallFacts DEF ClearPacketData, At, OpsAt
    <3> QED
      BY <2>2, <3>1 DEF ClearPacketData, OpsAt, Initiating, Locked, LookupOps, FindOps
  <2>3. CASE OpenOutgoing(t)
    <3>1. call[t].at = "open" /\ call[t].op = "InitiateOutgoingSession"
      BY <2>3, CallFacts DEF OpenOutgoing, At, OpsAt
    <3> QED
      BY <2>3, <3>1 DEF OpenOutgoing, OpsAt, Ops, ApiOps, Initiating, Locked, LookupOps, FindOps
  <2>4. CASE CheckCurrent(t) \/ (t = Signal /\ CheckOverlap)
    BY <2>4 DEF CheckCurrent, CheckOverlap, At, OpsAt, Ops, ApiOps, Initiating, Locked,
                LookupOps, FindOps
  <2> QED
    BY <2>1, <2>2, <2>3, <2>4
<1>5. step \in Steps \ {"idle", "notify", "lockApi"}
  BY <1>4 DEF Steps
<1> QED
  BY <1>1, <1>2, <1>3, <1>4, <1>5, CallFacts, GotoKeeps

\* A record is emptied through a reference to it.
LEMMA EmptyKeeps ==
    ASSUME TableOK, NEW id \in Ids, NEW s, EmptyRecordOf(id, s)
    PROVE  /\ mSessionList' \in [Ids -> Sessions \cup {NoRecord, Null}]
           /\ \A j \in Ids : mSessionList'[j] \in Sessions => mSessionList'[j] = mSessionList[j]
           /\ mSessionList'[id] # s \/ s \notin Sessions
BY ManagerConstants DEF TableOK, EmptyRecordOf

\* A dead session is reported, and its removal done or posted.
LEMMA NotifyKeeps ==
    ASSUME ManagerInv, NEW t \in Threads, NotifyDead(t)
    PROVE  ManagerInv'
<1> DEFINE s == call[t].found
           id == call[t].id
<1>1. /\ call[t].at = "notify" /\ call[t].op \in LookupOps \cup Initiating
      /\ id \in Ids /\ s \in born /\ s \in Sessions /\ remote[s] = id
      /\ reported' = reported \cup {s}
      /\ UNCHANGED <<inserting, raced, detached, mApiLevelMutex, mSessionCreationMutex,
                     overlapped, mThread, sessionVars>>
      /\ Found(t, "use", Null) /\ t \notin inserting
  BY CallFacts DEF NotifyDead, At, OpsAt, IndexSteps
<1>2. PICK c \in Calls :
        /\ call' = [call EXCEPT ![t] = c]
        /\ c.op = call[t].op /\ c.at = "use" /\ c.id = call[t].id /\ c.found = Null
  BY <1>1, FoundIs DEF Steps, ManagerInv
<1>3. CallOK(t, c)'
  BY <1>1, <1>2 DEF CallOK, OpsAt
<1>4. MutexOK'
  <2>1. Locked(c) <=> Locked(call[t])
    BY <1>1, <1>2 DEF Locked, Initiating, LookupOps, FindOps
  <2> QED
    BY <1>1, <1>2, <2>1, MutexStays DEF ManagerInv
<1>5. RestOK'
  BY <1>1 DEF ManagerInv, RestOK, sessionVars
<1>6. TableOK'
  <2>0. /\ mSessionList \in [Ids -> Sessions \cup {NoRecord, Null}]
        /\ signalTasks \in Seq([id : Ids, dead : Sessions])
        /\ UNCHANGED <<born, remote, mThread>> /\ reported' \subseteq born
        /\ born \subseteq Sessions /\ remote \in [Sessions -> Ids \cup {Null}]
        /\ \A j \in Ids : mSessionList[j] \in Sessions =>
             mSessionList[j] \in born /\ remote[mSessionList[j]] = j
        /\ RemovalPending
    BY <1>1 DEF ManagerInv, TableOK, sessionVars
  <2>1. \A j \in Ids : mSessionList[j] = s => j = id
    BY <1>1, <2>0
  <2>2. CASE t = Signal
    <3>1. EmptyRecordOf(id, s) /\ UNCHANGED signalTasks
      BY <2>2 DEF NotifyDead
    <3>2. /\ mSessionList' \in [Ids -> Sessions \cup {NoRecord, Null}]
          /\ \A j \in Ids : mSessionList'[j] \in Sessions => mSessionList'[j] = mSessionList[j]
          /\ mSessionList'[id] # s
      BY <1>1, <3>1, EmptyKeeps DEF ManagerInv
    <3> HIDE DEF s, id
    <3>3. \A j \in Ids : mSessionList'[j] \in reported' =>
            mSessionList'[j] \in reported /\ mSessionList'[j] = mSessionList[j]
      BY <1>1, <2>0, <2>1, <3>2
    <3>4. RemovalPending'
      BY <2>0, <3>1, <3>3 DEF RemovalPending
    <3> QED
      BY <2>0, <3>1, <3>2, <3>4 DEF TableOK
  <2>3. CASE t # Signal
    <3>1. PostRemoval(id, s) /\ UNCHANGED mSessionList
      BY <2>3 DEF NotifyDead
    <3> HIDE DEF s, id
    <3>2. CASE mThread = "running"
      <4>1. signalTasks' = Append(signalTasks, [id |-> id, dead |-> s])
        BY <3>1, <3>2 DEF PostRemoval
      <4>2. /\ signalTasks' \in Seq([id : Ids, dead : Sessions])
            /\ Len(signalTasks) \in Nat /\ Len(signalTasks') = Len(signalTasks) + 1
            /\ \A i \in 1..Len(signalTasks) : signalTasks'[i] = signalTasks[i]
            /\ signalTasks'[Len(signalTasks) + 1] = [id |-> id, dead |-> s]
        BY <1>1, <2>0, <4>1
      <4>3. ASSUME NEW j \in Ids, mSessionList'[j] \in reported'
            PROVE  \E i \in 1..Len(signalTasks') :
                     signalTasks'[i] = [id |-> j, dead |-> mSessionList'[j]]
        <5>1. CASE mSessionList[j] \in reported
          <6>1. PICK i \in 1..Len(signalTasks) :
                  signalTasks[i] = [id |-> j, dead |-> mSessionList[j]]
            BY <2>0, <3>2, <5>1 DEF RemovalPending
          <6>2. i \in 1..Len(signalTasks')
            BY <4>2
          <6> QED
            BY <3>1, <4>2, <6>1, <6>2
        <5>2. CASE mSessionList[j] = s
          <6>1. j = id /\ Len(signalTasks) + 1 \in 1..Len(signalTasks')
            BY <2>1, <4>2, <5>2
          <6> QED
            BY <3>1, <4>2, <5>2, <6>1
        <5> QED
          BY <1>1, <3>1, <4>3, <5>1, <5>2
      <4>4. RemovalPending'
        BY <4>3 DEF RemovalPending
      <4> QED
        BY <2>0, <3>1, <4>2, <4>4 DEF TableOK
    <3>3. CASE mThread # "running"
      <4>1. UNCHANGED <<signalTasks, mSessionList>> /\ RemovalPending'
        BY <2>0, <3>1, <3>3 DEF PostRemoval, RemovalPending
      <4> QED
        BY <2>0, <4>1 DEF TableOK
    <3> QED
      BY <3>2, <3>3
  <2> QED
    BY <2>2, <2>3
<1>7. raced' \in [Threads -> SUBSET Ids] /\ detached' \subseteq Ids
      /\ inserting' \subseteq inserting \ {t}
  BY <1>1 DEF ManagerInv, MapOK
<1> QED
  BY <1>1, <1>2, <1>3, <1>4, <1>5, <1>6, <1>7, MoveKeeps DEF sessionVars

\* A new session is stored in the record of its user, or lost.
LEMMA AssignKeeps ==
    ASSUME TableOK, MapOK, NEW t \in Threads, call[t].id \in Ids,
           NEW s \in Sessions, NEW n, Create(call[t].id, s, n), Assign(t, s),
           UNCHANGED <<threadVars, reported>>
    PROVE  /\ TableOK' /\ inserting' \subseteq inserting \ {t}
           /\ raced' \in [Threads -> SUBSET Ids] /\ detached' \subseteq Ids
<1> DEFINE id == call[t].id
<1>1. s \notin born /\ born' = born \cup {s} /\ remote' = [remote EXCEPT ![s] = id]
  BY DEF Create
<1>2. /\ mSessionList' \in [Ids -> Sessions \cup {NoRecord, Null}]
      /\ \A j \in Ids \ {id} : mSessionList'[j] \in {mSessionList[j], NoRecord}
      /\ mSessionList'[id] \in {s, mSessionList[id]}
      /\ inserting' \subseteq inserting \ {t}
      /\ raced' \in [Threads -> SUBSET Ids] /\ detached' \subseteq Ids
  <2>1. CASE /\ t \notin inserting /\ mSessionList' = [mSessionList EXCEPT ![id] = s]
             /\ UNCHANGED <<inserting, raced, detached>>
    BY <2>1 DEF TableOK, MapOK
  <2>2. CASE EndInsert(t, s)
    BY <2>2, InsertEnds
  <2> QED
    BY <2>1, <2>2 DEF Assign
<1> HIDE DEF id
<1>3. id \in Ids /\ born \subseteq Sessions /\ remote \in [Sessions -> Ids \cup {Null}]
      /\ reported \subseteq born /\ signalTasks \in Seq([id : Ids, dead : Sessions])
      /\ \A j \in Ids : mSessionList[j] \in Sessions =>
           mSessionList[j] \in born /\ remote[mSessionList[j]] = j
      /\ RemovalPending
  BY DEF TableOK, id
<1>4. ASSUME NEW j \in Ids, mSessionList'[j] \in Sessions
      PROVE  mSessionList'[j] \in born' /\ remote'[mSessionList'[j]] = j
  <2>1. remote'[s] = id /\ \A r \in Sessions \ {s} : remote'[r] = remote[r]
    BY <1>1, <1>3
  <2>2. CASE j = id /\ mSessionList'[id] = s
    BY <1>1, <2>1, <2>2
  <2>3. CASE mSessionList'[j] = mSessionList[j]
    <3>1. mSessionList[j] \in born /\ remote[mSessionList[j]] = j
      BY <1>3, <1>4, <2>3
    <3>2. mSessionList[j] \in Sessions \ {s}
      BY <1>1, <1>3, <3>1
    <3> QED
      BY <1>1, <2>1, <2>3, <3>1, <3>2
  <2> QED
    BY <1>2, <1>4, <2>2, <2>3, ManagerConstants
<1>5. \A j \in Ids : mSessionList'[j] \in reported' => mSessionList'[j] = mSessionList[j]
  BY <1>1, <1>2, <1>3, ManagerConstants
<1>6. RemovalPending'
  BY <1>3, <1>5 DEF RemovalPending, threadVars
<1>7. born' \subseteq Sessions /\ reported' \subseteq born' /\ remote' \in [Sessions -> Ids \cup {Null}]
      /\ signalTasks' \in Seq([id : Ids, dead : Sessions])
  BY <1>1, <1>3 DEF threadVars
<1> QED
  BY <1>2, <1>4, <1>6, <1>7 DEF TableOK

\* The tail of both Initiate functions.
LEMMA StoreKeeps ==
    ASSUME ManagerInv, NEW t \in Threads, StoreSession(t)
    PROVE  ManagerInv'
<1>1. /\ call[t].at = "store" /\ call[t].op \in Initiating /\ call[t].id \in Ids
      /\ Goto(t, "unlock")
      /\ UNCHANGED <<mApiLevelMutex, mSessionCreationMutex, overlapped, threadVars, reported>>
  BY CallFacts DEF StoreSession, At, OpsAt
<1>2. /\ "unlock" \in Steps \ {"idle", "notify", "lockApi"} /\ call[t].op \in OpsAt("unlock")
      /\ ~Locked([op |-> call[t].op, at |-> "unlock"]) /\ ~Locked(call[t])
  BY <1>1 DEF Steps, OpsAt, Ops, ApiOps, Initiating, Locked, LookupOps, FindOps
<1>3. CASE UNCHANGED sessionVars /\ ((t \notin inserting /\ UNCHANGED mapVars) \/ EndInsert(t, Null))
  <2>1. Thins(t)
    <3>1. CASE t \notin inserting /\ UNCHANGED mapVars
      BY <3>1, NothingThins DEF ManagerInv
    <3>2. CASE EndInsert(t, Null)
      BY <1>1, <3>2, AssignThins DEF ManagerInv, Assign
    <3> QED
      BY <1>3, <3>1, <3>2
  <2> QED
    BY <1>1, <1>2, <1>3, <2>1, CallFacts, GotoKeeps DEF sessionVars
<1>4. ASSUME NEW s \in Sessions, NEW n \in Negotiation, Create(call[t].id, s, n), Assign(t, s)
      PROVE  ManagerInv'
  <2>1. /\ TableOK' /\ inserting' \subseteq inserting \ {t}
        /\ raced' \in [Threads -> SUBSET Ids] /\ detached' \subseteq Ids
    BY <1>1, <1>4, AssignKeeps DEF ManagerInv
  <2>2. PICK c \in Calls :
          /\ call' = [call EXCEPT ![t] = c]
          /\ c.op = call[t].op /\ c.at = "unlock" /\ c.id = call[t].id
          /\ c.found = call[t].found
    BY <1>1, GotoIs DEF Steps, ManagerInv
  <2>3. born \subseteq born' /\ \A u \in born : remote'[u] = remote[u]
    BY <1>4 DEF Create, ManagerInv, TableOK
  <2>4. CallOK(t, c)'
    BY <1>1, <1>2, <2>2, <2>3, CallFacts DEF CallOK
  <2>5. MutexOK'
    <3>1. Locked(c) <=> Locked(call[t])
      BY <1>2, <2>2 DEF Locked
    <3> QED
      BY <1>1, <2>2, <3>1, MutexStays DEF ManagerInv
  <2>6. RestOK'
    BY <1>1, <1>4 DEF Create, ManagerInv, RestOK, threadVars
  <2> QED
    BY <2>1, <2>2, <2>3, <2>4, <2>5, <2>6, MoveKeeps
<1>5. {"WaitingForResponse", "WaitingForAccept"} \subseteq Negotiation
  BY DEF Negotiation
<1> QED
  BY <1>3, <1>4, <1>5 DEF StoreSession

\* InitiateIncomingSession drops the old session.
LEMMA EmptyRecordKeeps ==
    ASSUME ManagerInv, EmptyRecord
    PROVE  ManagerInv'
<1>0. Signal \in Threads
  BY DEF Threads
<1>1. /\ call[Signal].at = "replace" /\ call[Signal].op = "InitiateIncomingSession"
      /\ call[Signal].id \in Ids /\ Goto(Signal, "store")
      /\ UNCHANGED <<mApiLevelMutex, mSessionCreationMutex, overlapped, threadVars, sessionVars,
                     reported>>
  BY <1>0, CallFacts DEF EmptyRecord, At, OpsAt
<1>2. Thins(Signal)
  BY <1>0, <1>1, AssignThins, NothingThins DEF EmptyRecord, ManagerInv
<1>3. /\ "store" \in Steps \ {"idle", "notify", "lockApi"} /\ call[Signal].op \in OpsAt("store")
      /\ ~Locked([op |-> call[Signal].op, at |-> "store"]) /\ ~Locked(call[Signal])
  BY <1>1 DEF Steps, OpsAt, Initiating, Locked, LookupOps, FindOps
<1> QED
  BY <1>0, <1>1, <1>2, <1>3, CallFacts, GotoKeeps DEF sessionVars

\* A removal, an answer, the passing of time and a shutdown change no call.
LEMMA BackgroundKeeps ==
    ASSUME ManagerInv, TableOK', RestOK',
           UNCHANGED <<call, mSessionCreationMutex, born, remote, inserting, raced, detached>>
    PROVE  ManagerInv'
<1>1. CallsOK'
  BY DEF ManagerInv, CallsOK, CallOK
<1>2. MutexOK' /\ MapOK'
  BY DEF ManagerInv, MutexOK, Locked, MapOK
<1> QED
  BY <1>1, <1>2 DEF ManagerInv

\* The first of a non-empty queue is one of its tasks.
LEMMA HeadOf ==
    ASSUME NEW T, NEW q \in Seq(T), q # <<>>
    PROVE  Head(q) \in T
OBVIOUS

LEMMA RemoveKeeps ==
    ASSUME ManagerInv, RemoveTask
    PROVE  ManagerInv'
<1> DEFINE id == Head(signalTasks).id
           s == Head(signalTasks).dead
<1>1. /\ signalTasks # <<>> /\ signalTasks' = Tail(signalTasks)
      /\ EmptyRecordOf(id, s)
      /\ UNCHANGED <<inserting, raced, detached, mApiLevelMutex, mSessionCreationMutex, call,
                     overlapped, mThread, sessionVars, reported>>
  BY DEF RemoveTask
<1>2. id \in Ids /\ s \in Sessions /\ Head(signalTasks) = [id |-> id, dead |-> s]
  <2>1. signalTasks \in Seq([id : Ids, dead : Sessions])
    BY DEF ManagerInv, TableOK
  <2>2. Head(signalTasks) \in [id : Ids, dead : Sessions]
    BY <1>1, <2>1, HeadOf
  <2> QED
    BY <2>2
<1>3. /\ mSessionList' \in [Ids -> Sessions \cup {NoRecord, Null}]
      /\ \A j \in Ids : mSessionList'[j] \in Sessions => mSessionList'[j] = mSessionList[j]
      /\ mSessionList'[id] # s
  BY <1>1, <1>2, EmptyKeeps DEF ManagerInv
<1> HIDE DEF id, s
<1>4. TableOK'
  <2>0. /\ TableOK /\ signalTasks \in Seq([id : Ids, dead : Sessions])
        /\ RemovalPending /\ reported \subseteq Sessions
    BY DEF ManagerInv, TableOK
  <2>1. /\ Len(signalTasks) \in Nat /\ Len(signalTasks') = Len(signalTasks) - 1
        /\ Head(signalTasks) = signalTasks[1]
        /\ \A k \in 1..Len(signalTasks') : signalTasks'[k] = signalTasks[k + 1]
        /\ signalTasks' \in Seq([id : Ids, dead : Sessions])
    BY <1>1, <2>0
  <2>2. ASSUME NEW j \in Ids, mSessionList'[j] \in reported, mThread = "running"
        PROVE  \E i \in 1..Len(signalTasks') :
                 signalTasks'[i] = [id |-> j, dead |-> mSessionList'[j]]
    <3>1. mSessionList'[j] = mSessionList[j]
      BY <1>3, <2>0, <2>2
    <3>2. PICK i \in 1..Len(signalTasks) :
            signalTasks[i] = [id |-> j, dead |-> mSessionList[j]]
      BY <2>0, <2>2, <3>1 DEF RemovalPending
    <3>3. i # 1
      <4> SUFFICES ASSUME i = 1 PROVE FALSE
        OBVIOUS
      <4>1. [id |-> id, dead |-> s] = [id |-> j, dead |-> mSessionList[j]]
        BY <1>2, <2>1, <3>2
      <4>2. j = id /\ mSessionList[j] = s
        BY <4>1
      <4> QED
        BY <1>3, <3>1, <4>2
    <3>4. i - 1 \in 1..Len(signalTasks') /\ (i - 1) + 1 = i
      BY <2>1, <3>2, <3>3
    <3> QED
      BY <2>1, <3>1, <3>2, <3>4
  <2>3. RemovalPending'
    BY <1>1, <2>2 DEF RemovalPending
  <2> QED
    BY <1>1, <1>3, <2>0, <2>1, <2>3 DEF TableOK, sessionVars
<1>5. RestOK'
  BY <1>1 DEF ManagerInv, RestOK, sessionVars
<1> QED
  BY <1>1, <1>4, <1>5, BackgroundKeeps DEF sessionVars

\* The inductive invariant holds initially.
LEMMA ManagerInitially == Init => ManagerInv
<1> SUFFICES ASSUME Init PROVE ManagerInv
  OBVIOUS
<1> USE DEF Init
<1>1. CallsOK
  BY DEF CallsOK, CallOK, Idle, Calls, OpsAt, Ops, Steps
<1>2. TableOK
  <2>1. RemovalPending
    BY DEF RemovalPending
  <2> QED
    BY <2>1, ManagerConstants DEF TableOK
<1>3. MutexOK
  BY FreeIsNoThread DEF MutexOK, Locked, Idle, LookupOps, FindOps
<1>4. MapOK
  BY DEF MapOK
<1>5. RestOK
  BY DEF RestOK, Negotiation
<1> QED
  BY <1>1, <1>2, <1>3, <1>4, <1>5 DEF ManagerInv

\* A call begins in a thread that was idle.
LEMMA BeginShape ==
    ASSUME BeginSignal \/ \E t \in ApiThreads : BeginApiCall(t)
    PROVE  \E t \in Threads, c \in Calls :
             /\ Begin(t, c) /\ c.id \in Ids /\ c.found = Null
             /\ \/ t \in ApiThreads /\ c.at = "lockApi" /\ c.op \in ApiOps
                \/ t = Signal /\ c.op = "ProcessError" /\ c.at = "lockMgr"
                \/ t = Signal /\ c.op = "InitiateIncomingSession" /\ c.at = "filter"
             /\ UNCHANGED <<mapVars, mApiLevelMutex, mSessionCreationMutex, threadVars,
                            sessionVars, reported>>
<1>0. Signal \in Threads /\ ApiThreads \subseteq Threads
  BY DEF Threads
<1>1. ASSUME NEW t \in ApiThreads, BeginApiCall(t)
      PROVE  \E c \in Calls :
               Begin(t, c) /\ c.id \in Ids /\ c.found = Null /\ c.at = "lockApi" /\ c.op \in ApiOps
  <2>1. PICK op \in ApiOps, id \in Ids :
          Begin(t, [op |-> op, at |-> "lockApi", id |-> id, found |-> Null])
    BY <1>1 DEF BeginApiCall
  <2>2. [op |-> op, at |-> "lockApi", id |-> id, found |-> Null] \in Calls
    BY DEF Calls, Ops, Steps
  <2> QED
    BY <2>1, <2>2
<1>2. ASSUME BeginSignal
      PROVE  \E c \in Calls :
               /\ Begin(Signal, c) /\ c.id \in Ids /\ c.found = Null
               /\ \/ c.op = "ProcessError" /\ c.at = "lockMgr"
                  \/ c.op = "InitiateIncomingSession" /\ c.at = "filter"
  <2>1. PICK id \in Ids :
          \/ Begin(Signal, [op |-> "ProcessError", at |-> "lockMgr", id |-> id, found |-> Null])
          \/ Begin(Signal, [op |-> "InitiateIncomingSession", at |-> "filter", id |-> id,
                            found |-> Null])
    BY <1>2 DEF BeginSignal
  <2>2. /\ [op |-> "ProcessError", at |-> "lockMgr", id |-> id, found |-> Null] \in Calls
        /\ [op |-> "InitiateIncomingSession", at |-> "filter", id |-> id, found |-> Null]
             \in Calls
    BY DEF Calls, Ops, Steps
  <2> QED
    BY <2>1, <2>2
<1>3. UNCHANGED <<mapVars, mApiLevelMutex, mSessionCreationMutex, threadVars, sessionVars,
                  reported>>
  BY DEF BeginApiCall, BeginSignal
<1> QED
  BY <1>0, <1>1, <1>2, <1>3

\* Every step preserves the inductive invariant.
LEMMA ManagerStep ==
    ASSUME ManagerInv, [Next]_vars
    PROVE  ManagerInv'
<1>0. Signal \in Threads /\ ApiThreads \subseteq Threads
  BY DEF Threads
<1>1. CASE BeginSignal \/ \E t \in ApiThreads : BeginApiCall(t)
  BY <1>1, BeginShape, BeginKeeps, ManagerConstants
<1>3. ASSUME NEW t \in Threads, Step(t) PROVE ManagerInv'
  BY <1>3, LockApiKeeps, LockKnownKeeps, KnownKeeps, LockManagerKeeps, UnlockKeeps, InsertKeeps,
     FilterKeeps, NotifyKeeps, ReadKeeps, UseKeeps, StoreKeeps DEF Step
<1>4. CASE CheckOverlap \/ EmptyRecord
  BY <1>0, <1>4, UseKeeps, EmptyRecordKeeps
<1>5. CASE RemoveTask
  BY <1>5, RemoveKeeps
<1>6. ASSUME \/ ShutdownStop \/ ShutdownClear \/ UNCHANGED vars
             \/ \E s \in Sessions : ConnectResponse(s) \/ TimePasses(s)
      PROVE  ManagerInv'
  <2>1. /\ UNCHANGED <<mSessionList, call, mSessionCreationMutex, born, remote, inserting, raced,
                       detached, reported, signalTasks>>
        /\ mThread' = "running" => mThread = "running"
    BY <1>6 DEF ShutdownStop, ShutdownClear, ConnectResponse, TimePasses, vars, mapVars,
                sessionVars, threadVars
  <2>2. TableOK'
    BY <2>1, TableThinned DEF ManagerInv, TableOK
  <2>3. RestOK'
    <3>1. CASE ShutdownStop \/ ShutdownClear \/ UNCHANGED vars
      BY <3>1 DEF ShutdownStop, ShutdownClear, vars, mapVars, sessionVars, threadVars,
                  ManagerInv, RestOK
    <3>2. ASSUME NEW s \in Sessions, ConnectResponse(s) \/ TimePasses(s) PROVE RestOK'
      BY <3>2 DEF ConnectResponse, TimePasses, threadVars, ManagerInv, RestOK, Negotiation
    <3> QED
      BY <1>6, <3>1, <3>2
  <2> QED
    BY <2>1, <2>2, <2>3, BackgroundKeeps
<1> QED
  BY <1>0, <1>1, <1>3, <1>4, <1>5, <1>6 DEF Next, SignalStep

\* The inductive invariant of the table, its mutex and the calls in progress.
THEOREM ManagerInvariant == Spec => []ManagerInv
<1>1. ManagerInv /\ [Next]_vars => ManagerInv'
  BY ManagerStep
<1> QED
  BY <1>1, ManagerInitially, PTL DEF Spec

\* Every variable of the manager stays in its type.
THEOREM ManagerTypeCorrect == Spec => []TypeOK
<1>1. ManagerInv => TypeOK
  BY DEF ManagerInv, CallsOK, TableOK, MutexOK, MapOK, RestOK, TypeOK, Calls
<1> QED
  BY <1>1, ManagerInvariant, PTL

\* While the signal thread runs, a reported session that is still in the table has its
\* removal queued, for any number of threads that look it up, replace it, hide its
\* record and report it again.
THEOREM RemovalQueued == Spec => []RemovalPending
<1>1. ManagerInv => RemovalPending
  BY DEF ManagerInv, TableOK
<1> QED
  BY <1>1, ManagerInvariant, PTL

\* No record ever holds a session of another user.
THEOREM OwnRecords == Spec => []RecordsMatchUsers
<1>1. ManagerInv => RecordsMatchUsers
  BY DEF ManagerInv, TableOK, RecordsMatchUsers
<1> QED
  BY <1>1, ManagerInvariant, PTL

\* A call works on a session of the user it names, whatever happened to the record
\* since it was read.
THEOREM OwnSession == Spec => []FoundMatchesCall
<1>1. ManagerInv => FoundMatchesCall
  BY DEF ManagerInv, CallsOK, CallOK, FoundMatchesCall
<1> QED
  BY <1>1, ManagerInvariant, PTL

\* The session mutex is held in the locked sections and nowhere else, so that
\* ClearPacketData never waits for its own caller.
THEOREM MutexSections == Spec => []LockedSections
<1>1. ManagerInv => LockedSections
  BY DEF ManagerInv, MutexOK, Locked, LockedSections
<1> QED
  BY <1>1, ManagerInvariant, PTL

\* Two calls that take the mutex never insert into the map at the same time: a race
\* needs one of the Initiate functions, for any number of threads.
THEOREM RacesNeedInitiate == Spec => []OnlyInitiateRaces
<1>1. ManagerInv => OnlyInitiateRaces
  <2> SUFFICES ASSUME ManagerInv, NEW t \in inserting, NEW u \in inserting, t # u,
                      call[t].op \notin Initiating, call[u].op \notin Initiating
               PROVE  FALSE
    BY DEF OnlyInitiateRaces
  <2>1. t \in Threads /\ u \in Threads /\ call[t].at \in IndexSteps /\ call[u].at \in IndexSteps
    BY DEF ManagerInv, MapOK
  <2>2. Locked(call[t]) /\ Locked(call[u])
    BY <2>1, CallFacts DEF OpsAt, IndexSteps, Initiating, Locked, LookupOps
  <2> QED
    BY <2>1, <2>2 DEF ManagerInv, MutexOK
<1> QED
  BY <1>1, ManagerInvariant, PTL
=============================================================================
