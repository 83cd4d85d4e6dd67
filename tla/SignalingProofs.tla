-------------------------- MODULE SignalingProofs --------------------------
(***************************************************************************)
(* Theorems about Signaling, for any number of threads, handles, sessions  *)
(* and calls.  The web socket and the configuration have an inductive      *)
(* invariant each.                                                         *)
(***************************************************************************)
EXTENDS Signaling, TLAPS

-----------------------------------------------------------------------------
(* The web socket.                                                         *)

\* A thread inside Send, or between Disconnect's lock and unlock, has the guard.
GuardHeld ==
    \A t \in Threads :
        call[t].pc \in {"duplicate", "message", "closeDup", "swap"} => mOperationGuard = t

\* A thread's local handle was given out, and is not null where it is used.
LocalHandles ==
    \A t \in Threads :
        /\ call[t].h \in allocated \cup {Null}
        /\ call[t].pc \in {"message", "closeDup", "close"} => call[t].h # Null

\* The member is never a handle that was taken out of use.
MemberInUse == mWebSocketHandle \notin signedOut

SocketInv == SocketTypes /\ GuardHeld /\ LocalHandles /\ MemberInUse /\ NoSendAfterSignOut

\* A new socket object, or a new handle, has never been taken out of use.
LEMMA ConnectKeeps ==
    ASSUME SocketInv, NEW t \in Threads, ConnectAllocate(t)
    PROVE  SocketInv' /\ allocated \subseteq allocated'
<1> USE SocketConstants DEF SocketInv, SocketTypes, GuardHeld, LocalHandles, MemberInUse,
        NoSendAfterSignOut
<1>1. CASE mWebSocketHandle' = Null /\ UNCHANGED <<allocated, refs, call>>
  BY <1>1 DEF ConnectAllocate
<1>2. CASE Handles \ allocated # {}
           /\ \E h \in Handles \ allocated :
                /\ mWebSocketHandle' = h
                /\ allocated' = allocated \cup {h}
                /\ refs' = [refs EXCEPT ![h] = 1]
           /\ Goto(t, "headers", Null)
  BY <1>2 DEF ConnectAllocate, Goto, Steps, At
<1> QED
  BY <1>1, <1>2 DEF ConnectAllocate

\* Taking the guard, for a message or to disconnect.
LEMMA LockKeeps ==
    ASSUME SocketInv, NEW t \in Threads, SendLock(t) \/ DisconnectLock(t)
    PROVE  SocketInv' /\ UNCHANGED allocated
<1> USE SocketConstants DEF SocketInv, SocketTypes, GuardHeld, LocalHandles, MemberInUse,
        NoSendAfterSignOut
<1>1. CASE SendLock(t)
  BY <1>1 DEF SendLock, Goto, Steps, At
<1>2. CASE DisconnectLock(t)
  BY <1>2 DEF DisconnectLock, Goto, Steps, At
<1> QED
  BY <1>1, <1>2

\* A step that finds its handle freed changes nothing else.
LEMMA CrashKeeps ==
    ASSUME SocketInv, crash' \in BOOLEAN,
           UNCHANGED <<mWebSocketHandle, mOperationGuard, allocated, refs, call, signedOut>>
    PROVE  SocketInv'
BY DEF SocketInv, SocketTypes, GuardHeld, LocalHandles, MemberInUse, NoSendAfterSignOut

\* A step of one thread that keeps the member and the handles: what its new place
\* in the call must satisfy.
LEMMA MoveKeeps ==
    ASSUME SocketInv, NEW t \in Threads, NEW pc \in Steps, NEW h \in allocated \cup {Null},
           Goto(t, pc, h), refs' \in [Handles -> Nat],
           UNCHANGED <<mWebSocketHandle, allocated, signedOut, crash>>,
           \/ UNCHANGED mOperationGuard
           \/ mOperationGuard = t /\ mOperationGuard' = Null,
           pc \in {"duplicate", "message", "closeDup", "swap"} => mOperationGuard' = t,
           pc \in {"message", "closeDup", "close"} => h # Null,
           pc \in {"message", "closeDup"} => h \notin signedOut
    PROVE  SocketInv'
<1> USE SocketConstants DEF SocketInv
<1>1. /\ call \in [Threads -> [pc : Steps, h : Handles \cup {Null}]]
      /\ call' \in [Threads -> [pc : Steps, h : Handles \cup {Null}]]
      /\ call'[t].pc = pc /\ call'[t].h = h
      /\ \A u \in Threads \ {t} : call'[u] = call[u]
  BY DEF SocketTypes, Goto
<1>2. SocketTypes'
  BY <1>1 DEF SocketTypes
<1>3. GuardHeld'
  BY <1>1 DEF GuardHeld
<1>4. LocalHandles'
  BY <1>1 DEF LocalHandles
<1>5. MemberInUse'
  BY DEF MemberInUse
<1>6. NoSendAfterSignOut'
  BY <1>1 DEF NoSendAfterSignOut
<1> QED
  BY <1>2, <1>3, <1>4, <1>5, <1>6

\* Every later step of a call.
LEMMA StepKeeps ==
    ASSUME SocketInv, NEW t \in Threads, SocketStep(t)
    PROVE  SocketInv' /\ UNCHANGED allocated
<1> USE SocketConstants
<1>0. UNCHANGED allocated
  BY DEF SocketStep, ConnectHeaders, SendDuplicate, SendMessage, SendClose, DisconnectSwap,
         DisconnectSocket, DeallocateSocketAsync, DeallocateClose
<1>1. /\ call[t].pc \in {"duplicate", "message", "closeDup", "swap"} => mOperationGuard = t
      /\ call[t].h \in allocated \cup {Null}
      /\ call[t].pc \in {"message", "closeDup", "close"} => call[t].h # Null
      /\ call[t].pc \in {"message", "closeDup"} => call[t].h \notin signedOut
      /\ mWebSocketHandle \in allocated \cup {Null} /\ mWebSocketHandle \notin signedOut
      /\ allocated \subseteq Handles /\ refs \in [Handles -> Nat]
      /\ Null \in allocated \cup {Null} /\ crash \in BOOLEAN
  BY DEF SocketInv, GuardHeld, LocalHandles, MemberInUse, NoSendAfterSignOut, SocketTypes
<1>2. "idle" \in Steps /\ "message" \in Steps /\ "closeDup" \in Steps /\ "close" \in Steps
      /\ "disconnect" \in Steps /\ "deallocate" \in Steps
  BY DEF Steps
<1>3. ASSUME NEW h \in allocated, ~Freed(h), CloseHandle(h) PROVE refs' \in [Handles -> Nat]
  BY <1>1, <1>3 DEF Freed, CloseHandle
<1>4. CASE ConnectHeaders(t)
  <2>1. CASE UNCHANGED call
    BY <1>1, <1>4, <2>1, CrashKeeps DEF ConnectHeaders, Use, Return
  <2>2. CASE Goto(t, "idle", Null) /\ UNCHANGED <<refs, mOperationGuard, crash>>
    BY <1>1, <1>2, <1>4, <2>2, MoveKeeps DEF ConnectHeaders
  <2> QED
    BY <1>4, <2>1, <2>2 DEF ConnectHeaders, Use, Return
<1>5. CASE SendDuplicate(t)
  <2>1. CASE mWebSocketHandle = Null
    BY <1>1, <1>2, <1>5, <2>1, MoveKeeps DEF SendDuplicate, Return, At
  <2>2. CASE mWebSocketHandle # Null /\ Freed(mWebSocketHandle)
    BY <1>1, <1>5, <2>2, CrashKeeps DEF SendDuplicate, Use
  <2>3. CASE mWebSocketHandle # Null /\ ~Freed(mWebSocketHandle)
    <3>1. /\ Goto(t, "message", mWebSocketHandle)
          /\ refs' = [refs EXCEPT ![mWebSocketHandle] = @ + 1]
          /\ UNCHANGED <<mOperationGuard, crash, mWebSocketHandle, allocated, signedOut>>
          /\ mOperationGuard = t
      BY <1>1, <1>5, <2>3 DEF SendDuplicate, Use, At
    <3>2. refs' \in [Handles -> Nat]
      BY <1>1, <2>3, <3>1
    <3> QED
      BY <1>1, <1>2, <2>3, <3>1, <3>2, MoveKeeps
  <2> QED
    BY <2>1, <2>2, <2>3
<1>6. CASE SendMessage(t)
  <2>1. CASE Freed(call[t].h)
    BY <1>1, <1>6, <2>1, CrashKeeps DEF SendMessage, Use
  <2>2. CASE ~Freed(call[t].h)
    <3>1. /\ call[t].pc = "message" /\ UNCHANGED <<mWebSocketHandle, allocated, signedOut, crash, refs>>
          /\ \/ Goto(t, "closeDup", call[t].h) /\ UNCHANGED mOperationGuard
             \/ Goto(t, "idle", Null) /\ mOperationGuard' = Null
      BY <1>6, <2>2 DEF SendMessage, Use, At, Return
    <3>2. CASE Goto(t, "closeDup", call[t].h) /\ UNCHANGED mOperationGuard
      BY <1>1, <1>2, <3>1, <3>2, MoveKeeps
    <3>3. CASE Goto(t, "idle", Null) /\ mOperationGuard' = Null
      BY <1>1, <1>2, <3>1, <3>3, MoveKeeps
    <3> QED
      BY <3>1, <3>2, <3>3
  <2> QED
    BY <2>1, <2>2
<1>7. CASE SendClose(t)
  <2>1. CASE Freed(call[t].h)
    BY <1>1, <1>7, <2>1, CrashKeeps DEF SendClose, Use
  <2>2. CASE ~Freed(call[t].h)
    <3>1. /\ call[t].pc = "closeDup" /\ UNCHANGED <<mWebSocketHandle, allocated, signedOut, crash>>
          /\ CloseHandle(call[t].h) /\ Goto(t, "idle", Null) /\ mOperationGuard' = Null
      BY <1>7, <2>2 DEF SendClose, Use, At, Return
    <3>2. refs' \in [Handles -> Nat]
      BY <1>1, <1>3, <2>2, <3>1
    <3> QED
      BY <1>1, <1>2, <3>1, <3>2, MoveKeeps
  <2> QED
    BY <2>1, <2>2
<1>8. CASE DisconnectSwap(t)
  <2>1. PICK pc \in Steps, h \in allocated \cup {Null} :
          /\ pc \in {"idle", "disconnect"}
          /\ Goto(t, pc, h)
    BY <1>1, <1>2, <1>8 DEF DisconnectSwap, Return
  <2>2. /\ mOperationGuard = t /\ mOperationGuard' = Null /\ mWebSocketHandle' = Null
        /\ signedOut' = signedOut \cup ({call[t].h} \ {Null})
        /\ UNCHANGED <<allocated, refs, crash>>
    BY <1>1, <1>8 DEF DisconnectSwap, At
  <2>3. /\ call' \in [Threads -> [pc : Steps, h : Handles \cup {Null}]]
        /\ call'[t].pc = pc /\ call'[t].h = h
        /\ \A u \in Threads \ {t} : call'[u] = call[u]
    BY <1>1, <2>1 DEF SocketInv, SocketTypes, Goto
  <2>4. SocketTypes'
    BY <1>1, <2>2, <2>3 DEF SocketInv, SocketTypes
  <2>5. \A u \in Threads \ {t} :
          call[u].pc \notin {"duplicate", "message", "closeDup", "swap"}
    BY <2>2 DEF SocketInv, GuardHeld
  <2>6. GuardHeld' /\ NoSendAfterSignOut'
    BY <2>1, <2>3, <2>5 DEF GuardHeld, NoSendAfterSignOut
  <2>7. LocalHandles'
    BY <2>1, <2>2, <2>3 DEF SocketInv, LocalHandles
  <2>8. MemberInUse'
    BY <2>2 DEF SocketInv, SocketTypes, MemberInUse
  <2> QED
    BY <1>0, <2>4, <2>6, <2>7, <2>8 DEF SocketInv
<1>9. CASE DisconnectSocket(t)
  <2>1. CASE Freed(mWebSocketHandle)
    BY <1>1, <1>9, <2>1, CrashKeeps DEF DisconnectSocket, Use
  <2>2. CASE ~Freed(mWebSocketHandle)
    BY <1>1, <1>2, <1>9, <2>2, MoveKeeps DEF DisconnectSocket, Use
  <2> QED
    BY <2>1, <2>2
<1>10. CASE DeallocateSocketAsync(t)
  <2>1. CASE Freed(mWebSocketHandle)
    BY <1>1, <1>10, <2>1, CrashKeeps DEF DeallocateSocketAsync, Use
  <2>2. CASE ~Freed(mWebSocketHandle)
    <3>1. /\ UNCHANGED <<mWebSocketHandle, allocated, signedOut, crash, refs, mOperationGuard>>
          /\ \/ mWebSocketHandle # Null /\ Goto(t, "close", mWebSocketHandle)
             \/ Goto(t, "idle", Null)
      BY <1>10, <2>2 DEF DeallocateSocketAsync, Use, Return
    <3>2. CASE mWebSocketHandle # Null /\ Goto(t, "close", mWebSocketHandle)
      BY <1>1, <1>2, <3>1, <3>2, MoveKeeps
    <3>3. CASE Goto(t, "idle", Null)
      BY <1>1, <1>2, <3>1, <3>3, MoveKeeps
    <3> QED
      BY <3>1, <3>2, <3>3
  <2> QED
    BY <2>1, <2>2
<1>11. CASE DeallocateClose(t)
  <2>1. CASE Freed(call[t].h)
    BY <1>1, <1>11, <2>1, CrashKeeps DEF DeallocateClose, Use
  <2>2. CASE ~Freed(call[t].h)
    <3>1. /\ call[t].pc = "close" /\ CloseHandle(call[t].h) /\ Goto(t, "idle", Null)
          /\ UNCHANGED <<mWebSocketHandle, allocated, signedOut, crash, mOperationGuard>>
      BY <1>11, <2>2 DEF DeallocateClose, Use, At, Return
    <3>2. refs' \in [Handles -> Nat]
      BY <1>1, <1>3, <2>2, <3>1
    <3> QED
      BY <1>1, <1>2, <3>1, <3>2, MoveKeeps
  <2> QED
    BY <2>1, <2>2
<1> QED
  BY <1>0, <1>4, <1>5, <1>6, <1>7, <1>8, <1>9, <1>10, <1>11 DEF SocketStep

-----------------------------------------------------------------------------
(* The configuration.                                                      *)

IsCall(i) == configTasks[i].kind # "open"
Positions == 1..Len(configTasks)

\* Tasks name the call or the session they are for.
TasksNamed ==
    \A i \in Positions :
        IF IsCall(i) THEN configTasks[i].of \in 1..calls
                     ELSE /\ configTasks[i].of \in Sessions
                          /\ openedAfter[configTasks[i].of] # NotYet

\* The queue holds the calls in the order they were made, all of them later than
\* the one whose task wrote the configuration last.
CallsInOrder ==
    \A i \in Positions : IsCall(i) =>
        /\ writtenBy < configTasks[i].of
        /\ \A j \in Positions : i < j /\ IsCall(j) => configTasks[i].of < configTasks[j].of

\* Where a call has gone, as seen from the position k of the queue.
Settled(n, k) ==
    \/ n \in skipped
    \/ n <= writtenBy
    \/ \E i \in Positions : i < k /\ IsCall(i) /\ configTasks[i].of = n

\* No call is lost.
CallsAccounted == \A n \in 1..calls : Settled(n, Len(configTasks) + 1)

\* The calls made before a session was opened are ahead of it.
OpenBehindCalls ==
    \A k \in Positions : ~IsCall(k) =>
        \A n \in 1..openedAfter[configTasks[k].of] : Settled(n, k)

\* A configuration is copied for an opened session only.
CopiedWereOpened == \A s \in Sessions : copied[s] # NotYet => openedAfter[s] # NotYet

\* The configuration was last written for a call that was made.
ConfigMade == writtenBy <= calls

ConfigInv ==
    /\ ConfigTypes /\ TasksNamed /\ CallsInOrder /\ CallsAccounted
    /\ OpenBehindCalls /\ CopiedWereOpened /\ ConfigMade /\ ConfigurationInOrder

Tasks == [kind : Kinds, of : (1..MaxCalls) \cup Sessions]

LEMMA AppendFacts ==
    ASSUME NEW q \in Seq(Tasks), NEW x \in Tasks
    PROVE  /\ Append(q, x) \in Seq(Tasks)
           /\ Len(Append(q, x)) = Len(q) + 1
           /\ \A i \in 1..Len(q) : Append(q, x)[i] = q[i]
           /\ Append(q, x)[Len(q) + 1] = x
OBVIOUS

LEMMA TailFacts ==
    ASSUME NEW q \in Seq(Tasks), q # <<>>
    PROVE  /\ Tail(q) \in Seq(Tasks)
           /\ Len(q) \in Nat /\ Len(q) > 0
           /\ Len(Tail(q)) = Len(q) - 1
           /\ \A i \in 1..(Len(q) - 1) : Tail(q)[i] = q[i + 1]
           /\ Head(q) = q[1] /\ q[1] \in Tasks
OBVIOUS

\* Posting a call, or finding nowhere to post it.
LEMMA ConfigureKeeps ==
    ASSUME ConfigInv, NEW kind \in {"set", "signIn", "turn"}, Configure(kind)
    PROVE  ConfigInv' /\ calls' = calls + 1 /\ skipped \subseteq skipped'
<1> USE ConfigConstants DEF ConfigInv
<1>0. /\ calls \in Nat /\ calls' = calls + 1 /\ calls' \in 0..MaxCalls
      /\ configTasks \in Seq(Tasks) /\ Len(configTasks) \in Nat
      /\ writtenBy \in Nat /\ UNCHANGED <<mThread, quitting, writtenBy, openedAfter, copied>>
  BY DEF Configure, ConfigTypes, Tasks
<1>a. ConfigMade'
  BY <1>0 DEF ConfigMade
<1>1. CASE Posts
  <2> DEFINE x == [kind |-> kind, of |-> calls + 1]
  <2>1. /\ x \in Tasks /\ x.kind # "open" /\ x.of = calls + 1
        /\ configTasks' = Append(configTasks, x) /\ UNCHANGED skipped
    BY <1>0, <1>1 DEF Configure, Tasks, Kinds
  <2>2. /\ configTasks' \in Seq(Tasks)
        /\ Len(configTasks') = Len(configTasks) + 1
        /\ \A i \in Positions : configTasks'[i] = configTasks[i]
        /\ configTasks'[Len(configTasks) + 1] = x
    BY <1>0, <2>1, AppendFacts DEF Positions
  <2> HIDE DEF x
  <2>3. ConfigTypes'
    BY <1>0, <2>1, <2>2 DEF ConfigTypes, Tasks
  <2>4. TasksNamed'
    <3> SUFFICES ASSUME NEW i \in Positions'
                 PROVE  IF IsCall(i)' THEN configTasks'[i].of \in 1..calls'
                        ELSE /\ configTasks'[i].of \in Sessions
                             /\ openedAfter'[configTasks'[i].of] # NotYet
      BY DEF TasksNamed
    <3>1. CASE i \in Positions
      BY <1>0, <2>2, <3>1 DEF TasksNamed, IsCall
    <3>2. CASE i = Len(configTasks) + 1
      BY <1>0, <2>1, <2>2, <3>2 DEF IsCall
    <3> QED
      BY <1>0, <2>2, <3>1, <3>2 DEF Positions
  <2>5. writtenBy <= calls
    BY DEF ConfigMade
  <2>6. CallsInOrder'
    <3>1. \A i \in Positions : IsCall(i) => configTasks[i].of \in 1..calls
      BY DEF TasksNamed
    <3> SUFFICES ASSUME NEW i \in Positions', IsCall(i)'
                 PROVE  /\ writtenBy' < configTasks'[i].of
                        /\ \A j \in Positions' : i < j /\ IsCall(j)' =>
                             configTasks'[i].of < configTasks'[j].of
      BY DEF CallsInOrder
    <3>2. CASE i = Len(configTasks) + 1
      BY <1>0, <2>1, <2>2, <2>5, <3>2 DEF Positions
    <3>3. CASE i \in Positions
      <4>1. IsCall(i) /\ configTasks'[i] = configTasks[i] /\ configTasks[i].of \in 1..calls
        BY <2>2, <3>1, <3>3 DEF IsCall
      <4>2. writtenBy' < configTasks'[i].of
        BY <1>0, <3>3, <4>1 DEF CallsInOrder
      <4>3. ASSUME NEW j \in Positions', i < j, IsCall(j)'
            PROVE  configTasks'[i].of < configTasks'[j].of
        <5>1. CASE j \in Positions
          BY <2>2, <3>3, <4>1, <4>3, <5>1 DEF CallsInOrder, IsCall
        <5>2. CASE j = Len(configTasks) + 1
          BY <1>0, <2>1, <2>2, <4>1, <5>2
        <5> QED
          BY <1>0, <2>2, <5>1, <5>2 DEF Positions
      <4> QED
        BY <4>2, <4>3
    <3> QED
      BY <1>0, <2>2, <3>2, <3>3 DEF Positions
  <2>7. ASSUME NEW n \in Int, NEW k \in Int, k <= Len(configTasks) + 1, Settled(n, k)
        PROVE  Settled(n, k)'
    BY <1>0, <2>1, <2>2, <2>7 DEF Settled, Positions, IsCall
  <2>8. CallsAccounted'
    <3> SUFFICES ASSUME NEW n \in 1..calls' PROVE Settled(n, Len(configTasks) + 1)'
      BY DEF CallsAccounted
    <3>1. CASE n = calls + 1
      BY <1>0, <2>1, <2>2, <3>1 DEF Settled, Positions, IsCall
    <3>2. CASE n # calls + 1
      <4>1. n \in 1..calls
        BY <1>0, <3>2
      <4>2. Settled(n, Len(configTasks) + 1)
        BY <4>1 DEF CallsAccounted
      <4> QED
        BY <1>0, <2>1, <2>2, <4>2 DEF Settled, Positions, IsCall
    <3> QED
      BY <3>1, <3>2
  <2>9. OpenBehindCalls'
    <3> SUFFICES ASSUME NEW k \in Positions', ~IsCall(k)',
                        NEW n \in (1..openedAfter[configTasks[k].of])'
                 PROVE  Settled(n, k)'
      BY DEF OpenBehindCalls
    <3>1. k \in Positions /\ ~IsCall(k) /\ configTasks'[k] = configTasks[k]
      BY <1>0, <2>1, <2>2 DEF Positions, IsCall
    <3>2. n \in 1..openedAfter[configTasks[k].of]
      BY <1>0, <3>1
    <3>3. Settled(n, k)
      BY <3>1, <3>2 DEF OpenBehindCalls
    <3> QED
      BY <1>0, <2>7, <3>1, <3>3 DEF Positions
  <2>10. CopiedWereOpened' /\ ConfigurationInOrder'
    BY <1>0, <2>1 DEF CopiedWereOpened, ConfigurationInOrder
  <2> QED
    BY <1>0, <1>a, <2>1, <2>3, <2>4, <2>6, <2>8, <2>9, <2>10
<1>2. CASE ~Posts
  <2>1. UNCHANGED configTasks /\ skipped' = skipped \cup {calls + 1}
    BY <1>2 DEF Configure
  <2>2. ConfigTypes'
    BY <1>0, <2>1 DEF ConfigTypes
  <2>3. TasksNamed' /\ CallsInOrder'
    BY <1>0, <2>1 DEF TasksNamed, CallsInOrder, Positions, IsCall
  <2>4. CallsAccounted' /\ OpenBehindCalls'
    BY <1>0, <2>1 DEF CallsAccounted, OpenBehindCalls, Settled, Positions, IsCall
  <2>5. CopiedWereOpened' /\ ConfigurationInOrder'
    BY <1>0, <2>1 DEF CopiedWereOpened, ConfigurationInOrder
  <2> QED
    BY <1>0, <1>a, <2>1, <2>2, <2>3, <2>4, <2>5
<1> QED
  BY <1>1, <1>2

\* Opening a session: its task goes behind every call made so far.
LEMMA OpenSessionKeeps ==
    ASSUME ConfigInv, NEW s \in Sessions, OpenSession(s)
    PROVE  /\ ConfigInv' /\ UNCHANGED <<calls, skipped>>
           /\ openedAfter' = [openedAfter EXCEPT ![s] = calls]
           /\ openedAfter[s] = NotYet
<1> USE ConfigConstants DEF ConfigInv
<1>0. /\ calls \in Nat /\ calls <= MaxCalls /\ openedAfter[s] = NotYet
      /\ configTasks \in Seq(Tasks) /\ Len(configTasks) \in Nat
      /\ openedAfter \in [Sessions -> NotYet..MaxCalls]
      /\ openedAfter' = [openedAfter EXCEPT ![s] = calls]
      /\ UNCHANGED <<mThread, quitting, writtenBy, calls, skipped, copied>>
  BY DEF OpenSession, ConfigTypes, Tasks
<1>1. ConfigTypes' <=> configTasks' \in Seq(Tasks)
  BY <1>0 DEF ConfigTypes, NotYet, Tasks
<1>2. CopiedWereOpened' /\ ConfigMade' /\ ConfigurationInOrder'
  BY <1>0 DEF CopiedWereOpened, ConfigMade, ConfigurationInOrder, NotYet
<1>3. \A i \in Positions : ~IsCall(i) =>
        /\ configTasks[i].of \in Sessions
        /\ configTasks[i].of # s
        /\ openedAfter'[configTasks[i].of] = openedAfter[configTasks[i].of]
        /\ openedAfter[configTasks[i].of] # NotYet
  BY <1>0 DEF TasksNamed
<1>4. CASE Posts
  <2> DEFINE x == [kind |-> "open", of |-> s]
  <2>1. x \in Tasks /\ x.kind = "open" /\ x.of = s /\ configTasks' = Append(configTasks, x)
    BY <1>4 DEF OpenSession, Tasks, Kinds
  <2>2. /\ configTasks' \in Seq(Tasks)
        /\ Len(configTasks') = Len(configTasks) + 1
        /\ \A i \in Positions : configTasks'[i] = configTasks[i]
        /\ configTasks'[Len(configTasks) + 1] = x
    BY <1>0, <2>1, AppendFacts DEF Positions
  <2> HIDE DEF x
  <2>3. TasksNamed'
    <3> SUFFICES ASSUME NEW i \in Positions'
                 PROVE  IF IsCall(i)' THEN configTasks'[i].of \in 1..calls'
                        ELSE /\ configTasks'[i].of \in Sessions
                             /\ openedAfter'[configTasks'[i].of] # NotYet
      BY DEF TasksNamed
    <3>1. CASE i \in Positions
      BY <1>0, <1>3, <2>2, <3>1 DEF TasksNamed, IsCall
    <3>2. CASE i = Len(configTasks) + 1
      BY <1>0, <2>1, <2>2, <3>2 DEF IsCall, NotYet
    <3> QED
      BY <1>0, <2>2, <3>1, <3>2 DEF Positions
  <2>4. \A i \in Positions' : IsCall(i)' =>
          i \in Positions /\ IsCall(i) /\ configTasks'[i] = configTasks[i]
    BY <1>0, <2>1, <2>2 DEF Positions, IsCall
  <2>5. CallsInOrder'
    BY <1>0, <2>4 DEF CallsInOrder
  <2>6. ASSUME NEW n \in Int, NEW k \in Int, k <= Len(configTasks) + 1, Settled(n, k)
        PROVE  Settled(n, k)'
    BY <1>0, <2>1, <2>2, <2>6 DEF Settled, Positions, IsCall
  <2>8. CallsAccounted'
    <3> SUFFICES ASSUME NEW n \in 1..calls PROVE Settled(n, Len(configTasks) + 1)'
      BY <1>0 DEF CallsAccounted
    <3>1. Settled(n, Len(configTasks) + 1)
      BY DEF CallsAccounted
    <3> QED
      BY <1>0, <2>1, <2>2, <3>1 DEF Settled, Positions, IsCall
  <2>9. OpenBehindCalls'
    <3> SUFFICES ASSUME NEW k \in Positions', ~IsCall(k)',
                        NEW n \in (1..openedAfter[configTasks[k].of])'
                 PROVE  Settled(n, k)'
      BY DEF OpenBehindCalls
    <3>1. CASE k \in Positions
      <4>1. ~IsCall(k) /\ configTasks'[k] = configTasks[k]
        BY <2>2, <3>1 DEF IsCall
      <4>2. n \in 1..openedAfter[configTasks[k].of]
        BY <1>3, <3>1, <4>1
      <4>3. Settled(n, k)
        BY <3>1, <4>1, <4>2 DEF OpenBehindCalls
      <4> QED
        BY <1>0, <2>6, <3>1, <4>3 DEF Positions
    <3>2. CASE k = Len(configTasks) + 1
      <4>1. n \in 1..calls
        BY <1>0, <2>1, <2>2, <3>2
      <4>2. Settled(n, Len(configTasks) + 1)
        BY <4>1 DEF CallsAccounted
      <4> QED
        BY <1>0, <2>6, <3>2, <4>2
    <3> QED
      BY <1>0, <2>2, <3>1, <3>2 DEF Positions
  <2> QED
    BY <1>0, <1>1, <1>2, <2>2, <2>3, <2>5, <2>8, <2>9
<1>5. CASE ~Posts
  <2>1. UNCHANGED configTasks
    BY <1>5 DEF OpenSession
  <2>2. TasksNamed'
    BY <1>0, <1>3, <2>1 DEF TasksNamed, Positions, IsCall
  <2>3. CallsInOrder' /\ CallsAccounted'
    BY <1>0, <2>1 DEF CallsInOrder, CallsAccounted, Settled, Positions, IsCall
  <2>4. OpenBehindCalls'
    BY <1>0, <1>3, <2>1 DEF OpenBehindCalls, Settled, Positions, IsCall
  <2> QED
    BY <1>0, <1>1, <1>2, <2>1, <2>2, <2>3, <2>4
<1> QED
  BY <1>4, <1>5

\* Taking a task off the queue: the rest of it moves up by one, and a call in it
\* that was at the head must be settled by the task itself.
LEMMA TakeKeeps ==
    ASSUME ConfigInv, configTasks # <<>>, configTasks' = Tail(configTasks),
           writtenBy' \in 0..calls, writtenBy <= writtenBy',
           skipped \subseteq skipped', skipped' \subseteq 1..calls,
           IsCall(1) => \/ writtenBy' = configTasks[1].of
                        \/ writtenBy' = writtenBy /\ configTasks[1].of \in skipped',
           ~IsCall(1) => writtenBy' = writtenBy,
           UNCHANGED <<mThread, quitting, calls, openedAfter>>
    PROVE  /\ TasksNamed' /\ CallsInOrder' /\ CallsAccounted' /\ OpenBehindCalls'
           /\ configTasks' \in Seq(Tasks)
<1> USE DEF ConfigInv
<1>0. calls \in Nat /\ writtenBy \in Nat /\ configTasks \in Seq(Tasks)
  BY DEF ConfigTypes, Tasks
<1>1. /\ configTasks' \in Seq(Tasks)
      /\ Len(configTasks) \in Nat /\ Len(configTasks) > 0
      /\ Len(configTasks') = Len(configTasks) - 1
      /\ \A i \in Positions' :
           /\ i \in Nat /\ i + 1 \in Positions
           /\ configTasks'[i] = configTasks[i + 1]
           /\ IsCall(i)' <=> IsCall(i + 1)
  BY <1>0, TailFacts DEF Positions, IsCall
<1>2. 1 \in Positions
  BY <1>1 DEF Positions
<1>3. TasksNamed'
  BY <1>1 DEF TasksNamed
<1>4. \A i \in Positions : IsCall(i) => configTasks[i].of \in 1..calls
  BY DEF TasksNamed
<1>5. CallsInOrder'
  <2> SUFFICES ASSUME NEW i \in Positions', IsCall(i)'
               PROVE  /\ writtenBy' < configTasks'[i].of
                      /\ \A j \in Positions' : i < j /\ IsCall(j)' =>
                           configTasks'[i].of < configTasks'[j].of
    BY DEF CallsInOrder
  <2>1. /\ i \in Nat /\ i + 1 \in Positions /\ IsCall(i + 1)
        /\ configTasks'[i] = configTasks[i + 1] /\ configTasks[i + 1].of \in 1..calls
    BY <1>1, <1>4
  <2>2. writtenBy < configTasks[i + 1].of
    BY <2>1 DEF CallsInOrder
  <2>3. IsCall(1) => configTasks[1].of < configTasks[i + 1].of
    <3>1. 1 < i + 1
      BY <2>1 DEF Positions
    <3> QED
      BY <1>2, <2>1, <3>1 DEF CallsInOrder
  <2>4. ASSUME NEW j \in Positions', i < j, IsCall(j)'
        PROVE  configTasks'[i].of < configTasks'[j].of
    <3>1. /\ j \in Nat /\ j + 1 \in Positions /\ IsCall(j + 1)
          /\ configTasks'[j] = configTasks[j + 1] /\ i + 1 < j + 1
      BY <1>1, <2>1, <2>4 DEF Positions
    <3> QED
      BY <2>1, <3>1 DEF CallsInOrder
  <2> QED
    BY <2>1, <2>2, <2>3, <2>4
<1>6. ASSUME NEW n \in Nat, NEW k \in Nat, 1 <= k, k <= Len(configTasks) + 1, Settled(n, k)
      PROVE  Settled(n, k - 1)'
  <2>1. CASE n \in skipped
    BY <2>1 DEF Settled
  <2>2. CASE n <= writtenBy
    BY <1>0, <2>2 DEF Settled
  <2>3. ASSUME NEW i \in Positions, i < k, IsCall(i), configTasks[i].of = n
        PROVE  Settled(n, k - 1)'
    <3>1. CASE i = 1
      BY <1>0, <2>3, <3>1 DEF Settled
    <3>2. CASE i # 1
      <4>1. i - 1 \in Positions' /\ i - 1 < k - 1 /\ (i - 1) + 1 = i
        BY <1>1, <2>3, <3>2 DEF Positions
      <4>2. IsCall(i - 1)' /\ configTasks'[i - 1].of = n
        BY <1>1, <2>3, <4>1
      <4> QED
        BY <4>1, <4>2 DEF Settled
    <3> QED
      BY <3>1, <3>2
  <2> QED
    BY <1>6, <2>1, <2>2, <2>3 DEF Settled
<1>7. CallsAccounted'
  <2> SUFFICES ASSUME NEW n \in 1..calls PROVE Settled(n, Len(configTasks) + 1)'
    BY DEF CallsAccounted
  <2>1. Settled(n, Len(configTasks) + 1)
    BY DEF CallsAccounted
  <2>2. ASSUME NEW k \in Nat, k = Len(configTasks) + 1 PROVE Settled(n, k - 1)'
    BY <1>1, <1>6, <2>1, <2>2
  <2> QED
    BY <1>1, <2>2 DEF Settled, Positions
<1>8. OpenBehindCalls'
  <2> SUFFICES ASSUME NEW k \in Positions', ~IsCall(k)',
                      NEW n \in (1..openedAfter[configTasks[k].of])'
               PROVE  Settled(n, k)'
    BY DEF OpenBehindCalls
  <2>1. /\ k \in Nat /\ k + 1 \in Positions /\ ~IsCall(k + 1)
        /\ configTasks'[k] = configTasks[k + 1]
    BY <1>1
  <2>2. Settled(n, k + 1)
    BY <2>1 DEF OpenBehindCalls
  <2> QED
    BY <1>1, <1>6, <2>1, <2>2 DEF Positions
<1> QED
  BY <1>1, <1>3, <1>5, <1>7, <1>8

\* The signal thread runs a task.
LEMMA TaskKeeps ==
    ASSUME ConfigInv, RunConfigTask
    PROVE  ConfigInv' /\ UNCHANGED <<calls, openedAfter>> /\ skipped \subseteq skipped'
<1> USE ConfigConstants DEF ConfigInv
<1>0. /\ configTasks # <<>> /\ configTasks' = Tail(configTasks)
      /\ UNCHANGED <<mThread, quitting, calls, openedAfter>>
  BY DEF RunConfigTask, ServersTask, TurnTask, OpenTask, NextConfigTask
<1>1. /\ configTasks \in Seq(Tasks) /\ calls \in 0..MaxCalls /\ writtenBy \in Nat
      /\ writtenBy <= calls
      /\ skipped \subseteq 1..calls /\ openedAfter \in [Sessions -> NotYet..MaxCalls]
      /\ copied \in [Sessions -> NotYet..MaxCalls]
  BY DEF ConfigTypes, Tasks, ConfigMade
<1>2. Head(configTasks) = configTasks[1] /\ 1 \in Positions
  BY <1>0, <1>1, TailFacts DEF Positions
<1>3. CASE ServersTask("set") \/ ServersTask("signIn")
  <2>1. /\ IsCall(1) /\ writtenBy' = configTasks[1].of /\ UNCHANGED <<skipped, copied>>
    BY <1>2, <1>3 DEF ServersTask, NextConfigTask, IsCall
  <2>2. writtenBy < configTasks[1].of /\ configTasks[1].of \in 1..calls
    BY <1>2, <2>1 DEF CallsInOrder, TasksNamed
  <2>3. writtenBy' \in 0..calls /\ writtenBy <= writtenBy'
    BY <1>1, <2>1, <2>2
  <2>4. /\ TasksNamed' /\ CallsInOrder' /\ CallsAccounted' /\ OpenBehindCalls'
        /\ configTasks' \in Seq(Tasks)
    BY <1>0, <1>1, <2>1, <2>3, TakeKeeps
  <2>5. ConfigTypes' /\ ConfigMade'
    BY <1>0, <1>1, <2>1, <2>3, <2>4 DEF ConfigTypes, ConfigMade, Tasks
  <2>6. CopiedWereOpened' /\ ConfigurationInOrder'
    BY <1>0, <2>1 DEF CopiedWereOpened, ConfigurationInOrder
  <2> QED
    BY <1>0, <2>1, <2>4, <2>5, <2>6
<1>4. CASE TurnTask
  <2>1. IsCall(1) /\ UNCHANGED copied
    BY <1>2, <1>4 DEF TurnTask, NextConfigTask, IsCall
  <2>2. writtenBy < configTasks[1].of /\ configTasks[1].of \in 1..calls
    BY <1>2, <2>1 DEF CallsInOrder, TasksNamed
  <2>3. \/ writtenBy' = configTasks[1].of /\ UNCHANGED skipped
        \/ UNCHANGED writtenBy /\ skipped' = skipped \cup {configTasks[1].of}
    BY <1>2, <1>4 DEF TurnTask
  <2>4. /\ writtenBy' \in 0..calls /\ writtenBy <= writtenBy'
        /\ skipped \subseteq skipped' /\ skipped' \subseteq 1..calls
    <3>1. CASE writtenBy' = configTasks[1].of /\ UNCHANGED skipped
      BY <1>1, <2>2, <3>1
    <3>2. CASE UNCHANGED writtenBy /\ skipped' = skipped \cup {configTasks[1].of}
      <4>1. writtenBy' \in 0..calls /\ writtenBy <= writtenBy'
        BY <1>1, <3>2
      <4>2. skipped \subseteq skipped' /\ skipped' \subseteq 1..calls
        BY <1>1, <2>2, <3>2
      <4> QED
        BY <4>1, <4>2
    <3> QED
      BY <2>3, <3>1, <3>2
  <2>5. /\ TasksNamed' /\ CallsInOrder' /\ CallsAccounted' /\ OpenBehindCalls'
        /\ configTasks' \in Seq(Tasks)
    BY <1>0, <1>1, <2>1, <2>3, <2>4, TakeKeeps
  <2>6. ConfigTypes' /\ ConfigMade'
    BY <1>0, <1>1, <2>1, <2>4, <2>5 DEF ConfigTypes, ConfigMade, Tasks
  <2>7. CopiedWereOpened' /\ ConfigurationInOrder'
    BY <1>0, <2>1, <2>4 DEF CopiedWereOpened, ConfigurationInOrder
  <2> QED
    BY <1>0, <2>4, <2>5, <2>6, <2>7
<1>5. CASE OpenTask
  <2> DEFINE s == configTasks[1].of
  <2>1. /\ ~IsCall(1) /\ UNCHANGED <<writtenBy, skipped>>
        /\ copied' = [copied EXCEPT ![s] = writtenBy]
    BY <1>2, <1>5 DEF OpenTask, NextConfigTask, IsCall
  <2>2. s \in Sessions /\ openedAfter[s] # NotYet
    BY <1>2, <2>1 DEF TasksNamed
  <2>3. /\ TasksNamed' /\ CallsInOrder' /\ CallsAccounted' /\ OpenBehindCalls'
        /\ configTasks' \in Seq(Tasks)
    BY <1>0, <1>1, <2>1, TakeKeeps
  <2>4. ConfigTypes' /\ ConfigMade'
    BY <1>0, <1>1, <2>1, <2>2, <2>3 DEF ConfigTypes, ConfigMade, Tasks, NotYet
  <2>5. CopiedWereOpened'
    BY <1>0, <2>1, <2>2 DEF CopiedWereOpened
  <2>6. \A n \in 1..openedAfter[s] : n \in skipped \/ n <= writtenBy
    BY <1>2, <2>1 DEF OpenBehindCalls, Settled, Positions
  <2>7. ConfigurationInOrder'
    <3> SUFFICES ASSUME NEW u \in Sessions, copied'[u] # NotYet
                 PROVE  (1..openedAfter[u]) \ skipped \subseteq 1..copied'[u]
      BY <1>0, <2>1 DEF ConfigurationInOrder
    <3>1. CASE u = s
      BY <1>1, <2>1, <2>2, <2>6, <3>1
    <3>2. CASE u # s
      BY <1>1, <2>1, <3>2 DEF ConfigurationInOrder
    <3> QED
      BY <3>1, <3>2
  <2> QED
    BY <1>0, <2>1, <2>3, <2>4, <2>5, <2>7
<1> QED
  BY <1>3, <1>4, <1>5 DEF RunConfigTask

\* RtcThreadManager::Shutdown stops the posting, and then takes the pointer away.
LEMMA ShutdownKeeps ==
    ASSUME ConfigInv, ShutdownStop \/ ShutdownClear
    PROVE  ConfigInv'
<1> USE DEF ConfigInv
<1>1. /\ mThread' \in BOOLEAN /\ quitting' \in BOOLEAN
      /\ UNCHANGED <<configTasks, writtenBy, calls, skipped, openedAfter, copied>>
  BY DEF ShutdownStop, ShutdownClear, ConfigTypes
<1>2. ConfigTypes'
  BY <1>1 DEF ConfigTypes
<1>3. TasksNamed' /\ CallsInOrder'
  BY <1>1 DEF TasksNamed, CallsInOrder, Positions, IsCall
<1>4. CallsAccounted' /\ OpenBehindCalls'
  BY <1>1 DEF CallsAccounted, OpenBehindCalls, Settled, Positions, IsCall
<1>5. CopiedWereOpened' /\ ConfigMade' /\ ConfigurationInOrder'
  BY <1>1 DEF CopiedWereOpened, ConfigMade, ConfigurationInOrder
<1> QED
  BY <1>2, <1>3, <1>4, <1>5

\* Steps that leave one of the two parts alone.
LEMMA ConfigUnchanged ==
    ASSUME ConfigInv, UNCHANGED configVars
    PROVE  ConfigInv' /\ UNCHANGED <<calls, openedAfter>>
<1> USE DEF ConfigInv, configVars
<1>1. UNCHANGED <<calls, openedAfter>>
  OBVIOUS
<1>2. ConfigTypes'
  BY DEF ConfigTypes
<1>3. TasksNamed' /\ CallsInOrder'
  BY DEF TasksNamed, CallsInOrder, Positions, IsCall
<1>4. CallsAccounted' /\ OpenBehindCalls'
  BY DEF CallsAccounted, OpenBehindCalls, Settled, Positions, IsCall
<1>5. CopiedWereOpened' /\ ConfigMade' /\ ConfigurationInOrder'
  BY DEF CopiedWereOpened, ConfigMade, ConfigurationInOrder
<1> QED
  BY <1>1, <1>2, <1>3, <1>4, <1>5

LEMMA SocketUnchanged ==
    ASSUME SocketInv, UNCHANGED socketVars
    PROVE  SocketInv' /\ UNCHANGED allocated
BY DEF SocketInv, SocketTypes, GuardHeld, LocalHandles, MemberInUse, NoSendAfterSignOut,
       socketVars

-----------------------------------------------------------------------------
(* The two together.                                                       *)

InterfaceType == mpWebRTCSignalingInterface \in {"null", "webSocket"}

SignalingInv == SocketInv /\ ConfigInv /\ InterfaceType

\* The inductive invariant holds initially.
LEMMA SignalingInitially == Init => SignalingInv
<1> SUFFICES ASSUME Init PROVE SignalingInv
  OBVIOUS
<1> USE SocketConstants, ConfigConstants DEF Init
<1>1. SocketInv
  BY DEF SocketInit, SocketInv, SocketTypes, GuardHeld, LocalHandles, MemberInUse,
         NoSendAfterSignOut, Steps
<1>2. ConfigInv
  <2>1. Positions = {}
    BY DEF ConfigInit, Positions
  <2>a. configTasks \in Seq(Tasks) /\ skipped \subseteq 1..calls
    BY DEF ConfigInit
  <2>b. /\ openedAfter \in [Sessions -> NotYet..MaxCalls]
        /\ copied \in [Sessions -> NotYet..MaxCalls]
        /\ writtenBy \in 0..MaxCalls /\ calls \in 0..MaxCalls
    BY DEF ConfigInit, NotYet
  <2>2. ConfigTypes
    BY <2>a, <2>b DEF ConfigInit, ConfigTypes, Tasks
  <2>3. TasksNamed /\ CallsInOrder /\ OpenBehindCalls
    BY <2>1 DEF TasksNamed, CallsInOrder, OpenBehindCalls
  <2>4. CallsAccounted /\ CopiedWereOpened /\ ConfigMade /\ ConfigurationInOrder
    BY DEF ConfigInit, CallsAccounted, CopiedWereOpened, ConfigMade, ConfigurationInOrder
  <2> QED
    BY <2>2, <2>3, <2>4 DEF ConfigInv
<1>3. InterfaceType
  BY DEF InterfaceType
<1> QED
  BY <1>1, <1>2, <1>3 DEF SignalingInv

\* Every step preserves the inductive invariant.
LEMMA SignalingStep ==
    ASSUME SignalingInv, [Next]_vars
    PROVE  SignalingInv'
<1>0. SocketInv /\ ConfigInv /\ InterfaceType
  BY DEF SignalingInv
<1>1. ASSUME NEW t \in Threads,
             \/ SignOutFromSignalingService(t) \/ ConnectThroughInterface(t)
             \/ SendThroughInterface(t) \/ ContinueCall(t)
      PROVE  SignalingInv'
  <2>1. SocketInv'
    BY <1>0, <1>1, LockKeeps, ConnectKeeps, StepKeeps DEF SignOutFromSignalingService,
       ConnectThroughInterface, SendThroughInterface, ContinueCall
  <2>2. UNCHANGED <<configVars, mpWebRTCSignalingInterface>>
    BY <1>1 DEF SignOutFromSignalingService, ConnectThroughInterface, SendThroughInterface,
       ContinueCall
  <2> QED
    BY <1>0, <2>1, <2>2, ConfigUnchanged DEF SignalingInv, InterfaceType
<1>2. ASSUME NEW s \in Sessions, OpenSessionWithUser(s) PROVE SignalingInv'
  BY <1>0, <1>2, OpenSessionKeeps, SocketUnchanged DEF OpenSessionWithUser, SignalingInv,
     InterfaceType
<1>3. CASE SetWebRTCSignalingInterface
  <2>1. SocketInv'
    BY <1>0, <1>3, SocketConstants DEF SetWebRTCSignalingInterface, SocketInv, SocketTypes,
       GuardHeld, LocalHandles, MemberInUse, NoSendAfterSignOut
  <2>2. ConfigInv'
    BY <1>0, <1>3, ConfigUnchanged DEF SetWebRTCSignalingInterface
  <2> QED
    BY <1>3, <2>1, <2>2 DEF SetWebRTCSignalingInterface, SignalingInv, InterfaceType
<1>4. CASE Config
  <2>1. UNCHANGED <<socketVars, mpWebRTCSignalingInterface>>
    BY <1>4 DEF Config
  <2>2. ConfigInv'
    BY <1>0, <1>4, ConfigureKeeps, TaskKeeps, ShutdownKeeps DEF Config,
       SetServerConfiguration, ProcessTurnConfig, SignIntoSignalingService
  <2> QED
    BY <1>0, <2>1, <2>2, SocketUnchanged DEF SignalingInv, InterfaceType
<1>5. CASE UNCHANGED vars
  BY <1>0, <1>5, SocketUnchanged, ConfigUnchanged DEF vars, SignalingInv, InterfaceType
<1> QED
  BY <1>1, <1>2, <1>3, <1>4, <1>5 DEF Next

\* The inductive invariant of the web socket and of the order of the configuration
\* tasks.
THEOREM SignalingInvariant == Spec => []SignalingInv
<1>1. SignalingInv /\ [Next]_vars => SignalingInv'
  BY SignalingStep
<1> QED
  BY <1>1, SignalingInitially, PTL DEF Spec

\* Every variable stays in its type: references on handles are never negative, and
\* a call counted as skipped was made.
THEOREM SignalingTypeCorrect == Spec => []TypeOK
<1>1. SignalingInv => TypeOK
  BY DEF SignalingInv, SocketInv, SocketTypes, ConfigInv, InterfaceType, TypeOK
<1> QED
  BY <1>1, SignalingInvariant, PTL

\* No message is sent on a connection that was taken out of use, by any number of
\* threads that send, sign in and sign out.
THEOREM SendStops == Spec => []NoSendAfterSignOut
<1>1. SignalingInv => NoSendAfterSignOut
  BY DEF SignalingInv, SocketInv
<1> QED
  BY <1>1, SignalingInvariant, PTL

\* No session copies the configuration before the tasks of the calls made before it was
\* opened have run, for any number of calls and sessions.
THEOREM ConfigurationOrder == Spec => []ConfigurationInOrder
<1>1. SignalingInv => ConfigurationInOrder
  BY DEF SignalingInv, ConfigInv
<1> QED
  BY <1>1, SignalingInvariant, PTL

-----------------------------------------------------------------------------
(* The first connection.                                                   *)

\* No more than one handle has been given out.
OneHandle == \A g, h \in allocated : g = h

\* A thread past Disconnect's swap has signed a handle out, and one that closes the
\* member has found another there.
SwapDone ==
    \A t \in Threads :
        /\ call[t].pc = "disconnect" => signedOut # {}
        /\ call[t].pc = "deallocate" => signedOut # {}
        /\ call[t].pc = "close" => ~OneHandle

\* The only handle has the reference it was created with, and one more while a
\* message is being sent on it.
Referenced ==
    OneHandle =>
        /\ ~crash
        /\ \A h \in allocated : refs[h] >= 1
        /\ \A t \in Threads : call[t].pc \in {"message", "closeDup"} => refs[call[t].h] >= 2

FirstInv == SwapDone /\ Referenced

\* With one handle, nothing that was given out has been freed.
LEMMA NothingFreed ==
    ASSUME SocketInv, Referenced, OneHandle
    PROVE  \A h : ~Freed(h)
BY DEF Referenced, Freed, SocketInv, SocketTypes

\* Connecting: either nothing is given out, or the first handle is, with one reference.
LEMMA ConnectFirst ==
    ASSUME SocketInv, FirstInv, NEW t \in Threads, ConnectAllocate(t)
    PROVE  FirstInv'
<1> USE SocketConstants
<1>1. CASE UNCHANGED <<allocated, refs, call>>
  BY <1>1 DEF ConnectAllocate, FirstInv, SwapDone, Referenced, OneHandle
<1>2. CASE /\ \E h \in Handles \ allocated :
                /\ allocated' = allocated \cup {h}
                /\ refs' = [refs EXCEPT ![h] = 1]
           /\ Goto(t, "headers", Null)
  <2> PICK h \in Handles \ allocated : /\ allocated' = allocated \cup {h}
                                        /\ refs' = [refs EXCEPT ![h] = 1]
    BY <1>2
  <2>1. /\ call'[t].pc = "headers" /\ \A u \in Threads \ {t} : call'[u] = call[u]
        /\ UNCHANGED <<signedOut, crash>>
    BY <1>2 DEF SocketInv, SocketTypes, Goto, ConnectAllocate
  <2>2. OneHandle' => allocated = {}
    BY DEF OneHandle
  <2>3. SwapDone'
    BY <2>1 DEF FirstInv, SwapDone, OneHandle
  <2>4. ASSUME OneHandle' PROVE /\ ~crash' /\ \A g \in allocated' : refs'[g] >= 1
    <3>1. allocated' = {h} /\ OneHandle
      BY <2>2, <2>4 DEF OneHandle
    <3>2. ~crash
      BY <3>1 DEF FirstInv, Referenced
    <3> QED
      BY <2>1, <3>1, <3>2 DEF SocketInv, SocketTypes
  <2>5. ASSUME OneHandle', NEW u \in Threads, call'[u].pc \in {"message", "closeDup"}
        PROVE  FALSE
    <3>1. u # t /\ call'[u] = call[u]
      BY <2>1, <2>5
    <3>2. call[u].h \in allocated
      BY <2>5, <3>1 DEF SocketInv, LocalHandles
    <3> QED
      BY <2>2, <2>5, <3>2
  <2> QED
    BY <2>3, <2>4, <2>5 DEF FirstInv, Referenced
<1> QED
  BY <1>1, <1>2 DEF ConnectAllocate

\* Where a thread may go with the references as they are.
LEMMA MoveFirst ==
    ASSUME SocketInv, FirstInv, NEW t \in Threads, NEW pc \in Steps, NEW h, Goto(t, pc, h),
           UNCHANGED <<allocated, refs, crash>>, signedOut \subseteq signedOut',
           pc \in {"disconnect", "deallocate"} => signedOut' # {},
           pc = "close" => ~OneHandle,
           pc \in {"message", "closeDup"} /\ OneHandle => refs[h] >= 2
    PROVE  FirstInv'
<1>1. /\ call'[t].pc = pc /\ call'[t].h = h
      /\ \A u \in Threads \ {t} : call'[u] = call[u]
  BY DEF SocketInv, SocketTypes, Goto
<1>2. OneHandle' <=> OneHandle
  BY DEF OneHandle
<1>3. SwapDone'
  BY <1>1, <1>2 DEF FirstInv, SwapDone
<1>4. Referenced'
  BY <1>1, <1>2 DEF FirstInv, Referenced
<1> QED
  BY <1>3, <1>4 DEF FirstInv

\* Every later step of a call.
LEMMA StepFirst ==
    ASSUME SocketInv, FirstInv, NEW t \in Threads, SocketStep(t)
    PROVE  FirstInv'
<1> USE SocketConstants
<1>0. UNCHANGED allocated
  BY StepKeeps
<1>1. /\ call[t].pc \in {"duplicate", "message", "closeDup", "swap"} => mOperationGuard = t
      /\ call[t].h \in allocated \cup {Null}
      /\ call[t].pc \in {"message", "closeDup", "close"} => call[t].h # Null
      /\ mWebSocketHandle \in allocated \cup {Null} /\ mWebSocketHandle \notin signedOut
      /\ allocated \subseteq Handles /\ refs \in [Handles -> Nat] /\ signedOut \subseteq allocated
      /\ call[t].pc \in {"disconnect", "deallocate"} => signedOut # {}
      /\ call[t].pc = "close" => ~OneHandle
      /\ call[t].pc \in {"message", "closeDup"} /\ OneHandle => refs[call[t].h] >= 2
  BY DEF SocketInv, GuardHeld, LocalHandles, MemberInUse, SocketTypes, FirstInv, SwapDone,
         Referenced
<1>2. Steps = {"idle", "headers", "duplicate", "message", "closeDup",
               "swap", "disconnect", "deallocate", "close"}
  BY DEF Steps
\* A thread that finds its handle freed is not the first connection's.
<1>3. ASSUME ~OneHandle, call'[t].pc \in {"idle", "message", "closeDup"} \/ UNCHANGED call,
             \A u \in Threads \ {t} : call'[u] = call[u], UNCHANGED signedOut
      PROVE  FirstInv'
  BY <1>0, <1>3 DEF FirstInv, SwapDone, Referenced, OneHandle
<1>4. ASSUME NEW h, Freed(h), UNCHANGED <<call, signedOut>> PROVE FirstInv'
  BY <1>3, <1>4, NothingFreed DEF FirstInv
<1>5. ASSUME NEW pc, NEW h, Goto(t, pc, h)
      PROVE  call'[t].pc = pc /\ call'[t].h = h /\ \A u \in Threads \ {t} : call'[u] = call[u]
  BY <1>5 DEF SocketInv, SocketTypes, Goto
<1>6. CASE ConnectHeaders(t)
  <2>1. CASE Freed(mWebSocketHandle) /\ UNCHANGED call
    BY <1>4, <1>6, <2>1 DEF ConnectHeaders
  <2>2. CASE Goto(t, "idle", Null) /\ UNCHANGED <<refs, crash>>
    BY <1>0, <1>2, <1>6, <2>2, MoveFirst DEF ConnectHeaders
  <2> QED
    BY <1>6, <2>1, <2>2 DEF ConnectHeaders, Use, Return
<1>7. CASE SendDuplicate(t)
  <2>1. CASE mWebSocketHandle = Null
    BY <1>0, <1>2, <1>7, <2>1, MoveFirst DEF SendDuplicate, Return
  <2>2. CASE mWebSocketHandle # Null /\ Freed(mWebSocketHandle)
    BY <1>4, <1>7, <2>2 DEF SendDuplicate, Use
  <2>3. CASE mWebSocketHandle # Null /\ ~Freed(mWebSocketHandle)
    <3> DEFINE m == mWebSocketHandle
    <3>1. /\ Goto(t, "message", m)
          /\ refs' = [refs EXCEPT ![m] = @ + 1]
          /\ UNCHANGED <<crash, signedOut>> /\ m \in allocated
      BY <1>1, <1>7, <2>3 DEF SendDuplicate, Use
    <3>2. /\ call'[t].pc = "message" /\ call'[t].h = m
          /\ \A u \in Threads \ {t} : call'[u] = call[u]
      BY <1>5, <3>1
    <3>3. /\ refs'[m] = refs[m] + 1
          /\ \A h \in Handles : refs[h] \in Nat /\ refs'[h] \in Nat /\ refs'[h] >= refs[h]
      BY <1>1, <3>1
    <3>4. OneHandle => refs[m] >= 1 /\ ~crash
      BY <3>1 DEF FirstInv, Referenced
    <3>5. SwapDone'
      BY <1>0, <3>1, <3>2 DEF FirstInv, SwapDone, OneHandle
    <3>6. ASSUME OneHandle', NEW u \in Threads \ {t}, call'[u].pc \in {"message", "closeDup"}
          PROVE  refs'[call'[u].h] >= 2
      <4>1. OneHandle /\ call[u].h \in Handles /\ refs[call[u].h] >= 2
        BY <1>0, <3>2, <3>6 DEF OneHandle, FirstInv, Referenced, SocketInv, SocketTypes, LocalHandles
      <4> QED
        BY <3>2, <3>3, <4>1
    <3>7. ASSUME OneHandle' PROVE /\ ~crash' /\ \A h \in allocated' : refs'[h] >= 1
                                  /\ refs'[m] >= 2
      <4>1. OneHandle
        BY <1>0, <3>7 DEF OneHandle
      <4>2. m \in Handles /\ refs[m] \in Nat
        BY <1>1, <3>1
      <4>3. allocated' = {m}
        BY <1>0, <3>1, <4>1 DEF OneHandle
      <4> QED
        BY <3>1, <3>3, <3>4, <4>1, <4>2, <4>3
    <3>8. Referenced'
      BY <3>2, <3>6, <3>7 DEF Referenced
    <3> QED
      BY <3>5, <3>8 DEF FirstInv
  <2> QED
    BY <2>1, <2>2, <2>3
<1>8. CASE SendMessage(t)
  <2>1. CASE Freed(call[t].h)
    BY <1>4, <1>8, <2>1 DEF SendMessage, Use
  <2>2. CASE ~Freed(call[t].h)
    <3>1. /\ call[t].pc = "message" /\ UNCHANGED <<signedOut, crash, refs>>
          /\ Goto(t, "closeDup", call[t].h) \/ Goto(t, "idle", Null)
      BY <1>8, <2>2 DEF SendMessage, Use, At, Return
    <3>2. CASE Goto(t, "closeDup", call[t].h)
      BY <1>0, <1>1, <1>2, <3>1, <3>2, MoveFirst
    <3>3. CASE Goto(t, "idle", Null)
      BY <1>0, <1>2, <3>1, <3>3, MoveFirst
    <3> QED
      BY <3>1, <3>2, <3>3
  <2> QED
    BY <2>1, <2>2
\* The guard is the sender's: no other thread counts on the reference it closes.
<1>9. CASE SendClose(t)
  <2>1. CASE Freed(call[t].h)
    BY <1>4, <1>9, <2>1 DEF SendClose, Use
  <2>2. CASE ~Freed(call[t].h)
    <3> DEFINE h == call[t].h
    <3>1. /\ call[t].pc = "closeDup" /\ UNCHANGED <<signedOut, crash>>
          /\ refs' = [refs EXCEPT ![h] = @ - 1] /\ Goto(t, "idle", Null) /\ h \in allocated
      BY <1>1, <1>9, <2>2 DEF SendClose, Use, At, Return, CloseHandle
    <3>2. call'[t].pc = "idle" /\ \A u \in Threads \ {t} : call'[u] = call[u]
      BY <1>5, <3>1
    <3>3. \A u \in Threads : call'[u].pc \notin {"message", "closeDup"}
      BY <1>1, <3>1, <3>2 DEF SocketInv, GuardHeld
    <3>4. SwapDone'
      BY <1>0, <3>1, <3>2 DEF FirstInv, SwapDone, OneHandle
    <3>5. ASSUME OneHandle' PROVE ~crash' /\ \A g \in allocated' : refs'[g] >= 1
      <4>1. OneHandle /\ allocated' = {h}
        BY <1>0, <3>1, <3>5 DEF OneHandle
      <4>2. h \in Handles /\ refs[h] \in Nat /\ refs[h] >= 2 /\ ~crash
        BY <1>1, <3>1, <4>1 DEF FirstInv, Referenced
      <4>3. refs'[h] = refs[h] - 1
        BY <1>1, <3>1, <4>2
      <4> QED
        BY <3>1, <4>1, <4>2, <4>3
    <3> QED
      BY <3>3, <3>4, <3>5 DEF FirstInv, Referenced
  <2> QED
    BY <2>1, <2>2
<1>10. CASE DisconnectSwap(t)
  <2>1. CASE call[t].h = Null
    BY <1>0, <1>2, <1>10, <2>1, MoveFirst DEF DisconnectSwap, Return
  <2>2. CASE call[t].h # Null
    BY <1>0, <1>2, <1>10, <2>2, MoveFirst DEF DisconnectSwap
  <2> QED
    BY <2>1, <2>2
<1>11. CASE DisconnectSocket(t)
  <2>1. CASE Freed(mWebSocketHandle)
    BY <1>4, <1>11, <2>1 DEF DisconnectSocket, Use
  <2>2. CASE ~Freed(mWebSocketHandle)
    BY <1>0, <1>1, <1>2, <1>11, <2>2, MoveFirst DEF DisconnectSocket, Use, At
  <2> QED
    BY <2>1, <2>2
\* The member is in use and another handle was signed out: there are two.
<1>12. CASE DeallocateSocketAsync(t)
  <2>1. CASE Freed(mWebSocketHandle)
    BY <1>4, <1>12, <2>1 DEF DeallocateSocketAsync, Use
  <2>2. CASE ~Freed(mWebSocketHandle)
    <3>1. /\ call[t].pc = "deallocate" /\ UNCHANGED <<signedOut, crash, refs>>
          /\ \/ mWebSocketHandle # Null /\ Goto(t, "close", mWebSocketHandle)
             \/ Goto(t, "idle", Null)
      BY <1>12, <2>2 DEF DeallocateSocketAsync, Use, At, Return
    <3>2. CASE mWebSocketHandle # Null /\ Goto(t, "close", mWebSocketHandle)
      <4>1. ~OneHandle
        BY <1>1, <3>1, <3>2 DEF OneHandle
      <4> QED
        BY <1>0, <1>2, <3>1, <3>2, <4>1, MoveFirst
    <3>3. CASE Goto(t, "idle", Null)
      BY <1>0, <1>2, <3>1, <3>3, MoveFirst
    <3> QED
      BY <3>1, <3>2, <3>3
  <2> QED
    BY <2>1, <2>2
<1>13. CASE DeallocateClose(t)
  <2>1. ~OneHandle /\ UNCHANGED signedOut
    BY <1>1, <1>13 DEF DeallocateClose, At
  <2>2. UNCHANGED call \/ Goto(t, "idle", Null)
    BY <1>13 DEF DeallocateClose, Use, Return
  <2> QED
    BY <1>3, <1>5, <2>1, <2>2
<1> QED
  BY <1>6, <1>7, <1>8, <1>9, <1>10, <1>11, <1>12, <1>13 DEF SocketStep

\* Taking the guard.
LEMMA LockFirst ==
    ASSUME SocketInv, FirstInv, NEW t \in Threads, SendLock(t) \/ DisconnectLock(t)
    PROVE  FirstInv'
<1>1. "duplicate" \in Steps /\ "swap" \in Steps
  BY DEF Steps
<1>2. CASE SendLock(t)
  BY <1>1, <1>2, MoveFirst DEF SendLock
<1>3. CASE DisconnectLock(t)
  BY <1>1, <1>3, MoveFirst DEF DisconnectLock
<1> QED
  BY <1>2, <1>3

\* While there has been one connection, no freed handle is used: not by senders, and
\* not by a Disconnect, for any number of threads.
THEOREM FirstConnection == Spec => []FirstConnectionSafe
<1>1. Init => FirstInv
  BY DEF Init, SocketInit, FirstInv, SwapDone, Referenced
<1>2. ASSUME SignalingInv, FirstInv, [Next]_vars PROVE FirstInv'
  <2>0. SocketInv
    BY <1>2 DEF SignalingInv
  <2>1. CASE UNCHANGED <<allocated, refs, call, signedOut, crash>>
    BY <1>2, <2>1 DEF FirstInv, SwapDone, Referenced, OneHandle
  <2>2. ASSUME NEW t \in Threads, ConnectThroughInterface(t) PROVE FirstInv'
    BY <1>2, <2>0, <2>2, ConnectFirst DEF ConnectThroughInterface
  <2>3. ASSUME NEW t \in Threads, SignOutFromSignalingService(t) \/ SendThroughInterface(t)
        PROVE  FirstInv'
    BY <1>2, <2>0, <2>3, LockFirst DEF SignOutFromSignalingService, SendThroughInterface
  <2>4. ASSUME NEW t \in Threads, ContinueCall(t) PROVE FirstInv'
    BY <1>2, <2>0, <2>4, StepFirst DEF ContinueCall
  <2>5. CASE \/ \E s \in Sessions : OpenSessionWithUser(s)
             \/ SetWebRTCSignalingInterface \/ Config \/ UNCHANGED vars
    BY <2>1, <2>5 DEF OpenSessionWithUser, SetWebRTCSignalingInterface, Config, vars, socketVars
  <2> QED
    BY <1>2, <2>2, <2>3, <2>4, <2>5 DEF Next
<1>3. FirstInv => FirstConnectionSafe
  BY DEF FirstInv, Referenced, OneHandle, FirstConnectionSafe
<1> QED
  BY <1>1, <1>2, <1>3, SignalingInvariant, PTL DEF Spec

-----------------------------------------------------------------------------
\* The tasks write the configuration in the order of their calls: the queue holds the
\* calls in the order they were made, all of them later than the last one written for.
THEOREM OnlyNewer == Spec => ConfigurationOnlyNewer
<1>1. ASSUME SignalingInv, [Next]_vars PROVE writtenBy' >= writtenBy
  <2>0. writtenBy \in Nat
    BY <1>1, ConfigConstants DEF SignalingInv, ConfigInv, ConfigTypes
  <2>1. CASE UNCHANGED writtenBy
    BY <2>0, <2>1
  <2>2. CASE RunConfigTask
    <3>1. CASE ServersTask("set") \/ ServersTask("signIn") \/ TurnTask
      <4>1. CASE writtenBy' = Head(configTasks).of
        <5>1. configTasks # <<>> /\ Head(configTasks).kind # "open"
          BY <3>1 DEF ServersTask, TurnTask, NextConfigTask
        <5>2. Head(configTasks) = configTasks[1] /\ 1 \in Positions
          BY <1>1, <5>1 DEF SignalingInv, ConfigInv, ConfigTypes, Positions
        <5>3. IsCall(1)
          BY <5>1, <5>2 DEF IsCall
        <5> QED
          BY <1>1, <2>0, <4>1, <5>2, <5>3 DEF SignalingInv, ConfigInv, CallsInOrder, TasksNamed
      <4> QED
        BY <2>1, <3>1, <4>1 DEF ServersTask, TurnTask
    <3>2. CASE OpenTask
      BY <2>1, <3>2 DEF OpenTask
    <3> QED
      BY <2>2, <3>1, <3>2 DEF RunConfigTask
  <2>3. CASE \/ \E t \in Threads :
                  \/ SignOutFromSignalingService(t) \/ ConnectThroughInterface(t)
                  \/ SendThroughInterface(t) \/ ContinueCall(t)
             \/ \E s \in Sessions : OpenSessionWithUser(s)
             \/ SetWebRTCSignalingInterface \/ UNCHANGED vars
    BY <2>1, <2>3 DEF SignOutFromSignalingService, ConnectThroughInterface,
       SendThroughInterface, ContinueCall, OpenSessionWithUser, OpenSession,
       SetWebRTCSignalingInterface, vars, configVars
  <2>4. CASE Config
    BY <2>1, <2>2, <2>4 DEF Config, SetServerConfiguration, ProcessTurnConfig,
       SignIntoSignalingService, Configure, ShutdownStop, ShutdownClear
  <2> QED
    BY <1>1, <2>3, <2>4 DEF Next
<1> QED
  BY <1>1, SignalingInvariant, PTL DEF Spec, ConfigurationOnlyNewer
=============================================================================
