----------------------------- MODULE WebSocket -----------------------------
(***************************************************************************)
(* NetherNet::WebSocket: the connection to the signaling service.          *)
(*                                                                         *)
(* Any thread may call Connect, Disconnect and Send.  Send and the first   *)
(* part of Disconnect hold mOperationGuard; Connect takes no lock.  The    *)
(* handles belong to libHttpClient (external): refs counts the references  *)
(* it holds on each, and a handle that was given out and has none left has *)
(* been freed.  A step is what a thread does between two accesses to the   *)
(* member mWebSocketHandle or the guard.                                   *)
(***************************************************************************)
EXTENDS Naturals, FiniteSets

CONSTANTS
    Threads,   \* the threads that use the socket
    Handles,   \* bound: the handles AllocateSocket can give out
    MaxRefs,   \* bound: references that refused messages leave on a handle
    Null

ASSUME SocketConstants == Null \notin Threads \cup Handles /\ MaxRefs \in Nat

VARIABLES
    mWebSocketHandle,
    mOperationGuard,   \* the thread that holds the mutex, or Null
    allocated,         \* handles given out
    refs,              \* libHttpClient's references on each handle
    call,              \* what each thread is doing, and its local handle
    signedOut,         \* handles that a Disconnect has taken out of use
    crash              \* a freed handle was used

socketVars == <<mWebSocketHandle, mOperationGuard, allocated, refs, call, signedOut, crash>>

Steps == {"idle", "headers", "duplicate", "message", "closeDup",
          "swap", "disconnect", "deallocate", "close"}

SocketInit ==
    /\ mWebSocketHandle = Null /\ mOperationGuard = Null
    /\ allocated = {} /\ refs = [h \in Handles |-> 0]
    /\ call = [t \in Threads |-> [pc |-> "idle", h |-> Null]]
    /\ signedOut = {} /\ crash = FALSE

Freed(h) == h \in allocated /\ refs[h] = 0

At(t, pc) == ~crash /\ call[t].pc = pc
Goto(t, pc, h) == call' = [call EXCEPT ![t] = [pc |-> pc, h |-> h]]
Return(t) == Goto(t, "idle", Null)

\* What a thread does with the handle h, if h has not been freed.
Use(h, action) ==
    IF Freed(h) THEN crash' = TRUE /\ UNCHANGED <<refs, call, mOperationGuard>>
                ELSE UNCHANGED crash /\ action

CloseHandle(h) == refs' = [refs EXCEPT ![h] = @ - 1]

-----------------------------------------------------------------------------
(* Connect.                                                                *)

\* AllocateSocket has no body yet: a new handle (which one does not matter), or none.
\* The handle that was there before is overwritten.
ConnectAllocate(t) ==
    /\ At(t, "idle")
    /\ \/ mWebSocketHandle' = Null /\ UNCHANGED <<allocated, refs, call>>
       \/ /\ Handles \ allocated # {}
          /\ LET h == CHOOSE h \in Handles \ allocated : TRUE
             IN  /\ mWebSocketHandle' = h
                 /\ allocated' = allocated \cup {h}
                 /\ refs' = [refs EXCEPT ![h] = 1]
          /\ Goto(t, "headers", Null)
    /\ UNCHANGED <<mOperationGuard, signedOut, crash>>

\* Each header is set on the member as it is then; null is refused, and the loop
\* ends.  Without headers the member is not read.
ConnectHeaders(t) ==
    /\ At(t, "headers")
    /\ \/ Use(mWebSocketHandle, Return(t) /\ UNCHANGED <<refs, mOperationGuard>>)
       \/ Return(t) /\ UNCHANGED <<refs, mOperationGuard, crash>>
    /\ UNCHANGED <<mWebSocketHandle, allocated, signedOut>>

-----------------------------------------------------------------------------
(* Send.                                                                   *)

\* Mutant: the guard is not taken.
SendLockFree(t) ==
    /\ At(t, "idle")
    /\ Goto(t, "duplicate", Null)
    /\ UNCHANGED <<mWebSocketHandle, mOperationGuard, allocated, refs, signedOut, crash>>

SendLock(t) ==
    /\ At(t, "idle") /\ mOperationGuard = Null
    /\ mOperationGuard' = t
    /\ Goto(t, "duplicate", Null)
    /\ UNCHANGED <<mWebSocketHandle, allocated, refs, signedOut, crash>>

\* Mutant: the handle is copied instead of duplicated.
SendDuplicateCopied(t) ==
    /\ At(t, "duplicate")
    /\ IF mWebSocketHandle = Null
       THEN Return(t) /\ mOperationGuard' = Null /\ UNCHANGED <<refs, crash>>
       ELSE Use(mWebSocketHandle,
                Goto(t, "message", mWebSocketHandle) /\ UNCHANGED <<refs, mOperationGuard>>)
    /\ UNCHANGED <<mWebSocketHandle, allocated, signedOut>>

\* Without a handle the error is reported, if there is whom to report it to.
SendDuplicate(t) ==
    /\ At(t, "duplicate")
    /\ IF mWebSocketHandle = Null
       THEN Return(t) /\ mOperationGuard' = Null /\ UNCHANGED <<refs, crash>>
       ELSE Use(mWebSocketHandle,
                /\ refs' = [refs EXCEPT ![mWebSocketHandle] = @ + 1]
                /\ Goto(t, "message", mWebSocketHandle)
                /\ UNCHANGED mOperationGuard)
    /\ UNCHANGED <<mWebSocketHandle, allocated, signedOut>>

\* Mutant: the error path returns with the guard held.
SendMessageHeld(t) ==
    /\ At(t, "message")
    /\ Use(call[t].h,
           /\ \/ Goto(t, "closeDup", call[t].h)
              \/ refs[call[t].h] <= MaxRefs /\ Return(t)
           /\ UNCHANGED <<refs, mOperationGuard>>)
    /\ UNCHANGED <<mWebSocketHandle, allocated, signedOut>>

\* A message that is refused leaves the duplicate unclosed: the error path returns
\* (or throws, without a callback), and the lock_guard releases the mutex.
SendMessage(t) ==
    /\ At(t, "message")
    /\ Use(call[t].h,
           /\ \/ Goto(t, "closeDup", call[t].h) /\ UNCHANGED mOperationGuard
              \/ /\ refs[call[t].h] <= MaxRefs
                 /\ Return(t) /\ mOperationGuard' = Null
           /\ UNCHANGED refs)
    /\ UNCHANGED <<mWebSocketHandle, allocated, signedOut>>

SendClose(t) ==
    /\ At(t, "closeDup")
    /\ Use(call[t].h, CloseHandle(call[t].h) /\ Return(t) /\ mOperationGuard' = Null)
    /\ UNCHANGED <<mWebSocketHandle, allocated, signedOut>>

-----------------------------------------------------------------------------
(* Disconnect.                                                             *)

DisconnectLock(t) ==
    /\ At(t, "idle") /\ mOperationGuard = Null
    /\ mOperationGuard' = t
    /\ Goto(t, "swap", mWebSocketHandle)
    /\ UNCHANGED <<mWebSocketHandle, allocated, refs, signedOut, crash>>

\* Mutant: a socket without a handle is disconnected all the same.
DisconnectSwapUnchecked(t) ==
    /\ At(t, "swap")
    /\ mWebSocketHandle' = Null /\ mOperationGuard' = Null
    /\ signedOut' = signedOut \cup {call[t].h}
    /\ Goto(t, "disconnect", call[t].h)
    /\ UNCHANGED <<allocated, refs, crash>>

DisconnectSwap(t) ==
    /\ At(t, "swap")
    /\ mWebSocketHandle' = Null /\ mOperationGuard' = Null
    /\ signedOut' = signedOut \cup ({call[t].h} \ {Null})
    /\ IF call[t].h = Null THEN Return(t) ELSE Goto(t, "disconnect", call[t].h)
    /\ UNCHANGED <<allocated, refs, crash>>

\* Both calls are given the member, not the local copy: null, or the handle of a
\* Connect that came in between.  Null is refused by the library.
DisconnectSocket(t) ==
    /\ At(t, "disconnect")
    /\ Use(mWebSocketHandle,
           Goto(t, "deallocate", Null) /\ UNCHANGED <<refs, mOperationGuard>>)
    /\ UNCHANGED <<mWebSocketHandle, allocated, signedOut>>

DeallocateSocketAsync(t) ==
    /\ At(t, "deallocate")
    /\ Use(mWebSocketHandle,
           /\ \/ mWebSocketHandle # Null /\ Goto(t, "close", mWebSocketHandle)
              \/ Return(t)
           /\ UNCHANGED <<refs, mOperationGuard>>)
    /\ UNCHANGED <<mWebSocketHandle, allocated, signedOut>>

DeallocateClose(t) ==
    /\ At(t, "close")
    /\ Use(call[t].h, CloseHandle(call[t].h) /\ Return(t) /\ UNCHANGED mOperationGuard)
    /\ UNCHANGED <<mWebSocketHandle, allocated, signedOut>>

-----------------------------------------------------------------------------
\* What a thread does in a call it has begun.
SocketStep(t) ==
    \/ ConnectHeaders(t) \/ SendDuplicate(t) \/ SendMessage(t) \/ SendClose(t)
    \/ DisconnectSwap(t) \/ DisconnectSocket(t)
    \/ DeallocateSocketAsync(t) \/ DeallocateClose(t)

-----------------------------------------------------------------------------
SocketTypes ==
    /\ mWebSocketHandle \in allocated \cup {Null}
    /\ mOperationGuard \in Threads \cup {Null}
    /\ allocated \subseteq Handles /\ signedOut \subseteq allocated
    /\ refs \in [Handles -> Nat]
    /\ call \in [Threads -> [pc : Steps, h : Handles \cup {Null}]]
    /\ crash \in BOOLEAN

\* A message is never sent on a connection that a Disconnect has already taken out
\* of use: Send duplicates the handle under the guard that Disconnect swaps it under.
NoSendAfterSignOut ==
    \A t \in Threads : call[t].pc \in {"message", "closeDup"} => call[t].h \notin signedOut

\* While the process has connected only once, no call uses a freed handle: senders
\* close no more than they duplicated, and a Disconnect finds the member null when
\* it reads it again, and closes nothing.  It takes a second connection, made before
\* that read, to free a handle in use.
FirstConnectionSafe ==
    (\A g, h \in allocated : g = h) => ~crash

\* Send's error paths and Disconnect give the guard back.
GuardReleased ==
    \A t \in Threads : mOperationGuard = t ~> (mOperationGuard # t \/ crash)
=============================================================================
