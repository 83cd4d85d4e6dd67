----------------------------- MODULE Signaling -----------------------------
(***************************************************************************)
(* The signaling service as SimpleNetworkInterfaceImpl uses it: the web    *)
(* socket behind mpWebRTCSignalingInterface, and the configuration that    *)
(* signing in brings with it.  WebSocketSignalingInterfaceImpl hands       *)
(* SignOut to the socket; its SignIn has no body, and nothing under src/   *)
(* calls the socket's Connect and Send yet: whoever will is external.      *)
(***************************************************************************)
EXTENDS WebSocket, RtcConfig

VARIABLE mpWebRTCSignalingInterface   \* "null" or "webSocket"

vars == <<socketVars, configVars, mpWebRTCSignalingInterface>>

Init ==
    /\ SocketInit /\ ConfigInit
    /\ mpWebRTCSignalingInterface = "null"

-----------------------------------------------------------------------------
\* Without an interface SignOutFromSignalingService does nothing.
SignOutFromSignalingService(t) ==
    /\ mpWebRTCSignalingInterface # "null"
    /\ DisconnectLock(t)
    /\ UNCHANGED <<configVars, mpWebRTCSignalingInterface>>

\* Whoever connects the socket of the interface, or sends a message through it
\* (external).
ConnectThroughInterface(t) ==
    /\ mpWebRTCSignalingInterface # "null"
    /\ ConnectAllocate(t)
    /\ UNCHANGED <<configVars, mpWebRTCSignalingInterface>>

SendThroughInterface(t) ==
    /\ mpWebRTCSignalingInterface # "null"
    /\ SendLock(t)
    /\ UNCHANGED <<configVars, mpWebRTCSignalingInterface>>

\* MakeDefaultSignalingChannel and SetWebRTCSignalingInterface: a new web socket, or
\* none, in place of the old one.  Bound: only while no thread is in a call, for the
\* pointer is exchanged without a lock.
SetWebRTCSignalingInterface ==
    /\ \A t \in Threads : At(t, "idle")
    /\ mpWebRTCSignalingInterface' \in {"null", "webSocket"}
    /\ mWebSocketHandle' = Null
    /\ UNCHANGED <<mOperationGuard, allocated, refs, call, signedOut, crash, configVars>>

SetServerConfiguration == Configure("set")
ProcessTurnConfig == Configure("turn")

\* The servers are posted; then the interface is asked to sign in, if there is one,
\* and does nothing.
SignIntoSignalingService == Configure("signIn")

OpenSessionWithUser(s) ==
    /\ OpenSession(s)
    /\ UNCHANGED <<socketVars, mpWebRTCSignalingInterface>>

-----------------------------------------------------------------------------
ContinueCall(t) ==
    /\ SocketStep(t)
    /\ UNCHANGED <<configVars, mpWebRTCSignalingInterface>>

Config ==
    /\ ~crash
    /\ SetServerConfiguration \/ ProcessTurnConfig \/ SignIntoSignalingService
         \/ RunConfigTask \/ ShutdownStop \/ ShutdownClear
    /\ UNCHANGED <<socketVars, mpWebRTCSignalingInterface>>

Next ==
    \/ \E t \in Threads :
         \/ SignOutFromSignalingService(t) \/ ConnectThroughInterface(t)
         \/ SendThroughInterface(t) \/ ContinueCall(t)
    \/ \E s \in Sessions : ~crash /\ OpenSessionWithUser(s)
    \/ SetWebRTCSignalingInterface \/ Config

\* A thread finishes the call it is in, and the signal thread runs its tasks.
Spec ==
    /\ Init /\ [][Next]_vars
    /\ \A t \in Threads : WF_vars(ContinueCall(t))
    /\ WF_vars(Config /\ RunConfigTask)

-----------------------------------------------------------------------------
(* Properties.                                                             *)

\* Every variable stays in its type.
TypeOK ==
    /\ SocketTypes /\ ConfigTypes
    /\ mpWebRTCSignalingInterface \in {"null", "webSocket"}

\* The tasks write the configuration in the order of their calls, whichever threads
\* make the calls and however the tasks interleave with each other and with Shutdown:
\* the task of an older call never writes over that of a newer one.
ConfigurationOnlyNewer == [][writtenBy' >= writtenBy]_vars

\* The task of every call writes the configuration, or that of a later call does,
\* unless there was no thread to post it to or its text is not understood.
ConfigurationApplied ==
    \A n \in 1..MaxCalls : calls >= n ~> (writtenBy >= n \/ n \in skipped \/ crash)
=============================================================================
