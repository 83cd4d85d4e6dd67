--------------------------- MODULE NetworkSession ---------------------------
(***************************************************************************)
(* One peer-to-peer session: NetherNet::NetworkSession.                    *)
(*                                                                         *)
(* The application's threads call SendPacket, AcceptSession, Close and     *)
(* GetSessionState; most of the work is posted to the signal thread, whose *)
(* FIFO queue is signalTasks.  The same thread delivers the WebRTC         *)
(* callbacks (OnDataChannel, OnIceConnectionChange, ...), so that it does  *)
(* one thing at a time; the application's threads take no lock of it.      *)
(* The pointer to the thread may be null, from the start or once           *)
(* RtcThreadManager::Shutdown has ended it: then nothing is posted.        *)
(*                                                                         *)
(* The class initialises none of its scalar members, so Init draws them    *)
(* from the whole of their types.  The lambda that SendPacket posts        *)
(* captures its buffer and its send type by reference to a frame that has  *)
(* returned when the lambda runs: what it reads is modelled as an          *)
(* arbitrary packet and an arbitrary type, so the task carries neither.    *)
(***************************************************************************)
EXTENDS Integers, Sequences, FiniteSets

CONSTANTS
    Packets,             \* contents a buffer can hold
    Labels,              \* labels of the channels the remote peer opens
    Candidates,          \* the ICE candidates gathered that pass the filter
    RemoteErrors,        \* the errors the remote side may signal
    IceStates,           \* the ICE states considered (WebRTC numbers 0..6)
    LeftoverStates,      \* what the memory of the cached channel states may hold at first
    NegotiationTimeout,  \* mNegotiationTimeout, in clock ticks
    StatsInterval,       \* the 2000 ms of CheckUpdateStats, in ticks
    Minute,              \* std::chrono::minutes(1), in ticks
    Boot,                \* the clock when the session is constructed
    MaxTime,             \* bound: last clock value
    MaxTasks,            \* bound: length of the signal thread's queue
    MaxSends             \* bound: packets handed to SendPacket

ASSUME SessionConstants ==
    /\ Packets # {}
    /\ IceStates \subseteq 0..6
    /\ LeftoverStates \subseteq {"connecting", "open", "closing", "closed"}
    /\ NegotiationTimeout \in Nat /\ StatsInterval \in Nat \ {0}
    /\ Minute \in Nat \ {0}
    /\ MaxTime \in Nat /\ MaxTasks \in Nat \ {0} /\ MaxSends \in Nat
    /\ Boot \in 0..MaxTime

NegotiationStates ==
    {"None", "WaitingForResponse", "WaitingForAccept", "ICEProcessing"}
DataStates == {"connecting", "open", "closing", "closed"}
Channels == {"null"} \cup DataStates   \* no interface, or the state of the one held
Tasks == {"initOutgoing", "send", "response", "close", "stats"}
ThreadStates == {"running", "quitting", "null"}
UpdateSteps == {"no", "reliable", "unreliable", "notify"}

\* The threads that ask for statistics: an application's, in GetSessionState, which
\* mApiLevelMutex lets in one at a time, and the signal thread.
StatsThreads == {"application", "signal"}

\* The values of ESessionError that NetworkSession itself reports, none of them,
\* those received from the remote side, and what is read from a call that returned
\* no value.
Errors == RemoteErrors \cup
          {"None", "unspecified", "FailedToCreatePeerConnection", "ICE", "InactivityTimeout",
           "FailedToSetRemoteDescription", "NegotiationTimeoutWaitingForResponse",
           "NegotiationTimeoutWaitingForAccept", "SignalingFailedToSend"}
NoCandidate == "none"

VARIABLES
    now,                          \* std::chrono::steady_clock
    initialized,                  \* Initialize{Incoming,Outgoing} has been called
    mIsOutGoingSession,
    mConnNegotiationState, mNegotiationStateTimer,
    mLastSessionActivity,
    mpPeerConnection,             \* "null", "live" or "closed"
    remoteDescription,            \* SetRemoteDescription: "none", "pending", "done"
    mIceConnectionState,
    mConnectionStat,              \* read by IsConnectionAlive, assigned nowhere
    mReliableChannelInterface, mUnreliableChannelInterface,
    mReliableChannelState, mUnreliableChannelState,   \* the cached states
    mReliablePackets, mUnreliablePackets,             \* deferred data
    mStatsRequestInProgress, mLastStatsUpdate,
    signalInFlight,               \* the candidate whose signal is not yet completed
    mThread,                      \* the signal thread: "running", "quitting" or "null"
    signalTasks,                  \* its task queue
    \* Where a thread is in a function that others can interrupt:
    updating,                     \* the next store of UpdateDataChannelStates, or "no"
    thenFlush,                    \* its caller goes on with CheckSendDeferredData
    statsCall,                    \* per thread, the next step of CheckUpdateStats
    timedOut,                     \* IsDeadSession has tested the state, not yet named it
    \* What the environment has seen of the session:
    accepted,    \* packets the send tasks took as reliable, in order
    offered,     \* packets passed as reliable data to Send, in order
    refused,     \* Send has been given reliable data on a channel that is not open
    opened,      \* OnSessionOpen has been called
    closeNotice, \* <<origin, error>> of the last call of OnSessionClose
    agreedBy,    \* what ended the wait: "accept", "response"
    answers,     \* the answer's observers that have been created
    statsRequests, \* per thread, the statistics it has asked for
    crash        \* "no", or the null pointer that was dereferenced

negotiationVars == <<initialized, mIsOutGoingSession, mConnNegotiationState,
                     mNegotiationStateTimer, remoteDescription, agreedBy, answers>>
channelVars == <<mReliableChannelInterface, mUnreliableChannelInterface,
                 mReliableChannelState, mUnreliableChannelState, opened, updating,
                 thenFlush>>
dataVars == <<mReliablePackets, mUnreliablePackets, accepted, offered, refused>>
statsVars == <<mStatsRequestInProgress, mLastStatsUpdate, statsCall, statsRequests>>
sideVars == <<mIceConnectionState, mConnectionStat, signalInFlight, mThread, timedOut>>
vars == <<now, mLastSessionActivity, mpPeerConnection, signalTasks, closeNotice,
          crash, negotiationVars, channelVars, dataVars, statsVars, sideVars>>

-----------------------------------------------------------------------------
Init ==
    /\ now = Boot
    /\ initialized = FALSE
    /\ mIsOutGoingSession \in BOOLEAN
    /\ mConnNegotiationState \in NegotiationStates
    /\ mNegotiationStateTimer = 0           \* time points start at the epoch
    /\ mLastSessionActivity = 0
    /\ mpPeerConnection = "null"
    /\ remoteDescription = "none"
    /\ mIceConnectionState \in IceStates
    /\ mConnectionStat \in IceStates
    /\ mReliableChannelInterface = "null" /\ mUnreliableChannelInterface = "null"
    /\ mReliableChannelState \in LeftoverStates
    /\ mUnreliableChannelState \in LeftoverStates
    /\ mReliablePackets = <<>> /\ mUnreliablePackets = <<>>
    /\ mStatsRequestInProgress \in BOOLEAN
    /\ mLastStatsUpdate = 0
    /\ signalInFlight = NoCandidate
    /\ mThread \in {"running", "null"}
    /\ signalTasks = <<>>
    /\ updating = "no" /\ thenFlush = FALSE
    /\ statsCall = [t \in StatsThreads |-> "idle"] /\ timedOut = FALSE
    /\ accepted = <<>> /\ offered = <<>> /\ refused = FALSE
    /\ opened = FALSE /\ closeNotice = <<"none", "None">>
    /\ agreedBy = {} /\ answers = 0
    /\ statsRequests = [t \in StatsThreads |-> 0]
    /\ crash = "no"

\* A handler of a session that is in use; nothing runs after a crash.
InUse == initialized /\ crash = "no"

UpdateSessionActivity == mLastSessionActivity' = now

\* A callback or a task: the signal thread is there and in the middle of nothing.
OnSignalThread ==
    /\ InUse /\ mThread # "null"
    /\ updating = "no" /\ statsCall["signal"] = "idle"

\* Mutant: a task is put in front of the others.
PostTaskFront(task) ==
    signalTasks' = IF mThread = "running" THEN <<task>> \o signalTasks ELSE signalTasks

\* if (rtc_thread) rtc_thread->PostTask(...): a FIFO queue that takes nothing more
\* once the thread is quitting.
PostTask(task) ==
    signalTasks' = IF mThread = "running" THEN Append(signalTasks, task) ELSE signalTasks

\* The bound on what the application posts.
Room == Len(signalTasks) < MaxTasks

NotifyOnSessionClose(origin, err) == closeNotice' = <<origin, err>>

-----------------------------------------------------------------------------
(* Liveness tests: the decisions only; FilterDeadSession acts on them.     *)

\* (mConnectionStat - 4) & 0xFFFFFFFD is zero for 4 (failed) and 6 (closed).
IsConnectionAlive == mConnectionStat \notin {4, 6}

\* duration_cast<minutes> truncates the elapsed time before it is compared.
IsInactiveSession == (now - mLastSessionActivity) \div Minute > 1

NegotiationExpired == now - mNegotiationStateTimer > NegotiationTimeout

\* Evaluated by every API call that looks the session up.  A session that is waiting
\* is tested here and its state is read again, without a lock, in NameTimeout.
IsDeadSession ==
    /\ InUse
    /\ \/ /\ ~IsConnectionAlive
          /\ NotifyOnSessionClose("IsDeadSession", "ICE")
          /\ UNCHANGED timedOut
       \/ /\ IsConnectionAlive /\ ~timedOut
          /\ mConnNegotiationState # "ICEProcessing" /\ NegotiationExpired
          /\ timedOut' = TRUE
          /\ UNCHANGED closeNotice
    /\ UNCHANGED <<now, mLastSessionActivity, mpPeerConnection, signalTasks, crash,
                   mIceConnectionState, mConnectionStat, signalInFlight, mThread,
                   negotiationVars, channelVars, dataVars, statsVars>>

NameTimeout ==
    /\ InUse /\ timedOut
    /\ timedOut' = FALSE
    /\ NotifyOnSessionClose("IsDeadSession",
          IF mConnNegotiationState = "WaitingForResponse"
          THEN "NegotiationTimeoutWaitingForResponse"
          ELSE "NegotiationTimeoutWaitingForAccept")
    /\ UNCHANGED <<now, mLastSessionActivity, mpPeerConnection, signalTasks, crash,
                   mIceConnectionState, mConnectionStat, signalInFlight, mThread,
                   negotiationVars, channelVars, dataVars, statsVars>>

\* An error that the remote side signalled is passed on.
ProcessError ==
    /\ InUse
    /\ \E err \in RemoteErrors : NotifyOnSessionClose("ProcessError", err)
    /\ UNCHANGED <<now, mLastSessionActivity, mpPeerConnection, signalTasks, crash,
                   negotiationVars, channelVars, dataVars, statsVars, sideVars>>

\* Called by the manager's periodic clean-up; the error goes through ProcessError.
CloseSessionIfInactive ==
    /\ InUse /\ Room /\ ~IsConnectionAlive /\ IsInactiveSession
    /\ NotifyOnSessionClose("CloseSessionIfInactive", "InactivityTimeout")
    /\ IF mpPeerConnection # "null" THEN PostTask("close") ELSE UNCHANGED signalTasks
    /\ UNCHANGED <<now, mLastSessionActivity, mpPeerConnection, crash,
                   negotiationVars, channelVars, dataVars, statsVars, sideVars>>

-----------------------------------------------------------------------------
(* Setting a session up.                                                   *)

InitializeOutgoing ==
    /\ ~initialized /\ crash = "no"
    /\ initialized' = TRUE
    /\ UpdateSessionActivity
    /\ mIsOutGoingSession' = TRUE
    /\ mConnNegotiationState' = "WaitingForResponse"
    /\ mNegotiationStateTimer' = now
    /\ PostTask("initOutgoing")
    /\ UNCHANGED <<now, mpPeerConnection, remoteDescription, agreedBy, answers, closeNotice,
                   crash, channelVars, dataVars, statsVars, sideVars>>

\* The peer connection is stored and then moved into a local variable, so the
\* member is null again when the handler returns.
InitializeIncoming ==
    /\ ~initialized /\ crash = "no"
    /\ initialized' = TRUE
    /\ UpdateSessionActivity
    /\ mIsOutGoingSession' = FALSE
    /\ \/ /\ NotifyOnSessionClose("InitializeIncoming", "FailedToCreatePeerConnection")
          /\ UNCHANGED <<mConnNegotiationState, mNegotiationStateTimer, remoteDescription>>
       \/ /\ mConnNegotiationState' = "WaitingForAccept"
          /\ mNegotiationStateTimer' = now
          /\ remoteDescription' = "pending"
          /\ UNCHANGED closeNotice
    /\ UNCHANGED <<now, mpPeerConnection, signalTasks, agreedBy, answers, crash,
                   channelVars, dataVars, statsVars, sideVars>>

\* The first part of AcceptSession's tail call; the task is ResponseTask.
TrySendSessionResponse == UpdateSessionActivity /\ PostTask("response")

\* Mutant: the session starts to wait for the accept only when the remote
\* description is set, possibly after the accept.
OnSetRemoteDescriptionLateState ==
    /\ OnSignalThread /\ remoteDescription = "pending"
    /\ remoteDescription' = "done"
    /\ mConnNegotiationState' = "WaitingForAccept"
    /\ TrySendSessionResponse
    /\ UNCHANGED <<now, mpPeerConnection, crash, closeNotice, initialized,
                   mIsOutGoingSession, mNegotiationStateTimer, agreedBy, answers,
                   channelVars, dataVars, statsVars, sideVars>>

\* The observer InitializeIncoming gave to SetRemoteDescription.  The deferred
\* candidates that ProcessIceCandidates walks are never filled: nothing to do.
\* With mIsDeleting, which nobody assigns, it does nothing at all.
OnSetRemoteDescriptionComplete ==
    /\ OnSignalThread /\ remoteDescription = "pending"
    /\ remoteDescription' = "done"
    /\ \/ TrySendSessionResponse /\ UNCHANGED closeNotice
       \/ UNCHANGED <<mLastSessionActivity, signalTasks, closeNotice>>
       \/ /\ NotifyOnSessionClose("SetRemoteDescription", "FailedToSetRemoteDescription")
          /\ UNCHANGED <<mLastSessionActivity, signalTasks>>
    /\ UNCHANGED <<now, mpPeerConnection, crash, initialized, mIsOutGoingSession,
                   mConnNegotiationState, mNegotiationStateTimer, agreedBy, answers,
                   channelVars, dataVars, statsVars, sideVars>>

\* Mutant: every accept sends the response, whatever the session waits for.
AcceptSessionRepeated ==
    /\ InUse
    /\ mConnNegotiationState' = "ICEProcessing"
    /\ agreedBy' = agreedBy \cup {"accept"}
    /\ TrySendSessionResponse
    /\ UNCHANGED <<now, mpPeerConnection, closeNotice, crash, initialized,
                   mIsOutGoingSession, mNegotiationStateTimer, remoteDescription,
                   answers, channelVars, dataVars, statsVars, sideVars>>

AcceptSession ==
    /\ InUse
    /\ IF mConnNegotiationState = "WaitingForAccept"
       THEN /\ mConnNegotiationState' = "ICEProcessing"
            /\ agreedBy' = agreedBy \cup {"accept"}
            /\ TrySendSessionResponse
       ELSE /\ UpdateSessionActivity
            /\ UNCHANGED <<mConnNegotiationState, agreedBy, signalTasks>>
    /\ UNCHANGED <<now, mpPeerConnection, closeNotice, crash, initialized,
                   mIsOutGoingSession, mNegotiationStateTimer, remoteDescription,
                   answers, channelVars, dataVars, statsVars, sideVars>>

\* There is no test of the role: a response ends an incoming session's wait too.
ProcessConnectResponse ==
    /\ InUse
    /\ UpdateSessionActivity
    /\ mConnNegotiationState' = "ICEProcessing"
    /\ agreedBy' = agreedBy \cup {"response"}
    /\ mNegotiationStateTimer' = now
    /\ UNCHANGED <<now, mpPeerConnection, signalTasks, closeNotice, crash, initialized,
                   mIsOutGoingSession, remoteDescription, answers,
                   channelVars, dataVars, statsVars, sideVars>>

\* ProcessSignal(CandidateAdd) and OnDataChannelMessage only mark activity.
RemoteActivity ==
    /\ InUse
    /\ UpdateSessionActivity
    /\ UNCHANGED <<now, mpPeerConnection, signalTasks, closeNotice, crash,
                   negotiationVars, channelVars, dataVars, statsVars, sideVars>>

-----------------------------------------------------------------------------
(* Statistics.                                                             *)

\* Mutant: a request in progress is not looked at.
CheckUpdateStatsOverlapping(t) ==
    statsCall' = [statsCall EXCEPT ![t] =
        IF now - mLastStatsUpdate >= StatsInterval THEN "post" ELSE "idle"]

\* The test of CheckUpdateStats.  No lock is held from here to RecordStatsRequest.
CheckUpdateStats(t) ==
    statsCall' = [statsCall EXCEPT ![t] =
        IF now - mLastStatsUpdate >= StatsInterval /\ ~mStatsRequestInProgress
        THEN "post" ELSE "idle"]

PostStatsRequest(t) ==
    /\ InUse /\ statsCall[t] = "post"
    /\ statsCall' = [statsCall EXCEPT ![t] = "set"]
    /\ statsRequests' = [statsRequests EXCEPT ![t] = @ + 1]
    /\ PostTask("stats")
    /\ UNCHANGED <<now, mLastSessionActivity, mpPeerConnection, closeNotice, crash,
                   mStatsRequestInProgress, mLastStatsUpdate,
                   negotiationVars, channelVars, dataVars, sideVars>>

\* The flag is set whether or not there was a thread to post to.
RecordStatsRequest(t) ==
    /\ InUse /\ statsCall[t] = "set"
    /\ statsCall' = [statsCall EXCEPT ![t] = "idle"]
    /\ mStatsRequestInProgress' = TRUE
    /\ mLastStatsUpdate' = now
    /\ UNCHANGED <<now, mLastSessionActivity, mpPeerConnection, signalTasks, closeNotice,
                   crash, statsRequests, negotiationVars, channelVars, dataVars, sideVars>>

RequestStats(t) == PostStatsRequest(t) \/ RecordStatsRequest(t)

\* outState->ConnectionActive
ConnectionActive ==
    /\ mIceConnectionState \in {2, 3, 5}
    /\ mReliableChannelState = "open" /\ mUnreliableChannelState = "open"

GetSessionState ==
    /\ InUse /\ statsCall["application"] = "idle"
    /\ CheckUpdateStats("application")
    /\ UNCHANGED <<now, mLastSessionActivity, mpPeerConnection, signalTasks, closeNotice,
                   crash, mStatsRequestInProgress, mLastStatsUpdate, statsRequests,
                   negotiationVars, channelVars, dataVars, sideVars>>

\* new_state - 1 <= 1 on a signed enumeration: New, Checking and Connected.
OnIceConnectionChange ==
    /\ OnSignalThread /\ mpPeerConnection = "live"
    /\ \E new_state \in IceStates :
         /\ mIceConnectionState' = new_state
         /\ IF new_state - 1 <= 1 THEN CheckUpdateStats("signal") ELSE UNCHANGED statsCall
    /\ UNCHANGED <<now, mLastSessionActivity, mpPeerConnection, signalTasks, closeNotice,
                   crash, mStatsRequestInProgress, mLastStatsUpdate, statsRequests,
                   mConnectionStat, signalInFlight, mThread, timedOut,
                   negotiationVars, channelVars, dataVars>>

-----------------------------------------------------------------------------
(* Data channels and data.                                                 *)

SendPacket ==
    /\ InUse /\ Room
    /\ Len(accepted) + Len(mUnreliablePackets) + Len(signalTasks) < MaxSends
    /\ UpdateSessionActivity
    /\ PostTask("send")
    /\ UNCHANGED <<now, mpPeerConnection, closeNotice, crash,
                   negotiationVars, channelVars, dataVars, statsVars, sideVars>>

\* Mutant: the interface is read without the test for null.
CacheOfUnchecked(channel) == channel

CacheOf(channel) == IF channel = "null" THEN "closed" ELSE channel

\* UpdateDataChannelStates is called: its stores follow one by one.
BeginUpdate(flush) == updating' = "reliable" /\ thenFlush' = flush

StoreReliableState ==
    /\ InUse /\ updating = "reliable"
    /\ mReliableChannelState' = CacheOf(mReliableChannelInterface)
    /\ updating' = "unreliable"
    /\ UNCHANGED <<now, mLastSessionActivity, mpPeerConnection, signalTasks, closeNotice,
                   crash, mReliableChannelInterface, mUnreliableChannelInterface,
                   mUnreliableChannelState, opened, thenFlush,
                   negotiationVars, dataVars, statsVars, sideVars>>

StoreUnreliableState ==
    /\ InUse /\ updating = "unreliable"
    /\ mUnreliableChannelState' = CacheOf(mUnreliableChannelInterface)
    /\ updating' = "notify"
    /\ UNCHANGED <<now, mLastSessionActivity, mpPeerConnection, signalTasks, closeNotice,
                   crash, mReliableChannelInterface, mUnreliableChannelInterface,
                   mReliableChannelState, opened, thenFlush,
                   negotiationVars, dataVars, statsVars, sideVars>>

\* Mutant: the reliable packets are cleared without an interface too, as the
\* unreliable ones are.
CheckSendDeferredDataCleared ==
    /\ offered' = (IF mReliableChannelInterface = "null" THEN offered
                   ELSE offered \o mReliablePackets)
    /\ mReliablePackets' = <<>> /\ mUnreliablePackets' = <<>>
    /\ UNCHANGED <<accepted, refused, crash>>

\* The deferred unreliable packets go through the reliable interface too, and
\* are cleared whether or not there was an unreliable one.
CheckSendDeferredData ==
    /\ IF mReliableChannelInterface = "null"
       THEN UNCHANGED <<mReliablePackets, offered, refused>>
       ELSE /\ offered' = offered \o mReliablePackets
            /\ refused' = (refused \/ (mReliablePackets # <<>>
                                       /\ mReliableChannelInterface # "open"))
            /\ mReliablePackets' = <<>>
    /\ IF /\ mUnreliableChannelInterface # "null" /\ mUnreliablePackets # <<>>
          /\ mReliableChannelInterface = "null"
       THEN crash' = "CheckSendDeferredData" /\ UNCHANGED mUnreliablePackets
       ELSE mUnreliablePackets' = <<>> /\ UNCHANGED crash
    /\ UNCHANGED accepted

\* Mutant: the channels are asked again for the decision to notify.
NotifyOnSessionOpenAsked ==
    /\ InUse /\ updating = "notify"
    /\ opened' = (opened \/ (mReliableChannelInterface = "open"
                             /\ mUnreliableChannelInterface = "open"))
    /\ updating' = "no" /\ thenFlush' = FALSE
    /\ IF thenFlush THEN CheckSendDeferredData ELSE UNCHANGED <<dataVars, crash>>
    /\ UNCHANGED <<now, mLastSessionActivity, mpPeerConnection, signalTasks, closeNotice,
                   mReliableChannelInterface, mUnreliableChannelInterface,
                   mReliableChannelState, mUnreliableChannelState,
                   negotiationVars, statsVars, sideVars>>

\* The end of UpdateDataChannelStates, and what its caller does next.
NotifyOnSessionOpen ==
    /\ InUse /\ updating = "notify"
    /\ opened' = (opened \/ (mReliableChannelState = "open"
                             /\ mUnreliableChannelState = "open"))
    /\ updating' = "no" /\ thenFlush' = FALSE
    /\ IF thenFlush THEN CheckSendDeferredData ELSE UNCHANGED <<dataVars, crash>>
    /\ UNCHANGED <<now, mLastSessionActivity, mpPeerConnection, signalTasks, closeNotice,
                   mReliableChannelInterface, mUnreliableChannelInterface,
                   mReliableChannelState, mUnreliableChannelState,
                   negotiationVars, statsVars, sideVars>>

UpdateDataChannelStates ==
    StoreReliableState \/ StoreUnreliableState \/ NotifyOnSessionOpen

\* A channel the remote peer opened; only the label "ReliableDataChannel" makes
\* it the reliable one.
OnDataChannel ==
    /\ OnSignalThread /\ mpPeerConnection = "live"
    /\ \E label \in Labels, iface \in {"connecting", "open"} :
         IF label = "ReliableDataChannel"
         THEN mReliableChannelInterface' = iface /\ UNCHANGED mUnreliableChannelInterface
         ELSE mUnreliableChannelInterface' = iface /\ UNCHANGED mReliableChannelInterface
    /\ BeginUpdate(TRUE)
    /\ UNCHANGED <<now, mLastSessionActivity, mpPeerConnection, signalTasks, closeNotice,
                   crash, mReliableChannelState, mUnreliableChannelState, opened,
                   negotiationVars, dataVars, statsVars, sideVars>>

\* Mutant: the states are updated and the deferred data is left where it is.
OnDataChannelStateChangeNoFlush ==
    /\ OnSignalThread /\ mpPeerConnection # "null"
    /\ BeginUpdate(FALSE)
    /\ UNCHANGED <<now, mLastSessionActivity, mpPeerConnection, signalTasks, closeNotice,
                   crash, mReliableChannelInterface, mUnreliableChannelInterface,
                   mReliableChannelState, mUnreliableChannelState, opened,
                   negotiationVars, dataVars, statsVars, sideVars>>

\* The observer's call when a channel it watches changed.
OnDataChannelStateChange ==
    /\ OnSignalThread /\ mpPeerConnection # "null"
    /\ BeginUpdate(TRUE)
    /\ UNCHANGED <<now, mLastSessionActivity, mpPeerConnection, signalTasks, closeNotice,
                   crash, mReliableChannelInterface, mUnreliableChannelInterface,
                   mReliableChannelState, mUnreliableChannelState, opened,
                   negotiationVars, dataVars, statsVars, sideVars>>

\* WebRTC moves a channel on, through the four states in their order.
Later(state) ==
    CASE state = "connecting" -> {"open", "closing", "closed"}
      [] state = "open"       -> {"closing", "closed"}
      [] state = "closing"    -> {"closed"}
      [] OTHER                -> {}

ChannelTransition ==
    /\ crash = "no"
    /\ \/ /\ mReliableChannelInterface' \in Later(mReliableChannelInterface)
          /\ UNCHANGED mUnreliableChannelInterface
       \/ /\ mUnreliableChannelInterface' \in Later(mUnreliableChannelInterface)
          /\ UNCHANGED mReliableChannelInterface
    /\ UNCHANGED <<now, mLastSessionActivity, mpPeerConnection, signalTasks, closeNotice,
                   crash, mReliableChannelState, mUnreliableChannelState, opened, updating,
                   thenFlush, negotiationVars, dataVars, statsVars, sideVars>>

\* A candidate that passes the filter of mConnectionFlag is sent as a signal.
\* SimpleNetworkInterfaceImpl::SendToSignalingChannel returns no value, so what
\* is read as its result is unspecified.
OnIceCandidate ==
    /\ OnSignalThread /\ mpPeerConnection = "live" /\ signalInFlight = NoCandidate
    /\ signalInFlight' \in Candidates
    /\ \/ NotifyOnSessionClose("SendToSignalingChannel", "unspecified")
       \/ UNCHANGED closeNotice
    /\ UNCHANGED <<now, mLastSessionActivity, mpPeerConnection, signalTasks, crash,
                   mIceConnectionState, mConnectionStat, mThread, timedOut,
                   negotiationVars, channelVars, dataVars, statsVars>>

\* The completion callback: it reports a failure whatever its argument says.
SignalSendComplete ==
    /\ InUse /\ signalInFlight # NoCandidate
    /\ signalInFlight' = NoCandidate
    /\ NotifyOnSessionClose("SendToSignalingChannel", "SignalingFailedToSend")
    /\ UNCHANGED <<now, mLastSessionActivity, mpPeerConnection, signalTasks, crash,
                   mIceConnectionState, mConnectionStat, mThread, timedOut,
                   negotiationVars, channelVars, dataVars, statsVars>>

\* Mutant: the test for a peer connection is missing.
CloseUnchecked ==
    /\ InUse /\ Room
    /\ PostTask("close")
    /\ UNCHANGED <<now, mLastSessionActivity, mpPeerConnection, closeNotice, crash,
                   negotiationVars, channelVars, dataVars, statsVars, sideVars>>

Close ==
    /\ InUse /\ Room
    /\ mpPeerConnection # "null"
    /\ PostTask("close")
    /\ UNCHANGED <<now, mLastSessionActivity, mpPeerConnection, closeNotice, crash,
                   negotiationVars, channelVars, dataVars, statsVars, sideVars>>
-----------------------------------------------------------------------------
(* The tasks of the signal thread, in the order they were posted.          *)

NextTask(task) ==
    /\ OnSignalThread /\ signalTasks # <<>> /\ Head(signalTasks) = task
    /\ signalTasks' = Tail(signalTasks)

\* When no peer connection could be created the task goes on and uses it.  The
\* channels it creates are kept in local variables only; the task ends with the
\* stores and the test of UpdateDataChannelStates, written out.
InitOutgoingTask ==
    /\ NextTask("initOutgoing")
    /\ \/ /\ NotifyOnSessionClose("InitializeOutgoing", "FailedToCreatePeerConnection")
          /\ crash' = "InitializeOutgoing"
          /\ UNCHANGED <<mpPeerConnection, channelVars>>
       \/ /\ mpPeerConnection' = "live"
          /\ \/ NotifyOnSessionClose("InitializeOutgoing", "FailedToCreatePeerConnection")
             \/ UNCHANGED closeNotice
          /\ BeginUpdate(FALSE)
          /\ UNCHANGED <<crash, mReliableChannelInterface, mUnreliableChannelInterface,
                         mReliableChannelState, mUnreliableChannelState, opened>>
    /\ UNCHANGED <<now, mLastSessionActivity, negotiationVars, dataVars, statsVars, sideVars>>

SendReliable(packet) ==
    /\ accepted' = Append(accepted, packet)
    /\ IF mReliableChannelInterface = "null" \/ mReliableChannelState # "open"
       THEN /\ mReliablePackets' = Append(mReliablePackets, packet)
            /\ UNCHANGED <<offered, refused>>
       ELSE /\ offered' = Append(offered, packet)
            /\ refused' = (refused \/ mReliableChannelInterface # "open")
            /\ UNCHANGED mReliablePackets
    /\ UNCHANGED mUnreliablePackets

SendUnreliable(packet) ==
    /\ mUnreliablePackets' =
         IF mUnreliableChannelInterface # "null" /\ mUnreliableChannelState = "open"
         THEN mUnreliablePackets ELSE Append(mUnreliablePackets, packet)
    /\ UNCHANGED <<mReliablePackets, accepted, offered, refused>>

SendTask ==
    /\ NextTask("send")
    /\ IF mpPeerConnection = "null" THEN UNCHANGED dataVars
       ELSE \E send_buf \in Packets : SendReliable(send_buf) \/ SendUnreliable(send_buf)
    /\ UNCHANGED <<now, mLastSessionActivity, mpPeerConnection, closeNotice, crash,
                   negotiationVars, channelVars, statsVars, sideVars>>

\* Mutant: the response does not wait for the accept.
ResponseTaskEager ==
    /\ NextTask("response")
    /\ answers' = answers + 1
    /\ UNCHANGED <<now, mLastSessionActivity, mpPeerConnection, closeNotice, crash,
                   initialized, mIsOutGoingSession, mConnNegotiationState,
                   mNegotiationStateTimer, remoteDescription, agreedBy,
                   channelVars, dataVars, statsVars, sideVars>>

\* mHasSentAcceptSession holds whatever it was constructed with: nobody sets it.
ResponseTask ==
    /\ NextTask("response")
    /\ \/ mConnNegotiationState # "WaitingForAccept" /\ answers' = answers + 1
       \/ UNCHANGED answers
    /\ UNCHANGED <<now, mLastSessionActivity, mpPeerConnection, closeNotice, crash,
                   initialized, mIsOutGoingSession, mConnNegotiationState,
                   mNegotiationStateTimer, remoteDescription, agreedBy,
                   channelVars, dataVars, statsVars, sideVars>>

\* Mutant: the test for null is inverted and the connection is never closed.
CloseTaskInverted ==
    /\ NextTask("close")
    /\ IF mpPeerConnection # "null" THEN UNCHANGED mpPeerConnection
                                    ELSE mpPeerConnection' = "closed"
    /\ UNCHANGED <<now, mLastSessionActivity, closeNotice, crash,
                   negotiationVars, channelVars, dataVars, statsVars, sideVars>>

CloseTask ==
    /\ NextTask("close")
    /\ IF mpPeerConnection = "null"
       THEN crash' = "Close" /\ UNCHANGED mpPeerConnection
       ELSE mpPeerConnection' = "closed" /\ UNCHANGED crash
    /\ UNCHANGED <<now, mLastSessionActivity, closeNotice,
                   negotiationVars, channelVars, dataVars, statsVars, sideVars>>

\* The body of the statistics task is still to be written.
StatsTask ==
    /\ NextTask("stats")
    /\ UNCHANGED <<now, mLastSessionActivity, mpPeerConnection, closeNotice, crash,
                   negotiationVars, channelVars, dataVars, statsVars, sideVars>>

RunTask == InitOutgoingTask \/ SendTask \/ ResponseTask \/ CloseTask \/ StatsTask

-----------------------------------------------------------------------------
(* RtcThreadManager::Shutdown stops the thread, waits until it has run what was
   queued and has ended, and clears the pointer.                            *)

ShutdownStop ==
    /\ mThread = "running" /\ crash = "no"
    /\ mThread' = "quitting"
    /\ UNCHANGED <<now, mLastSessionActivity, mpPeerConnection, signalTasks, closeNotice,
                   crash, mIceConnectionState, mConnectionStat, signalInFlight, timedOut,
                   negotiationVars, channelVars, dataVars, statsVars>>

\* Mutant: the pointer is cleared before the thread has ended.
ShutdownClearEarly ==
    /\ mThread = "quitting" /\ crash = "no"
    /\ updating = "no" /\ statsCall["signal"] = "idle"
    /\ mThread' = "null"
    /\ UNCHANGED <<now, mLastSessionActivity, mpPeerConnection, signalTasks, closeNotice,
                   crash, mIceConnectionState, mConnectionStat, signalInFlight, timedOut,
                   negotiationVars, channelVars, dataVars, statsVars>>

ShutdownClear ==
    /\ mThread = "quitting" /\ crash = "no"
    /\ signalTasks = <<>> /\ updating = "no" /\ statsCall["signal"] = "idle"
    /\ mThread' = "null"
    /\ UNCHANGED <<now, mLastSessionActivity, mpPeerConnection, signalTasks, closeNotice,
                   crash, mIceConnectionState, mConnectionStat, signalInFlight, timedOut,
                   negotiationVars, channelVars, dataVars, statsVars>>

Tick ==
    /\ now < MaxTime /\ crash = "no"
    /\ now' = now + 1
    /\ UNCHANGED <<mLastSessionActivity, mpPeerConnection, signalTasks, closeNotice, crash,
                   negotiationVars, channelVars, dataVars, statsVars, sideVars>>

\* The signal thread goes on in the function it is in.
FinishCall == UpdateDataChannelStates \/ RequestStats("signal")

Next ==
    \/ InitializeOutgoing \/ InitializeIncoming \/ OnSetRemoteDescriptionComplete
    \/ AcceptSession \/ ProcessConnectResponse \/ RemoteActivity
    \/ IsDeadSession \/ NameTimeout \/ ProcessError \/ CloseSessionIfInactive \/ Close
    \/ GetSessionState \/ OnIceConnectionChange \/ RequestStats("application")
    \/ SendPacket \/ OnDataChannel \/ OnDataChannelStateChange \/ ChannelTransition
    \/ OnIceCandidate \/ SignalSendComplete
    \/ RunTask \/ FinishCall \/ ShutdownStop \/ ShutdownClear \/ Tick

\* The signal thread does not stop inside a function, and takes what is queued, left
\* over at its end included: the callbacks are taken from the same queue in their
\* turn, so none of them keeps a task waiting for ever.
Spec == Init /\ [][Next]_vars /\ WF_vars(FinishCall) /\ SF_vars(RunTask)

-----------------------------------------------------------------------------
(* Properties.                                                             *)

Origins == {"none", "IsDeadSession", "ProcessError", "CloseSessionIfInactive", "InitializeIncoming",
            "SetRemoteDescription", "InitializeOutgoing", "SendToSignalingChannel"}

FlagTypes ==
    /\ initialized \in BOOLEAN /\ mIsOutGoingSession \in BOOLEAN
    /\ opened \in BOOLEAN /\ mStatsRequestInProgress \in BOOLEAN
    /\ thenFlush \in BOOLEAN /\ timedOut \in BOOLEAN
TimeTypes ==
    /\ now \in Boot..MaxTime /\ mLastSessionActivity \in 0..MaxTime
    /\ mNegotiationStateTimer \in 0..MaxTime /\ mLastStatsUpdate \in 0..MaxTime
StateTypes ==
    /\ mConnNegotiationState \in NegotiationStates
    /\ remoteDescription \in {"none", "pending", "done"}
    /\ mIceConnectionState \in IceStates /\ mConnectionStat \in IceStates
    /\ mpPeerConnection \in {"null", "live", "closed"}
    /\ signalInFlight \in Candidates \cup {NoCandidate}
    /\ closeNotice \in Origins \X Errors
    /\ agreedBy \subseteq {"accept", "response"} /\ answers \in Nat
    /\ crash \in {"no", "InitializeOutgoing", "CheckSendDeferredData", "Close"}
ChannelTypes ==
    /\ mReliableChannelInterface \in Channels /\ mUnreliableChannelInterface \in Channels
    /\ mReliableChannelState \in DataStates /\ mUnreliableChannelState \in DataStates
    /\ updating \in UpdateSteps
StatsTypes ==
    /\ statsCall \in [StatsThreads -> {"idle", "post", "set"}]
    /\ statsRequests \in [StatsThreads -> Nat]
DataTypes ==
    /\ mReliablePackets \in Seq(Packets) /\ mUnreliablePackets \in Seq(Packets)
    /\ accepted \in Seq(Packets) /\ offered \in Seq(Packets) /\ refused \in BOOLEAN
QueueTypes == signalTasks \in Seq(Tasks) /\ mThread \in ThreadStates

\* Every variable stays in its type.
TypeOK ==
    /\ FlagTypes /\ TimeTypes /\ StateTypes /\ ChannelTypes /\ DataTypes
    /\ QueueTypes /\ StatsTypes

\* Reliable data keeps its order across the switch from deferring to sending:
\* what the send tasks took as reliable is what the channel was given followed
\* by what is still deferred, so no direct send overtakes a deferred packet.
ReliableInOrder == accepted = offered \o mReliablePackets

\* What GetSessionState finds in the cached states between two updates of them: an
\* active connection only after the application has been told OnSessionOpen,
\* whichever callback updated them and however the channels moved meanwhile.  The
\* stores and the call of OnSessionOpen are separate steps: a call that falls between
\* them can be told of an active connection first.  (Before the peer connection
\* exists the cached states are uninitialised memory.)
ActiveImpliesOpened ==
    mpPeerConnection # "null" /\ updating = "no" /\ ConnectionActive => opened

\* Close tests mpPeerConnection on the caller's thread and uses it later, on the
\* signal thread: the pointer is never null by then.
CloseFindsConnection == crash # "Close"

\* A session is not answered before its wait has ended: the application has accepted
\* it, or the remote side's ConnectResponse, which is taken in either role, has come.
\* That the response is first tried when the remote description is set, perhaps long
\* before, does not matter.
AnswerAfterAccept == answers > 0 => agreedBy # {}

\* mHasSentAcceptSession is never set, so an answer can be repeated: the completion of
\* SetRemoteDescription and the accept may each lead to one, and nothing to a third.
AtMostTwoAnswers == answers <= 2

\* mStatsRequestInProgress is tested and set in two steps, so two threads can both ask
\* for statistics; as it is never reset, none of them asks twice.
OneStatsRequestPerThread == \A t \in StatsThreads : statsRequests[t] <= 1

\* Once a session in use is in ICE processing no handler takes it back, so a late
\* accept, response or retry cannot restart the negotiation timeout.
NegotiationOnlyAdvances ==
    [][initialized /\ mConnNegotiationState = "ICEProcessing"
         => mConnNegotiationState' = "ICEProcessing"]_vars

\* An outgoing session set up while the signal thread runs gets its peer connection,
\* or the application hears that it could not be created, also when the thread is
\* shut down right afterwards.  (Without a thread nothing is posted and it gets neither.)
OutgoingGetsConnection ==
    (initialized /\ mIsOutGoingSession /\ mThread = "running") ~>
        \/ mpPeerConnection # "null"
        \/ closeNotice = <<"InitializeOutgoing", "FailedToCreatePeerConnection">>

\* A Close that was posted closes the peer connection.
CloseTakesEffect ==
    (\E i \in 1..Len(signalTasks) : signalTasks[i] = "close")
        ~> (mpPeerConnection = "closed" \/ crash # "no")

\* An outgoing session that has no peer connection yet is about to get one, the task
\* of InitializeOutgoing coming before every other, or has no thread that could run
\* any task: no send task finds the null pointer and drops its packet.
InitializedBeforeUse ==
    initialized /\ mIsOutGoingSession /\ mpPeerConnection = "null" /\ crash = "no" =>
        IF signalTasks = <<>> THEN mThread # "running" ELSE signalTasks[1] = "initOutgoing"

\* A Close that was posted is never lost or overtaken: with every step it keeps its
\* place in the queue or moves up by one, until it has closed the connection.
CloseMovesUp ==
    [][\A i \in 1..Len(signalTasks) : signalTasks[i] = "close" =>
         \/ \E j \in {i - 1, i} \cap (1..Len(signalTasks')) : signalTasks'[j] = "close"
         \/ mpPeerConnection' = "closed"]_vars

\* What WebRTC documents of Send: only an open channel is ready to send data.
ReliableSentOnOpenChannel == ~refused

\* What the comment in IsDeadSession says of the error it reports, that it "depends on the
\* `waiting-for` state": a session that waits for a response is not reported as one that
\* waits for an accept.
TimeoutNamesTheWait ==
    initialized /\ mIsOutGoingSession =>
        closeNotice # <<"IsDeadSession", "NegotiationTimeoutWaitingForAccept">>

\* The abstract session that this one implements.
Contract == INSTANCE SessionContract WITH
    phase      <- IF ~initialized THEN "idle"
                  ELSE IF mConnNegotiationState = "ICEProcessing" THEN "agreed" ELSE "waiting",
    connection <- mpPeerConnection,
    answered   <- answers > 0,
    pending    <- mReliablePackets,
    sent       <- offered

\* Tasks, callbacks and API calls in any interleaving keep what a session promises:
\* each of their steps is one step of the abstract session, or none.
ImplementsContract == Contract!Spec
=============================================================================
