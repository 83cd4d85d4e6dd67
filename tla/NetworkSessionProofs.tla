------------------------ MODULE NetworkSessionProofs ------------------------
(***************************************************************************)
(* Theorems about NetworkSession, for every value of its constants.        *)
(***************************************************************************)
EXTENDS NetworkSession, SequenceTheorems, TLAPS

\* What CheckSendDeferredData does to the deferred data, without what it sends.
LEMMA DeferredData ==
    ASSUME CheckSendDeferredData
    PROVE  /\ mReliableChannelInterface = "null" =>
                mReliablePackets' = mReliablePackets /\ offered' = offered
           /\ mReliableChannelInterface # "null" =>
                mReliablePackets' = <<>> /\ offered' = offered \o mReliablePackets
           /\ mUnreliablePackets' \in {mUnreliablePackets, <<>>}
           /\ accepted' = accepted
BY Zenon DEF CheckSendDeferredData

\* CheckSendDeferredData keeps the deferred data in its types.
LEMMA DeferredTypes ==
    ASSUME DataTypes, CheckSendDeferredData
    PROVE  DataTypes'
<1>1. <<>> \in Seq(Packets) /\ offered \o mReliablePackets \in Seq(Packets)
  BY DEF DataTypes
<1>2. refused' \in BOOLEAN
  BY DEF CheckSendDeferredData, DataTypes
<1> QED
  BY <1>1, <1>2, DeferredData, Zenon DEF DataTypes

\* What a send task does to the deferred data.
LEMMA SendData ==
    ASSUME SendTask
    PROVE  \/ UNCHANGED <<mReliablePackets, mUnreliablePackets, accepted, offered>>
           \/ \E packet \in Packets :
                /\ accepted' = Append(accepted, packet)
                /\ mUnreliablePackets' = mUnreliablePackets
                /\ \/ /\ mReliableChannelInterface = "null" \/ mReliableChannelState # "open"
                      /\ mReliablePackets' = Append(mReliablePackets, packet)
                      /\ offered' = offered
                   \/ /\ mReliableChannelInterface # "null" /\ mReliableChannelState = "open"
                      /\ mReliablePackets' = mReliablePackets
                      /\ offered' = Append(offered, packet)
           \/ \E packet \in Packets :
                /\ mUnreliablePackets' \in
                     {mUnreliablePackets, Append(mUnreliablePackets, packet)}
                /\ UNCHANGED <<mReliablePackets, accepted, offered>>
BY Zenon DEF SendTask, SendReliable, SendUnreliable, dataVars

\* Every handler of the session keeps every variable in its type.
THEOREM TypeCorrect == Spec => []TypeOK
<1> USE SessionConstants
<1>1. Init => TypeOK
  <2> SUFFICES ASSUME Init PROVE TypeOK
    OBVIOUS
  <2>1. FlagTypes
    BY DEF Init, FlagTypes
  <2>2. TimeTypes
    BY DEF Init, TimeTypes
  <2>3. StateTypes
    BY DEF Init, StateTypes, Origins, Errors
  <2>4. ChannelTypes
    BY DEF Init, ChannelTypes, Channels, DataStates, UpdateSteps
  <2>5. DataTypes
    <3>1. <<>> \in Seq(Packets)
      OBVIOUS
    <3> QED
      BY <3>1, Zenon DEF Init, DataTypes
  <2>6. QueueTypes
    BY DEF Init, QueueTypes, ThreadStates
  <2>7. StatsTypes
    BY DEF Init, StatsTypes
  <2> QED
    BY <2>1, <2>2, <2>3, <2>4, <2>5, <2>6, <2>7 DEF TypeOK
<1>2. TypeOK /\ [Next]_vars => TypeOK'
  <2> SUFFICES ASSUME TypeOK, [Next]_vars PROVE TypeOK'
    OBVIOUS
  <2> USE DEF TypeOK
  <2>1. CASE InitializeOutgoing
    <3>1. FlagTypes'
      BY <2>1 DEF InitializeOutgoing, FlagTypes, channelVars, statsVars, sideVars
    <3>2. TimeTypes'
      BY <2>1 DEF InitializeOutgoing, TimeTypes, UpdateSessionActivity, statsVars
    <3>3. StateTypes'
      BY <2>1 DEF InitializeOutgoing, StateTypes, NegotiationStates, sideVars
    <3>4. QueueTypes'
      BY <2>1 DEF InitializeOutgoing, QueueTypes, PostTask, Tasks, sideVars
    <3>5. ChannelTypes' /\ DataTypes' /\ StatsTypes'
      BY <2>1 DEF InitializeOutgoing, ChannelTypes, DataTypes, StatsTypes, channelVars,
         dataVars, statsVars
    <3> QED
      BY <3>1, <3>2, <3>3, <3>4, <3>5
  <2>2. CASE InitializeIncoming
    <3>1. FlagTypes'
      BY <2>2 DEF InitializeIncoming, FlagTypes, channelVars, statsVars, sideVars
    <3>2. TimeTypes'
      BY <2>2 DEF InitializeIncoming, TimeTypes, UpdateSessionActivity, statsVars
    <3>3. StateTypes'
      BY <2>2 DEF InitializeIncoming, StateTypes, NegotiationStates,
         NotifyOnSessionClose, Origins, Errors, sideVars
    <3>4. ChannelTypes' /\ DataTypes' /\ QueueTypes' /\ StatsTypes'
      BY <2>2 DEF InitializeIncoming, ChannelTypes, DataTypes, QueueTypes, StatsTypes,
         channelVars, dataVars, sideVars, statsVars
    <3> QED
      BY <3>1, <3>2, <3>3, <3>4
  <2>3. CASE OnSetRemoteDescriptionComplete
    <3>1. TimeTypes'
      BY <2>3 DEF OnSetRemoteDescriptionComplete, TimeTypes, TrySendSessionResponse,
         UpdateSessionActivity, statsVars
    <3>2. StateTypes'
      BY <2>3 DEF OnSetRemoteDescriptionComplete, StateTypes, NotifyOnSessionClose,
         Origins, Errors, sideVars
    <3>3. QueueTypes'
      BY <2>3 DEF OnSetRemoteDescriptionComplete, QueueTypes, TrySendSessionResponse,
         PostTask, Tasks, sideVars
    <3>4. FlagTypes' /\ ChannelTypes' /\ DataTypes' /\ StatsTypes'
      BY <2>3 DEF OnSetRemoteDescriptionComplete, FlagTypes, ChannelTypes, DataTypes,
         StatsTypes, channelVars, statsVars, sideVars, dataVars
    <3> QED
      BY <3>1, <3>2, <3>3, <3>4
  <2>4. CASE AcceptSession
    <3>1. TimeTypes'
      BY <2>4 DEF AcceptSession, TimeTypes, TrySendSessionResponse,
         UpdateSessionActivity, statsVars
    <3>2. StateTypes'
      BY <2>4 DEF AcceptSession, StateTypes, NegotiationStates, sideVars
    <3>3. QueueTypes'
      BY <2>4 DEF AcceptSession, QueueTypes, TrySendSessionResponse, PostTask, Tasks,
         sideVars
    <3>4. FlagTypes' /\ ChannelTypes' /\ DataTypes' /\ StatsTypes'
      BY <2>4 DEF AcceptSession, FlagTypes, ChannelTypes, DataTypes, StatsTypes,
         channelVars, statsVars, sideVars, dataVars
    <3> QED
      BY <3>1, <3>2, <3>3, <3>4
  <2>5. CASE ProcessConnectResponse
    <3>1. TimeTypes'
      BY <2>5 DEF ProcessConnectResponse, TimeTypes, UpdateSessionActivity, statsVars
    <3>2. StateTypes'
      BY <2>5 DEF ProcessConnectResponse, StateTypes, NegotiationStates, sideVars
    <3>3. FlagTypes' /\ ChannelTypes' /\ DataTypes'
      BY <2>5 DEF ProcessConnectResponse, FlagTypes, ChannelTypes, DataTypes,
         channelVars, statsVars, sideVars, dataVars
    <3>4. QueueTypes' /\ StatsTypes'
      BY <2>5 DEF ProcessConnectResponse, QueueTypes, StatsTypes, sideVars, statsVars
    <3> QED
      BY <3>1, <3>2, <3>3, <3>4
  <2>6. CASE RemoteActivity
    <3>1. TimeTypes'
      BY <2>6 DEF RemoteActivity, TimeTypes, UpdateSessionActivity, negotiationVars,
         statsVars
    <3>2. FlagTypes' /\ StateTypes' /\ ChannelTypes'
      BY <2>6 DEF RemoteActivity, FlagTypes, StateTypes, ChannelTypes, negotiationVars,
         channelVars, statsVars, sideVars
    <3>3. DataTypes' /\ QueueTypes' /\ StatsTypes'
      BY <2>6 DEF RemoteActivity, DataTypes, QueueTypes, StatsTypes, dataVars, sideVars,
         statsVars
    <3> QED
      BY <3>1, <3>2, <3>3
  <2>7. CASE IsDeadSession
    <3>1. FlagTypes'
      BY <2>7 DEF IsDeadSession, FlagTypes, negotiationVars, channelVars, statsVars
    <3>2. StateTypes'
      BY <2>7 DEF IsDeadSession, StateTypes, NotifyOnSessionClose, Origins, Errors,
         negotiationVars
    <3>3. TimeTypes' /\ ChannelTypes' /\ DataTypes'
      BY <2>7 DEF IsDeadSession, TimeTypes, ChannelTypes, DataTypes, negotiationVars,
         statsVars, channelVars, dataVars
    <3>4. QueueTypes' /\ StatsTypes'
      BY <2>7 DEF IsDeadSession, QueueTypes, StatsTypes, statsVars
    <3> QED
      BY <3>1, <3>2, <3>3, <3>4
  <2>8. CASE NameTimeout
    <3>1. FlagTypes'
      BY <2>8 DEF NameTimeout, FlagTypes, negotiationVars, channelVars, statsVars
    <3>2. StateTypes'
      BY <2>8 DEF NameTimeout, StateTypes, NotifyOnSessionClose, Origins, Errors,
         negotiationVars
    <3>3. TimeTypes' /\ ChannelTypes' /\ DataTypes'
      BY <2>8 DEF NameTimeout, TimeTypes, ChannelTypes, DataTypes, negotiationVars,
         statsVars, channelVars, dataVars
    <3>4. QueueTypes' /\ StatsTypes'
      BY <2>8 DEF NameTimeout, QueueTypes, StatsTypes, statsVars
    <3> QED
      BY <3>1, <3>2, <3>3, <3>4
  <2>9. CASE ProcessError
    <3>1. StateTypes'
      BY <2>9 DEF ProcessError, StateTypes, NotifyOnSessionClose, Origins, Errors,
         negotiationVars, sideVars
    <3>2. FlagTypes' /\ TimeTypes' /\ ChannelTypes'
      BY <2>9 DEF ProcessError, FlagTypes, TimeTypes, ChannelTypes, negotiationVars,
         channelVars, statsVars, sideVars
    <3>3. DataTypes' /\ QueueTypes' /\ StatsTypes'
      BY <2>9 DEF ProcessError, DataTypes, QueueTypes, StatsTypes, dataVars, sideVars,
         statsVars
    <3> QED
      BY <3>1, <3>2, <3>3
  <2>10. CASE CloseSessionIfInactive
    <3>1. StateTypes'
      BY <2>10 DEF CloseSessionIfInactive, StateTypes, NotifyOnSessionClose, Origins,
         Errors, negotiationVars, sideVars
    <3>2. QueueTypes'
      BY <2>10 DEF CloseSessionIfInactive, QueueTypes, PostTask, Tasks, sideVars
    <3>3. FlagTypes' /\ TimeTypes' /\ ChannelTypes'
      BY <2>10 DEF CloseSessionIfInactive, FlagTypes, TimeTypes, ChannelTypes,
         negotiationVars, channelVars, statsVars, sideVars
    <3>4. DataTypes' /\ StatsTypes'
      BY <2>10 DEF CloseSessionIfInactive, DataTypes, StatsTypes, dataVars, statsVars
    <3> QED
      BY <3>1, <3>2, <3>3, <3>4
  <2>11. CASE Close
    <3>1. QueueTypes'
      BY <2>11 DEF Close, QueueTypes, PostTask, Tasks, sideVars
    <3>2. FlagTypes' /\ TimeTypes' /\ StateTypes'
      BY <2>11 DEF Close, FlagTypes, TimeTypes, StateTypes, negotiationVars,
         channelVars, statsVars, sideVars
    <3>3. ChannelTypes' /\ DataTypes' /\ StatsTypes'
      BY <2>11 DEF Close, ChannelTypes, DataTypes, StatsTypes, channelVars, dataVars,
         statsVars
    <3> QED
      BY <3>1, <3>2, <3>3
  <2>12. CASE GetSessionState
    <3>1. StatsTypes'
      BY <2>12 DEF GetSessionState, StatsTypes, CheckUpdateStats
    <3>2. FlagTypes' /\ TimeTypes' /\ StateTypes'
      BY <2>12 DEF GetSessionState, FlagTypes, TimeTypes, StateTypes, negotiationVars,
         channelVars, sideVars
    <3>3. ChannelTypes' /\ DataTypes' /\ QueueTypes'
      BY <2>12 DEF GetSessionState, ChannelTypes, DataTypes, QueueTypes, channelVars,
         dataVars, sideVars
    <3> QED
      BY <3>1, <3>2, <3>3
  <2>13. CASE OnIceConnectionChange
    <3>1. StateTypes'
      BY <2>13 DEF OnIceConnectionChange, StateTypes, negotiationVars
    <3>2. StatsTypes'
      BY <2>13 DEF OnIceConnectionChange, StatsTypes, CheckUpdateStats
    <3>3. FlagTypes' /\ TimeTypes' /\ ChannelTypes'
      BY <2>13 DEF OnIceConnectionChange, FlagTypes, TimeTypes, ChannelTypes,
         negotiationVars, channelVars
    <3>4. DataTypes' /\ QueueTypes'
      BY <2>13 DEF OnIceConnectionChange, DataTypes, QueueTypes, dataVars
    <3> QED
      BY <3>1, <3>2, <3>3, <3>4
  <2>14. ASSUME NEW t \in StatsThreads, PostStatsRequest(t) PROVE TypeOK'
    <3>1. StatsTypes'
      BY <2>14 DEF PostStatsRequest, StatsTypes
    <3>2. QueueTypes'
      BY <2>14 DEF PostStatsRequest, QueueTypes, PostTask, Tasks, sideVars
    <3>3. FlagTypes' /\ TimeTypes' /\ StateTypes'
      BY <2>14 DEF PostStatsRequest, FlagTypes, TimeTypes, StateTypes, negotiationVars,
         channelVars, sideVars
    <3>4. ChannelTypes' /\ DataTypes'
      BY <2>14 DEF PostStatsRequest, ChannelTypes, DataTypes, channelVars, dataVars
    <3> QED
      BY <3>1, <3>2, <3>3, <3>4
  <2>15. ASSUME NEW t \in StatsThreads, RecordStatsRequest(t) PROVE TypeOK'
    <3>1. FlagTypes'
      BY <2>15 DEF RecordStatsRequest, FlagTypes, negotiationVars, channelVars, sideVars
    <3>2. TimeTypes'
      BY <2>15 DEF RecordStatsRequest, TimeTypes, negotiationVars
    <3>3. StatsTypes'
      BY <2>15 DEF RecordStatsRequest, StatsTypes
    <3>4. StateTypes' /\ ChannelTypes' /\ DataTypes' /\ QueueTypes'
      BY <2>15 DEF RecordStatsRequest, StateTypes, ChannelTypes, DataTypes, QueueTypes,
         negotiationVars, sideVars, channelVars, dataVars
    <3> QED
      BY <3>1, <3>2, <3>3, <3>4
  <2>16. CASE SendPacket
    <3>1. TimeTypes'
      BY <2>16 DEF SendPacket, TimeTypes, UpdateSessionActivity, negotiationVars,
         statsVars
    <3>2. QueueTypes'
      BY <2>16 DEF SendPacket, QueueTypes, PostTask, Tasks, sideVars
    <3>3. FlagTypes' /\ StateTypes' /\ ChannelTypes'
      BY <2>16 DEF SendPacket, FlagTypes, StateTypes, ChannelTypes, negotiationVars,
         channelVars, statsVars, sideVars
    <3>4. DataTypes' /\ StatsTypes'
      BY <2>16 DEF SendPacket, DataTypes, StatsTypes, dataVars, statsVars
    <3> QED
      BY <3>1, <3>2, <3>3, <3>4
  <2>17. CASE OnDataChannel
    <3>1. FlagTypes'
      BY <2>17 DEF OnDataChannel, FlagTypes, BeginUpdate, negotiationVars, statsVars,
         sideVars
    <3>2. ChannelTypes'
      BY <2>17 DEF OnDataChannel, ChannelTypes, BeginUpdate, UpdateSteps, Channels,
         DataStates
    <3>3. TimeTypes' /\ StateTypes' /\ DataTypes'
      BY <2>17 DEF OnDataChannel, TimeTypes, StateTypes, DataTypes, negotiationVars,
         statsVars, sideVars, dataVars
    <3>4. QueueTypes' /\ StatsTypes'
      BY <2>17 DEF OnDataChannel, QueueTypes, StatsTypes, sideVars, statsVars
    <3> QED
      BY <3>1, <3>2, <3>3, <3>4
  <2>18. CASE OnDataChannelStateChange
    <3>1. FlagTypes'
      BY <2>18 DEF OnDataChannelStateChange, FlagTypes, BeginUpdate, negotiationVars,
         statsVars, sideVars
    <3>2. ChannelTypes'
      BY <2>18 DEF OnDataChannelStateChange, ChannelTypes, BeginUpdate, UpdateSteps
    <3>3. TimeTypes' /\ StateTypes' /\ DataTypes'
      BY <2>18 DEF OnDataChannelStateChange, TimeTypes, StateTypes, DataTypes,
         negotiationVars, statsVars, sideVars, dataVars
    <3>4. QueueTypes' /\ StatsTypes'
      BY <2>18 DEF OnDataChannelStateChange, QueueTypes, StatsTypes, sideVars, statsVars
    <3> QED
      BY <3>1, <3>2, <3>3, <3>4
  <2>19. CASE StoreReliableState
    <3>1. ChannelTypes'
      BY <2>19 DEF StoreReliableState, ChannelTypes, UpdateSteps, CacheOf, Channels,
         DataStates
    <3>2. FlagTypes' /\ TimeTypes' /\ StateTypes'
      BY <2>19 DEF StoreReliableState, FlagTypes, TimeTypes, StateTypes,
         negotiationVars, statsVars, sideVars
    <3>3. DataTypes' /\ QueueTypes' /\ StatsTypes'
      BY <2>19 DEF StoreReliableState, DataTypes, QueueTypes, StatsTypes, dataVars,
         sideVars, statsVars
    <3> QED
      BY <3>1, <3>2, <3>3
  <2>20. CASE StoreUnreliableState
    <3>1. ChannelTypes'
      BY <2>20 DEF StoreUnreliableState, ChannelTypes, UpdateSteps, CacheOf, Channels,
         DataStates
    <3>2. FlagTypes' /\ TimeTypes' /\ StateTypes'
      BY <2>20 DEF StoreUnreliableState, FlagTypes, TimeTypes, StateTypes,
         negotiationVars, statsVars, sideVars
    <3>3. DataTypes' /\ QueueTypes' /\ StatsTypes'
      BY <2>20 DEF StoreUnreliableState, DataTypes, QueueTypes, StatsTypes, dataVars,
         sideVars, statsVars
    <3> QED
      BY <3>1, <3>2, <3>3
  <2>21. CASE NotifyOnSessionOpen
    <3>1. FlagTypes'
      BY <2>21 DEF NotifyOnSessionOpen, FlagTypes, negotiationVars, statsVars, sideVars
    <3>2. StateTypes'
      BY <2>21 DEF NotifyOnSessionOpen, StateTypes, CheckSendDeferredData,
         negotiationVars, sideVars
    <3>3. ChannelTypes'
      BY <2>21 DEF NotifyOnSessionOpen, ChannelTypes, UpdateSteps
    <3>4. DataTypes'
      <4>1. CheckSendDeferredData \/ UNCHANGED dataVars
        BY <2>21 DEF NotifyOnSessionOpen
      <4> QED
        BY <4>1, DeferredTypes DEF DataTypes, dataVars
    <3>5. TimeTypes' /\ QueueTypes' /\ StatsTypes'
      BY <2>21 DEF NotifyOnSessionOpen, TimeTypes, QueueTypes, StatsTypes,
         negotiationVars, statsVars, sideVars
    <3> QED
      BY <3>1, <3>2, <3>3, <3>4, <3>5
  <2>22. CASE ChannelTransition
    <3>1. ChannelTypes'
      BY <2>22 DEF ChannelTransition, ChannelTypes, Later, Channels, DataStates
    <3>2. FlagTypes' /\ TimeTypes' /\ StateTypes'
      BY <2>22 DEF ChannelTransition, FlagTypes, TimeTypes, StateTypes, negotiationVars,
         statsVars, sideVars
    <3>3. DataTypes' /\ QueueTypes' /\ StatsTypes'
      BY <2>22 DEF ChannelTransition, DataTypes, QueueTypes, StatsTypes, dataVars,
         sideVars, statsVars
    <3> QED
      BY <3>1, <3>2, <3>3
  <2>23. CASE OnIceCandidate
    <3>1. StateTypes'
      BY <2>23 DEF OnIceCandidate, StateTypes, NotifyOnSessionClose, Origins, Errors,
         negotiationVars
    <3>2. FlagTypes' /\ TimeTypes' /\ ChannelTypes'
      BY <2>23 DEF OnIceCandidate, FlagTypes, TimeTypes, ChannelTypes, negotiationVars,
         channelVars, statsVars
    <3>3. DataTypes' /\ QueueTypes' /\ StatsTypes'
      BY <2>23 DEF OnIceCandidate, DataTypes, QueueTypes, StatsTypes, dataVars,
         statsVars
    <3> QED
      BY <3>1, <3>2, <3>3
  <2>24. CASE SignalSendComplete
    <3>1. StateTypes'
      BY <2>24 DEF SignalSendComplete, StateTypes, NotifyOnSessionClose, Origins,
         Errors, negotiationVars
    <3>2. FlagTypes' /\ TimeTypes' /\ ChannelTypes'
      BY <2>24 DEF SignalSendComplete, FlagTypes, TimeTypes, ChannelTypes,
         negotiationVars, channelVars, statsVars
    <3>3. DataTypes' /\ QueueTypes' /\ StatsTypes'
      BY <2>24 DEF SignalSendComplete, DataTypes, QueueTypes, StatsTypes, dataVars,
         statsVars
    <3> QED
      BY <3>1, <3>2, <3>3
  <2>25. CASE InitOutgoingTask
    <3>1. FlagTypes'
      BY <2>25 DEF InitOutgoingTask, FlagTypes, BeginUpdate, negotiationVars,
         channelVars, statsVars, sideVars
    <3>2. StateTypes'
      <4>1. closeNotice' \in Origins \X Errors
        <5>1. \/ closeNotice' = <<"InitializeOutgoing", "FailedToCreatePeerConnection">>
              \/ closeNotice' = closeNotice
          BY <2>25, Zenon DEF InitOutgoingTask, NotifyOnSessionClose
        <5> QED
          BY <5>1 DEF StateTypes, Origins, Errors
      <4>2. /\ mpPeerConnection' \in {mpPeerConnection, "live"}
            /\ crash' \in {crash, "InitializeOutgoing"}
        BY <2>25 DEF InitOutgoingTask
      <4>3. UNCHANGED <<negotiationVars, sideVars>>
        BY <2>25 DEF InitOutgoingTask
      <4> QED
        BY <4>1, <4>2, <4>3 DEF StateTypes, negotiationVars, sideVars
    <3>3. ChannelTypes'
      BY <2>25 DEF InitOutgoingTask, ChannelTypes, BeginUpdate, UpdateSteps, channelVars
    <3>4. QueueTypes'
      BY <2>25 DEF InitOutgoingTask, QueueTypes, NextTask, sideVars
    <3>5. TimeTypes' /\ DataTypes' /\ StatsTypes'
      BY <2>25 DEF InitOutgoingTask, TimeTypes, DataTypes, StatsTypes, negotiationVars,
         statsVars, dataVars
    <3> QED
      BY <3>1, <3>2, <3>3, <3>4, <3>5
  <2>26. CASE SendTask
    <3>1. DataTypes'
      <4>1. \A s \in Seq(Packets), packet \in Packets : Append(s, packet) \in Seq(Packets)
        OBVIOUS
      <4>2. refused' \in BOOLEAN
        BY <2>26 DEF SendTask, SendReliable, SendUnreliable, DataTypes, dataVars
      <4> QED
        BY <2>26, <4>1, <4>2, SendData, Zenon DEF DataTypes
    <3>2. QueueTypes'
      BY <2>26 DEF SendTask, QueueTypes, NextTask, sideVars
    <3>3. FlagTypes' /\ TimeTypes' /\ StateTypes'
      BY <2>26 DEF SendTask, FlagTypes, TimeTypes, StateTypes, negotiationVars,
         channelVars, statsVars, sideVars
    <3>4. ChannelTypes' /\ StatsTypes'
      BY <2>26 DEF SendTask, ChannelTypes, StatsTypes, channelVars, statsVars
    <3> QED
      BY <3>1, <3>2, <3>3, <3>4
  <2>27. CASE ResponseTask
    <3>1. StateTypes'
      BY <2>27 DEF ResponseTask, StateTypes, sideVars
    <3>2. QueueTypes'
      BY <2>27 DEF ResponseTask, QueueTypes, NextTask, sideVars
    <3>3. FlagTypes' /\ TimeTypes' /\ ChannelTypes'
      BY <2>27 DEF ResponseTask, FlagTypes, TimeTypes, ChannelTypes, channelVars,
         statsVars, sideVars
    <3>4. DataTypes' /\ StatsTypes'
      BY <2>27 DEF ResponseTask, DataTypes, StatsTypes, dataVars, statsVars
    <3> QED
      BY <3>1, <3>2, <3>3, <3>4
  <2>28. CASE CloseTask
    <3>1. StateTypes'
      BY <2>28 DEF CloseTask, StateTypes, negotiationVars, sideVars
    <3>2. QueueTypes'
      BY <2>28 DEF CloseTask, QueueTypes, NextTask, sideVars
    <3>3. FlagTypes' /\ TimeTypes' /\ ChannelTypes'
      BY <2>28 DEF CloseTask, FlagTypes, TimeTypes, ChannelTypes, negotiationVars,
         channelVars, statsVars, sideVars
    <3>4. DataTypes' /\ StatsTypes'
      BY <2>28 DEF CloseTask, DataTypes, StatsTypes, dataVars, statsVars
    <3> QED
      BY <3>1, <3>2, <3>3, <3>4
  <2>29. CASE StatsTask
    <3>1. QueueTypes'
      BY <2>29 DEF StatsTask, QueueTypes, NextTask, sideVars
    <3>2. FlagTypes' /\ TimeTypes' /\ StateTypes'
      BY <2>29 DEF StatsTask, FlagTypes, TimeTypes, StateTypes, negotiationVars,
         channelVars, statsVars, sideVars
    <3>3. ChannelTypes' /\ DataTypes' /\ StatsTypes'
      BY <2>29 DEF StatsTask, ChannelTypes, DataTypes, StatsTypes, channelVars,
         dataVars, statsVars
    <3> QED
      BY <3>1, <3>2, <3>3
  <2>30. CASE ShutdownStop
    <3>1. QueueTypes'
      BY <2>30 DEF ShutdownStop, QueueTypes, ThreadStates
    <3>2. FlagTypes' /\ TimeTypes' /\ StateTypes'
      BY <2>30 DEF ShutdownStop, FlagTypes, TimeTypes, StateTypes, negotiationVars,
         channelVars, statsVars
    <3>3. ChannelTypes' /\ DataTypes' /\ StatsTypes'
      BY <2>30 DEF ShutdownStop, ChannelTypes, DataTypes, StatsTypes, channelVars,
         dataVars, statsVars
    <3> QED
      BY <3>1, <3>2, <3>3
  <2>31. CASE ShutdownClear
    <3>1. QueueTypes'
      BY <2>31 DEF ShutdownClear, QueueTypes, ThreadStates
    <3>2. FlagTypes' /\ TimeTypes' /\ StateTypes'
      BY <2>31 DEF ShutdownClear, FlagTypes, TimeTypes, StateTypes, negotiationVars,
         channelVars, statsVars
    <3>3. ChannelTypes' /\ DataTypes' /\ StatsTypes'
      BY <2>31 DEF ShutdownClear, ChannelTypes, DataTypes, StatsTypes, channelVars,
         dataVars, statsVars
    <3> QED
      BY <3>1, <3>2, <3>3
  <2>32. CASE Tick
    <3>1. TimeTypes'
      BY <2>32 DEF Tick, TimeTypes, negotiationVars, statsVars
    <3>2. FlagTypes' /\ StateTypes' /\ ChannelTypes'
      BY <2>32 DEF Tick, FlagTypes, StateTypes, ChannelTypes, negotiationVars,
         channelVars, statsVars, sideVars
    <3>3. DataTypes' /\ QueueTypes' /\ StatsTypes'
      BY <2>32 DEF Tick, DataTypes, QueueTypes, StatsTypes, dataVars, sideVars,
         statsVars
    <3> QED
      BY <3>1, <3>2, <3>3
  <2>33. CASE UNCHANGED vars
    BY <2>33 DEF vars, FlagTypes, TimeTypes, StateTypes, ChannelTypes, DataTypes,
       QueueTypes, StatsTypes, negotiationVars, channelVars, dataVars, statsVars, sideVars
  <2> QED
    BY <2>1, <2>2, <2>3, <2>4, <2>5, <2>6, <2>7, <2>8, <2>9, <2>10, <2>11, <2>12, <2>13,
       <2>14, <2>15, <2>16, <2>17, <2>18, <2>19, <2>20, <2>21, <2>22, <2>23, <2>24, <2>25,
       <2>26, <2>27, <2>28, <2>29, <2>30, <2>31, <2>32, <2>33 DEF Next, RunTask,
       FinishCall, RequestStats, StatsThreads, UpdateDataChannelStates
<1> QED
  BY <1>1, <1>2, PTL DEF Spec

-----------------------------------------------------------------------------
(* The queue of the signal thread.                                         *)

\* What a step may do with the queue: leave it, post a task to the running thread, or
\* run the first one.
LEMMA QueueSteps ==
    ASSUME TypeOK, [Next]_vars
    PROVE  \/ UNCHANGED signalTasks
           \/ mThread = "running" /\ \E task \in Tasks : signalTasks' = Append(signalTasks, task)
           \/ RunTask /\ signalTasks # <<>> /\ signalTasks' = Tail(signalTasks)
<1>a. {"initOutgoing", "send", "response", "close", "stats"} \subseteq Tasks
  BY DEF Tasks
<1>1. CASE RunTask
  BY <1>1 DEF RunTask, InitOutgoingTask, SendTask, ResponseTask, CloseTask, StatsTask, NextTask
<1>2. CASE \/ InitializeOutgoing \/ InitializeIncoming \/ OnSetRemoteDescriptionComplete
           \/ AcceptSession \/ ProcessConnectResponse \/ RemoteActivity
  BY <1>2, <1>a DEF InitializeOutgoing, InitializeIncoming, OnSetRemoteDescriptionComplete,
     AcceptSession, ProcessConnectResponse, RemoteActivity, TrySendSessionResponse, PostTask
<1>3. CASE IsDeadSession \/ NameTimeout \/ ProcessError \/ CloseSessionIfInactive \/ Close
  BY <1>3, <1>a DEF IsDeadSession, NameTimeout, ProcessError, CloseSessionIfInactive, Close,
     PostTask
<1>4. CASE GetSessionState \/ OnIceConnectionChange \/ SendPacket
  BY <1>4, <1>a DEF GetSessionState, OnIceConnectionChange, SendPacket, PostTask
<1>5. ASSUME NEW t, RequestStats(t)
      PROVE  \/ UNCHANGED signalTasks
             \/ mThread = "running" /\ signalTasks' = Append(signalTasks, "stats")
  BY <1>5 DEF RequestStats, PostStatsRequest, RecordStatsRequest, PostTask
<1>6. CASE \/ OnDataChannel \/ OnDataChannelStateChange \/ ChannelTransition
           \/ OnIceCandidate \/ SignalSendComplete \/ UpdateDataChannelStates
           \/ ShutdownStop \/ ShutdownClear \/ Tick \/ UNCHANGED vars
  BY <1>6 DEF OnDataChannel, OnDataChannelStateChange, ChannelTransition, OnIceCandidate,
     SignalSendComplete, UpdateDataChannelStates, StoreReliableState, StoreUnreliableState,
     NotifyOnSessionOpen, ShutdownStop, ShutdownClear, Tick, vars
<1> QED
  BY <1>a, <1>1, <1>2, <1>3, <1>4, <1>5, <1>6 DEF Next, FinishCall

-----------------------------------------------------------------------------
(* Order of reliable data, and Close.                                      *)

\* Before the session is initialised there is no task and no peer connection, and the
\* signal thread is in none of its functions.
QuietBeforeInit ==
    ~initialized => signalTasks = <<>> /\ mpPeerConnection = "null" /\ updating = "no"

\* The initialisation, where it was posted, runs first, and no peer connection exists
\* until it has.
InitRunsFirst ==
    \A i \in 1..Len(signalTasks) :
        signalTasks[i] = "initOutgoing" => i = 1 /\ mpPeerConnection = "null"

\* Only a peer connection brings data channels.
ChannelsNeedConnection == mReliableChannelInterface # "null" => mpPeerConnection # "null"

\* A reliable channel that the send tasks find open has nothing deferred.
FlushedWhenOpen ==
    updating = "no" /\ mReliableChannelInterface # "null" /\ mReliableChannelState = "open"
        => mReliablePackets = <<>>

\* An update of the cached states that is not followed by a flush finds no channel.
UpdateFlushes == updating # "no" /\ ~thenFlush => mReliableChannelInterface = "null"

\* A queued Close was posted with a peer connection in place.
CloseHasConnection ==
    \A i \in 1..Len(signalTasks) : signalTasks[i] = "close" => mpPeerConnection # "null"

\* The inductive invariant behind ReliableInOrder and CloseFindsConnection.
SessionInv ==
    /\ QuietBeforeInit /\ InitRunsFirst /\ ChannelsNeedConnection
    /\ FlushedWhenOpen /\ UpdateFlushes
    /\ ReliableInOrder /\ CloseHasConnection /\ CloseFindsConnection

\* The variables that SessionInv reads, except the queue and initialized.
invVars == <<mpPeerConnection, mReliableChannelInterface, mReliableChannelState,
             mReliablePackets, accepted, offered, crash, updating, thenFlush>>

\* Posting a task other than the initialisation keeps the facts about the queue.
LEMMA PostKeepsQueue ==
    ASSUME QueueTypes, InitRunsFirst, CloseHasConnection, NEW task \in Tasks,
           task # "initOutgoing", task = "close" => mpPeerConnection # "null",
           signalTasks' = Append(signalTasks, task), mpPeerConnection' = mpPeerConnection
    PROVE  InitRunsFirst' /\ CloseHasConnection'
<1>1. /\ Len(signalTasks') = Len(signalTasks) + 1
      /\ Len(signalTasks) \in Nat
      /\ \A i \in 1..Len(signalTasks) : signalTasks'[i] = signalTasks[i]
      /\ signalTasks'[Len(signalTasks) + 1] = task
  BY DEF QueueTypes
<1>2. \A i \in 1..Len(signalTasks') : i \in 1..Len(signalTasks) \/ signalTasks'[i] = task
  BY <1>1
<1> QED
  BY <1>1, <1>2 DEF InitRunsFirst, CloseHasConnection

\* Running a task keeps them: the initialisation, if it is there, was the one run.
LEMMA RunKeepsQueue ==
    ASSUME QueueTypes, InitRunsFirst, CloseHasConnection, NEW task, NextTask(task),
           mpPeerConnection' = mpPeerConnection \/ mpPeerConnection' # "null"
    PROVE  InitRunsFirst' /\ CloseHasConnection'
<1>1. /\ Len(signalTasks) \in Nat
      /\ Len(signalTasks') = Len(signalTasks) - 1
      /\ \A i \in 1..Len(signalTasks') : signalTasks'[i] = signalTasks[i + 1]
  BY DEF QueueTypes, NextTask
<1>2. \A i \in 1..Len(signalTasks') : i + 1 \in 1..Len(signalTasks) /\ i + 1 # 1
  BY <1>1
<1> QED
  BY <1>1, <1>2 DEF InitRunsFirst, CloseHasConnection

\* A step that changes at most the queue, by posting a task, keeps the invariant.
LEMMA PostKeepsInv ==
    ASSUME TypeOK, SessionInv, initialized', UNCHANGED invVars,
           NEW task \in Tasks, task # "initOutgoing",
           task = "close" => mpPeerConnection # "null",
           UNCHANGED signalTasks \/ PostTask(task)
    PROVE  SessionInv'
<1> USE DEF SessionInv, invVars
<1>1. InitRunsFirst' /\ CloseHasConnection'
  <2>1. CASE UNCHANGED signalTasks
    BY <2>1 DEF InitRunsFirst, CloseHasConnection
  <2>2. CASE signalTasks' = Append(signalTasks, task)
    BY <2>2, PostKeepsQueue DEF TypeOK
  <2> QED
    BY <2>1, <2>2 DEF PostTask
<1>2. QuietBeforeInit'
  BY DEF QuietBeforeInit
<1>3. /\ ChannelsNeedConnection' /\ FlushedWhenOpen' /\ UpdateFlushes'
      /\ ReliableInOrder' /\ CloseFindsConnection'
  BY DEF ChannelsNeedConnection, FlushedWhenOpen, UpdateFlushes, ReliableInOrder,
     CloseFindsConnection
<1> QED
  BY <1>1, <1>2, <1>3

\* A step that begins or goes on with an update of the cached states keeps it, as long
\* as a reliable channel that is there belongs to a connection and will be flushed.
LEMMA UpdateKeepsInv ==
    ASSUME SessionInv, initialized', updating' # "no",
           mReliableChannelInterface' # "null" => mpPeerConnection # "null" /\ thenFlush',
           UNCHANGED <<mpPeerConnection, signalTasks, crash, mReliablePackets, accepted, offered>>
    PROVE  SessionInv'
<1> USE DEF SessionInv
<1>1. QuietBeforeInit' /\ InitRunsFirst' /\ CloseHasConnection'
  BY DEF QuietBeforeInit, InitRunsFirst, CloseHasConnection
<1>2. /\ ChannelsNeedConnection' /\ FlushedWhenOpen' /\ UpdateFlushes'
      /\ ReliableInOrder' /\ CloseFindsConnection'
  BY DEF ChannelsNeedConnection, FlushedWhenOpen, UpdateFlushes, ReliableInOrder,
     CloseFindsConnection
<1> QED
  BY <1>1, <1>2

\* The end of the update keeps it: what is deferred is sent if there is a channel.
LEMMA NotifyKeepsInv ==
    ASSUME TypeOK, SessionInv, NotifyOnSessionOpen
    PROVE  SessionInv'
<1> USE DEF SessionInv
<1>0. /\ initialized' /\ updating = "notify" /\ updating' = "no"
      /\ UNCHANGED <<mpPeerConnection, signalTasks, mReliableChannelInterface>>
  BY DEF NotifyOnSessionOpen, InUse, negotiationVars
<1>1. /\ mReliableChannelInterface = "null" =>
           mReliablePackets' = mReliablePackets /\ offered' = offered
      /\ mReliableChannelInterface # "null" =>
           mReliablePackets' = <<>> /\ offered' = offered \o mReliablePackets
      /\ accepted' = accepted
  <2>1. CASE thenFlush
    <3>1. CheckSendDeferredData
      BY <2>1 DEF NotifyOnSessionOpen
    <3> QED
      BY <3>1, DeferredData, Zenon
  <2>2. CASE ~thenFlush
    <3>1. mReliableChannelInterface = "null"
      BY <1>0, <2>2 DEF UpdateFlushes
    <3> QED
      BY <2>2, <3>1 DEF NotifyOnSessionOpen, dataVars
  <2> QED
    BY <2>1, <2>2
<1>2. QuietBeforeInit' /\ InitRunsFirst' /\ CloseHasConnection'
  BY <1>0 DEF QuietBeforeInit, InitRunsFirst, CloseHasConnection
<1>3. ChannelsNeedConnection' /\ UpdateFlushes'
  BY <1>0 DEF ChannelsNeedConnection, UpdateFlushes
<1>4. FlushedWhenOpen'
  BY <1>0, <1>1, Zenon DEF FlushedWhenOpen
<1>5. ReliableInOrder'
  <2>1. CASE mReliableChannelInterface = "null"
    BY <1>1, <2>1, Zenon DEF ReliableInOrder
  <2>2. CASE mReliableChannelInterface # "null"
    <3>1. (offered \o mReliablePackets) \o <<>> = offered \o mReliablePackets
      BY DEF TypeOK, DataTypes
    <3> QED
      BY <1>1, <2>2, <3>1, Zenon DEF ReliableInOrder
  <2> QED
    BY <2>1, <2>2
<1>6. CloseFindsConnection'
  <2>1. crash' \in {crash, "CheckSendDeferredData"}
    BY Zenon DEF NotifyOnSessionOpen, CheckSendDeferredData
  <2> QED
    BY <2>1 DEF CloseFindsConnection
<1> QED
  BY <1>2, <1>3, <1>4, <1>5, <1>6

\* So does a task that leaves those variables alone.
LEMMA RunKeepsInv ==
    ASSUME TypeOK, SessionInv, initialized', UNCHANGED invVars, NEW task, NextTask(task)
    PROVE  SessionInv'
<1> USE DEF SessionInv, invVars
<1>1. InitRunsFirst' /\ CloseHasConnection'
  BY RunKeepsQueue DEF TypeOK
<1>2. QuietBeforeInit'
  BY DEF QuietBeforeInit
<1>3. /\ ChannelsNeedConnection' /\ FlushedWhenOpen' /\ UpdateFlushes'
      /\ ReliableInOrder' /\ CloseFindsConnection'
  BY DEF ChannelsNeedConnection, FlushedWhenOpen, UpdateFlushes, ReliableInOrder,
     CloseFindsConnection
<1> QED
  BY <1>1, <1>2, <1>3

\* SessionInv holds in every reachable state.
THEOREM SessionInvariant == Spec => []SessionInv
<1>1. Init => SessionInv
  <2> SUFFICES ASSUME Init PROVE SessionInv
    OBVIOUS
  <2>1. Len(signalTasks) = 0 /\ accepted = offered \o mReliablePackets
    BY DEF Init
  <2> QED
    BY <2>1 DEF Init, SessionInv, QuietBeforeInit, InitRunsFirst, ChannelsNeedConnection,
       FlushedWhenOpen, UpdateFlushes, ReliableInOrder, CloseHasConnection,
       CloseFindsConnection
<1>2. TypeOK /\ SessionInv /\ [Next]_vars => SessionInv'
  <2> SUFFICES ASSUME TypeOK, SessionInv, [Next]_vars PROVE SessionInv'
    OBVIOUS
  <2>a. {"send", "response", "close", "stats"} \subseteq Tasks
    BY DEF Tasks
  <2>1. CASE InitializeOutgoing
    <3>1. signalTasks = <<>> /\ mpPeerConnection = "null"
      BY <2>1 DEF InitializeOutgoing, SessionInv, QuietBeforeInit
    <3>2. initialized' /\ UNCHANGED invVars
      BY <2>1 DEF InitializeOutgoing, invVars, channelVars, dataVars
    <3>3. signalTasks' = <<"initOutgoing">> \/ signalTasks' = <<>>
      BY <2>1, <3>1 DEF InitializeOutgoing, PostTask
    <3>4. \A i \in 1..Len(signalTasks') : i = 1 /\ signalTasks'[i] = "initOutgoing"
      <4>1. CASE signalTasks' = <<>>
        BY <4>1
      <4>2. CASE signalTasks' = <<"initOutgoing">>
        <5>1. Len(signalTasks') = 1 /\ signalTasks'[1] = "initOutgoing"
          BY <4>2
        <5> QED
          BY <5>1
      <4> QED
        BY <3>3, <4>1, <4>2
    <3>5. QuietBeforeInit' /\ InitRunsFirst' /\ CloseHasConnection'
      BY <3>1, <3>2, <3>4
         DEF QuietBeforeInit, InitRunsFirst, CloseHasConnection, invVars
    <3>6. /\ ChannelsNeedConnection' /\ FlushedWhenOpen' /\ UpdateFlushes'
          /\ ReliableInOrder' /\ CloseFindsConnection'
      BY <3>2 DEF SessionInv, ChannelsNeedConnection, FlushedWhenOpen, UpdateFlushes,
         ReliableInOrder, CloseFindsConnection, invVars
    <3> QED
      BY <3>5, <3>6 DEF SessionInv
  <2>2. CASE InitializeIncoming
    BY <2>2, <2>a, PostKeepsInv DEF InitializeIncoming, invVars, channelVars, dataVars
  <2>3. CASE OnSetRemoteDescriptionComplete
    BY <2>3, <2>a, PostKeepsInv DEF OnSetRemoteDescriptionComplete, OnSignalThread, InUse,
       TrySendSessionResponse, invVars, channelVars, dataVars
  <2>4. CASE AcceptSession
    BY <2>4, <2>a, PostKeepsInv DEF AcceptSession, InUse, TrySendSessionResponse,
       invVars, channelVars, dataVars
  <2>5. CASE ProcessConnectResponse
    BY <2>5, <2>a, PostKeepsInv DEF ProcessConnectResponse, InUse,
       invVars, channelVars, dataVars
  <2>6. CASE RemoteActivity \/ IsDeadSession \/ NameTimeout \/ ProcessError
    BY <2>6, <2>a, PostKeepsInv DEF RemoteActivity, IsDeadSession, NameTimeout, ProcessError,
       InUse, invVars, channelVars, dataVars, negotiationVars
  <2>7. CASE CloseSessionIfInactive
    BY <2>7, <2>a, PostKeepsInv DEF CloseSessionIfInactive, InUse,
       invVars, channelVars, dataVars, negotiationVars
  <2>8. CASE Close
    BY <2>8, <2>a, PostKeepsInv DEF Close, InUse,
       invVars, channelVars, dataVars, negotiationVars
  <2>9. CASE GetSessionState
    BY <2>9, <2>a, PostKeepsInv DEF GetSessionState, InUse,
       invVars, channelVars, dataVars, negotiationVars
  <2>10. CASE OnIceConnectionChange
    BY <2>10, <2>a, PostKeepsInv DEF OnIceConnectionChange, OnSignalThread, InUse,
       invVars, channelVars, dataVars, negotiationVars
  <2>11. ASSUME NEW t, RequestStats(t) PROVE SessionInv'
    BY <2>11, <2>a, PostKeepsInv DEF RequestStats, PostStatsRequest, RecordStatsRequest, InUse,
       invVars, channelVars, dataVars, negotiationVars
  <2>12. CASE SendPacket
    BY <2>12, <2>a, PostKeepsInv DEF SendPacket, InUse,
       invVars, channelVars, dataVars, negotiationVars
  <2>13. CASE OnDataChannel \/ OnDataChannelStateChange
    <3>1. /\ initialized' /\ mpPeerConnection # "null" /\ updating' # "no" /\ thenFlush'
          /\ UNCHANGED <<mpPeerConnection, signalTasks, crash, mReliablePackets, accepted, offered>>
      BY <2>13 DEF OnDataChannel, OnDataChannelStateChange, BeginUpdate, OnSignalThread, InUse,
         negotiationVars, dataVars
    <3> QED
      BY <3>1, UpdateKeepsInv
  <2>14. CASE StoreReliableState \/ StoreUnreliableState
    <3>1. /\ initialized' /\ updating # "no" /\ updating' # "no"
          /\ UNCHANGED <<mpPeerConnection, signalTasks, crash, mReliablePackets, accepted, offered,
                         mReliableChannelInterface, thenFlush>>
      BY <2>14 DEF StoreReliableState, StoreUnreliableState, InUse, negotiationVars, dataVars
    <3>2. mReliableChannelInterface' # "null" => mpPeerConnection # "null" /\ thenFlush'
      BY <3>1 DEF SessionInv, ChannelsNeedConnection, UpdateFlushes
    <3> QED
      BY <3>1, <3>2, UpdateKeepsInv
  <2>15. CASE NotifyOnSessionOpen
    BY <2>15, NotifyKeepsInv
  <2>16. CASE ChannelTransition
    <3>1. UNCHANGED <<initialized, signalTasks, mpPeerConnection, crash, mReliableChannelState,
                      mReliablePackets, accepted, offered, updating, thenFlush>>
      BY <2>16 DEF ChannelTransition, negotiationVars, dataVars
    <3>2. mReliableChannelInterface = "null" => mReliableChannelInterface' = "null"
      BY <2>16 DEF ChannelTransition, Later
    <3> QED
      BY <3>1, <3>2 DEF SessionInv, QuietBeforeInit, InitRunsFirst, ChannelsNeedConnection,
         FlushedWhenOpen, UpdateFlushes, ReliableInOrder, CloseHasConnection,
         CloseFindsConnection
  <2>17. CASE OnIceCandidate \/ SignalSendComplete
    BY <2>17, <2>a, PostKeepsInv DEF OnIceCandidate, SignalSendComplete, OnSignalThread, InUse,
       invVars, channelVars, dataVars, negotiationVars
  <2>18. CASE InitOutgoingTask
    <3>1. NextTask("initOutgoing")
      BY <2>18 DEF InitOutgoingTask
    <3>2. signalTasks[1] = "initOutgoing" /\ 1 \in 1..Len(signalTasks)
      BY <3>1 DEF NextTask, TypeOK, QueueTypes
    <3>3. mpPeerConnection = "null" /\ mReliableChannelInterface = "null"
      BY <3>2 DEF SessionInv, InitRunsFirst, ChannelsNeedConnection
    <3>4. /\ mpPeerConnection' = mpPeerConnection \/ mpPeerConnection' # "null"
          /\ mReliableChannelInterface' = "null"
          /\ initialized'
          /\ crash' # "Close"
          /\ UNCHANGED <<mReliablePackets, accepted, offered>>
      BY <2>18, <3>3, <3>1 DEF InitOutgoingTask, NextTask, OnSignalThread, InUse, SessionInv,
         CloseFindsConnection, channelVars, dataVars, negotiationVars
    <3>5. InitRunsFirst' /\ CloseHasConnection'
      BY <3>1, <3>4, RunKeepsQueue DEF TypeOK, SessionInv
    <3>6. /\ QuietBeforeInit' /\ ChannelsNeedConnection' /\ FlushedWhenOpen' /\ UpdateFlushes'
          /\ ReliableInOrder' /\ CloseFindsConnection'
      BY <3>4 DEF SessionInv, QuietBeforeInit, ChannelsNeedConnection, FlushedWhenOpen,
         UpdateFlushes, ReliableInOrder, CloseFindsConnection
    <3> QED
      BY <3>5, <3>6 DEF SessionInv
  <2>19. CASE SendTask
    <3>1. /\ NextTask("send") /\ initialized' /\ updating = "no"
          /\ UNCHANGED <<mpPeerConnection, mReliableChannelInterface,
                         mReliableChannelState, crash, updating, thenFlush>>
      BY <2>19 DEF SendTask, NextTask, OnSignalThread, InUse, channelVars, negotiationVars
    <3>2. InitRunsFirst' /\ CloseHasConnection'
      BY <3>1, RunKeepsQueue DEF TypeOK, SessionInv
    <3>3. QuietBeforeInit' /\ ChannelsNeedConnection' /\ UpdateFlushes' /\ CloseFindsConnection'
      BY <3>1 DEF SessionInv, QuietBeforeInit, ChannelsNeedConnection, UpdateFlushes,
         CloseFindsConnection
    <3>4. FlushedWhenOpen'
      BY <2>19, <3>1, SendData, Zenon DEF SessionInv, FlushedWhenOpen
    <3>5. ReliableInOrder'
      <4>1. CASE UNCHANGED <<mReliablePackets, accepted, offered>>
        BY <4>1 DEF SessionInv, ReliableInOrder
      <4>2. ASSUME NEW packet \in Packets, accepted' = Append(accepted, packet),
                   mReliablePackets' = Append(mReliablePackets, packet), offered' = offered
            PROVE  ReliableInOrder'
        <5>1. Append(offered \o mReliablePackets, packet)
                = (offered \o mReliablePackets) \o <<packet>>
          BY AppendIsConcat DEF TypeOK, DataTypes
        <5>2. Append(mReliablePackets, packet) = mReliablePackets \o <<packet>>
          BY AppendIsConcat DEF TypeOK, DataTypes
        <5>3. (offered \o mReliablePackets) \o <<packet>>
                = offered \o (mReliablePackets \o <<packet>>)
          BY ConcatAssociative DEF TypeOK, DataTypes
        <5> QED
          BY <4>2, <5>1, <5>2, <5>3, Zenon DEF SessionInv, ReliableInOrder
      <4>3. ASSUME NEW packet \in Packets, accepted' = Append(accepted, packet),
                   mReliableChannelInterface # "null", mReliableChannelState = "open",
                   mReliablePackets' = mReliablePackets, offered' = Append(offered, packet)
            PROVE  ReliableInOrder'
        <5>1. mReliablePackets = <<>>
          BY <3>1, <4>3 DEF SessionInv, FlushedWhenOpen
        <5>2. Append(offered \o <<>>, packet) = Append(offered, packet) \o <<>>
          BY DEF TypeOK, DataTypes
        <5> QED
          BY <4>3, <5>1, <5>2, Zenon DEF SessionInv, ReliableInOrder
      <4> QED
        BY <2>19, <4>1, <4>2, <4>3, SendData, Zenon
    <3> QED
      BY <3>2, <3>3, <3>4, <3>5 DEF SessionInv
  <2>20. CASE ResponseTask
    <3>1. NextTask("response") /\ initialized' /\ UNCHANGED invVars
      BY <2>20 DEF ResponseTask, NextTask, OnSignalThread, InUse, invVars, channelVars, dataVars
    <3> QED
      BY <3>1, RunKeepsInv
  <2>21. CASE CloseTask
    <3>1. NextTask("close")
      BY <2>21 DEF CloseTask
    <3>2. signalTasks[1] = "close" /\ 1 \in 1..Len(signalTasks)
      BY <3>1 DEF NextTask, TypeOK, QueueTypes
    <3>3. mpPeerConnection # "null"
      BY <3>2 DEF SessionInv, CloseHasConnection
    <3>4. /\ mpPeerConnection' # "null" /\ initialized'
          /\ UNCHANGED <<mReliableChannelInterface, mReliableChannelState,
                         mReliablePackets, accepted, offered, crash, updating, thenFlush>>
      BY <2>21, <3>1, <3>3 DEF CloseTask, NextTask, OnSignalThread, InUse, channelVars, dataVars,
         negotiationVars
    <3>5. InitRunsFirst' /\ CloseHasConnection'
      BY <3>1, <3>4, RunKeepsQueue DEF TypeOK, SessionInv
    <3>6. /\ QuietBeforeInit' /\ ChannelsNeedConnection' /\ FlushedWhenOpen' /\ UpdateFlushes'
          /\ ReliableInOrder' /\ CloseFindsConnection'
      BY <3>4 DEF SessionInv, QuietBeforeInit, ChannelsNeedConnection, FlushedWhenOpen,
         UpdateFlushes, ReliableInOrder, CloseFindsConnection
    <3> QED
      BY <3>5, <3>6 DEF SessionInv
  <2>22. CASE StatsTask
    <3>1. NextTask("stats") /\ initialized' /\ UNCHANGED invVars
      BY <2>22 DEF StatsTask, NextTask, OnSignalThread, InUse, invVars, channelVars, dataVars,
         negotiationVars
    <3> QED
      BY <3>1, RunKeepsInv
  <2>23. CASE ShutdownStop \/ ShutdownClear \/ Tick \/ UNCHANGED vars
    <3>1. UNCHANGED <<initialized, signalTasks, mpPeerConnection, crash, mReliableChannelState,
                      mReliableChannelInterface, mReliablePackets, accepted, offered, updating,
                      thenFlush>>
      BY <2>23 DEF ShutdownStop, ShutdownClear, Tick, vars, negotiationVars, channelVars, dataVars
    <3> QED
      BY <3>1 DEF SessionInv, QuietBeforeInit, InitRunsFirst, ChannelsNeedConnection,
         FlushedWhenOpen, UpdateFlushes, ReliableInOrder, CloseHasConnection,
         CloseFindsConnection
  <2> QED
    BY <2>1, <2>2, <2>3, <2>4, <2>5, <2>6, <2>7, <2>8, <2>9, <2>10, <2>11, <2>12, <2>13,
       <2>14, <2>15, <2>16, <2>17, <2>18, <2>19, <2>20, <2>21, <2>22, <2>23
       DEF Next, RunTask, FinishCall, UpdateDataChannelStates
<1> QED
  BY <1>1, <1>2, TypeCorrect, PTL DEF Spec

\* No direct send overtakes a deferred packet and none is lost or repeated: the
\* switch from deferring to sending in OnDataChannel and OnDataChannelStateChange
\* keeps reliable data in the order the send tasks took it.
THEOREM ReliableOrder == Spec => []ReliableInOrder
<1>1. SessionInv => ReliableInOrder
  BY DEF SessionInv
<1> QED
  BY <1>1, SessionInvariant, PTL

\* The connection that Close tested on the caller's thread is still there when
\* its task uses it.
THEOREM CloseIsSafe == Spec => []CloseFindsConnection
<1>1. SessionInv => CloseFindsConnection
  BY DEF SessionInv
<1> QED
  BY <1>1, SessionInvariant, PTL

\* No handler takes a session in use back from ICE processing.
THEOREM NegotiationAdvances == Spec => NegotiationOnlyAdvances
<1>1. [Next]_vars => (initialized /\ mConnNegotiationState = "ICEProcessing"
                        => mConnNegotiationState' = "ICEProcessing")
  BY DEF Next, RunTask, FinishCall, RequestStats, UpdateDataChannelStates, vars,
     InitializeOutgoing, InitializeIncoming, OnSetRemoteDescriptionComplete, AcceptSession,
     ProcessConnectResponse, RemoteActivity, IsDeadSession, NameTimeout, ProcessError,
     CloseSessionIfInactive, Close, GetSessionState, OnIceConnectionChange, PostStatsRequest,
     RecordStatsRequest, SendPacket, OnDataChannel, OnDataChannelStateChange,
     StoreReliableState, StoreUnreliableState, NotifyOnSessionOpen, ChannelTransition,
     OnIceCandidate, SignalSendComplete, InitOutgoingTask, SendTask, ResponseTask, CloseTask,
     StatsTask, ShutdownStop, ShutdownClear, Tick, negotiationVars
<1> QED
  BY <1>1, PTL DEF Spec, NegotiationOnlyAdvances

-----------------------------------------------------------------------------
(* Answering, and the abstract session.                                    *)

ResponseQueued == \E i \in 1..Len(signalTasks) : signalTasks[i] = "response"

\* Nothing is negotiated before the session is initialised.
NoAnswerBeforeInit == ~initialized => remoteDescription = "none" /\ answers = 0

\* A response is tried only by a session that waits for its accept, or whose wait the
\* accept or a ConnectResponse has ended.
ResponseAwaitsAccept ==
    remoteDescription = "pending" \/ ResponseQueued
        => \/ mConnNegotiationState = "WaitingForAccept"
           \/ mConnNegotiationState = "ICEProcessing" /\ agreedBy # {}

\* The inductive invariant behind AnswerAfterAccept.
AnswerInv == NoAnswerBeforeInit /\ ResponseAwaitsAccept /\ AnswerAfterAccept

\* A step that queues no response and leaves the negotiation alone keeps it.
LEMMA QuietKeepsAnswerInv ==
    ASSUME AnswerInv, UNCHANGED negotiationVars, ResponseQueued' => ResponseQueued
    PROVE  AnswerInv'
BY DEF AnswerInv, NoAnswerBeforeInit, ResponseAwaitsAccept, AnswerAfterAccept,
   negotiationVars

\* Posting a task queues a response only when it is one.
LEMMA PostResponse ==
    ASSUME QueueTypes, NEW task \in Tasks, PostTask(task) \/ UNCHANGED signalTasks
    PROVE  ResponseQueued' => ResponseQueued \/ task = "response"
<1>1. CASE UNCHANGED signalTasks
  BY <1>1 DEF ResponseQueued
<1>2. CASE signalTasks' = Append(signalTasks, task)
  <2>1. /\ Len(signalTasks') = Len(signalTasks) + 1 /\ Len(signalTasks) \in Nat
        /\ \A i \in 1..Len(signalTasks) : signalTasks'[i] = signalTasks[i]
        /\ signalTasks'[Len(signalTasks) + 1] = task
    BY <1>2 DEF QueueTypes
  <2>2. \A i \in 1..Len(signalTasks') : i \in 1..Len(signalTasks) \/ signalTasks'[i] = task
    BY <2>1
  <2> QED
    BY <2>1, <2>2 DEF ResponseQueued
<1> QED
  BY <1>1, <1>2 DEF PostTask

\* Running a task queues none.
LEMMA RunResponse ==
    ASSUME QueueTypes, NEW task, NextTask(task)
    PROVE  ResponseQueued' => ResponseQueued
<1>1. /\ Len(signalTasks) \in Nat
      /\ Len(signalTasks') = Len(signalTasks) - 1
      /\ \A i \in 1..Len(signalTasks') : signalTasks'[i] = signalTasks[i + 1]
  BY DEF QueueTypes, NextTask
<1>2. \A i \in 1..Len(signalTasks') : i + 1 \in 1..Len(signalTasks)
  BY <1>1
<1> QED
  BY <1>1, <1>2 DEF ResponseQueued

\* AnswerInv holds in every reachable state.
THEOREM AnswerInvariant == Spec => []AnswerInv
<1>1. Init => AnswerInv
  <2> SUFFICES ASSUME Init PROVE AnswerInv
    OBVIOUS
  <2>1. Len(signalTasks) = 0
    BY DEF Init
  <2>2. ~ResponseQueued
    BY <2>1 DEF ResponseQueued
  <2> QED
    BY <2>2 DEF Init, AnswerInv, NoAnswerBeforeInit, ResponseAwaitsAccept, AnswerAfterAccept
<1>2. TypeOK /\ SessionInv /\ AnswerInv /\ [Next]_vars => AnswerInv'
  <2> SUFFICES ASSUME TypeOK, SessionInv, AnswerInv, [Next]_vars PROVE AnswerInv'
    OBVIOUS
  <2>a. Tasks = {"initOutgoing", "send", "response", "close", "stats"} /\ QueueTypes
    BY DEF Tasks, TypeOK
  <2>b. ~initialized => ~ResponseQueued
    <3>1. Len(<<>>) = 0
      OBVIOUS
    <3> QED
      BY <3>1 DEF SessionInv, QuietBeforeInit, ResponseQueued
  <2>1. CASE InitializeOutgoing
    <3>1. ~ResponseQueued'
      BY <2>1, <2>a, <2>b, PostResponse DEF InitializeOutgoing
    <3> QED
      BY <2>1, <3>1 DEF InitializeOutgoing, AnswerInv, NoAnswerBeforeInit,
         ResponseAwaitsAccept, AnswerAfterAccept
  <2>2. CASE InitializeIncoming
    <3>1. ~ResponseQueued'
      BY <2>2, <2>b DEF InitializeIncoming, ResponseQueued
    <3> QED
      BY <2>2, <3>1 DEF InitializeIncoming, AnswerInv, NoAnswerBeforeInit,
         ResponseAwaitsAccept, AnswerAfterAccept
  <2>3. CASE OnSetRemoteDescriptionComplete
    BY <2>3 DEF OnSetRemoteDescriptionComplete, OnSignalThread, InUse, AnswerInv,
       NoAnswerBeforeInit, ResponseAwaitsAccept, AnswerAfterAccept
  <2>4. CASE AcceptSession
    <3>1. CASE mConnNegotiationState = "WaitingForAccept"
      BY <2>4, <3>1 DEF AcceptSession, InUse, AnswerInv, NoAnswerBeforeInit,
         ResponseAwaitsAccept, AnswerAfterAccept
    <3>2. CASE mConnNegotiationState # "WaitingForAccept"
      BY <2>4, <3>2, QuietKeepsAnswerInv DEF AcceptSession, negotiationVars, ResponseQueued
    <3> QED
      BY <3>1, <3>2
  <2>5. CASE ProcessConnectResponse
    BY <2>5 DEF ProcessConnectResponse, InUse, AnswerInv, NoAnswerBeforeInit,
       ResponseAwaitsAccept, AnswerAfterAccept
  <2>6. CASE CloseSessionIfInactive \/ Close
    <3>1. ResponseQueued' => ResponseQueued
      BY <2>6, <2>a, PostResponse DEF CloseSessionIfInactive, Close
    <3> QED
      BY <2>6, <3>1, QuietKeepsAnswerInv DEF CloseSessionIfInactive, Close
  <2>7. ASSUME NEW t, RequestStats(t) PROVE AnswerInv'
    <3>1. ResponseQueued' => ResponseQueued
      BY <2>7, <2>a, PostResponse DEF RequestStats, PostStatsRequest, RecordStatsRequest
    <3> QED
      BY <2>7, <3>1, QuietKeepsAnswerInv DEF RequestStats, PostStatsRequest, RecordStatsRequest
  <2>8. CASE SendPacket
    <3>1. ResponseQueued' => ResponseQueued
      BY <2>8, <2>a, PostResponse DEF SendPacket
    <3> QED
      BY <2>8, <3>1, QuietKeepsAnswerInv DEF SendPacket
  <2>9. CASE \/ RemoteActivity \/ IsDeadSession \/ NameTimeout \/ ProcessError \/ GetSessionState
             \/ OnIceConnectionChange \/ OnDataChannel \/ OnDataChannelStateChange
             \/ ChannelTransition \/ OnIceCandidate \/ SignalSendComplete
             \/ UpdateDataChannelStates \/ ShutdownStop \/ ShutdownClear \/ Tick
             \/ UNCHANGED vars
    <3>1. UNCHANGED <<signalTasks, negotiationVars>>
      BY <2>9 DEF RemoteActivity, IsDeadSession, NameTimeout, ProcessError, GetSessionState,
         OnIceConnectionChange, OnDataChannel, OnDataChannelStateChange, ChannelTransition,
         OnIceCandidate, SignalSendComplete, UpdateDataChannelStates, StoreReliableState,
         StoreUnreliableState, NotifyOnSessionOpen, ShutdownStop, ShutdownClear, Tick, vars
    <3> QED
      BY <3>1, QuietKeepsAnswerInv DEF ResponseQueued
  <2>10. CASE InitOutgoingTask \/ SendTask \/ CloseTask \/ StatsTask
    <3>1. ResponseQueued' => ResponseQueued
      BY <2>10, <2>a, RunResponse DEF InitOutgoingTask, SendTask, CloseTask, StatsTask
    <3> QED
      BY <2>10, <3>1, QuietKeepsAnswerInv DEF InitOutgoingTask, SendTask, CloseTask, StatsTask
  <2>11. CASE ResponseTask
    <3>1. ResponseQueued' => ResponseQueued
      BY <2>11, <2>a, RunResponse DEF ResponseTask
    <3>2. ResponseQueued
      <4>1. 1 \in 1..Len(signalTasks) /\ signalTasks[1] = "response"
        BY <2>11, <2>a DEF ResponseTask, NextTask, QueueTypes
      <4> QED
        BY <4>1 DEF ResponseQueued
    <3> QED
      BY <2>11, <3>1, <3>2 DEF ResponseTask, NextTask, OnSignalThread, InUse, AnswerInv,
         NoAnswerBeforeInit, ResponseAwaitsAccept, AnswerAfterAccept
  <2> QED
    BY <2>1, <2>2, <2>3, <2>4, <2>5, <2>6, <2>7, <2>8, <2>9, <2>10, <2>11
       DEF Next, RunTask, FinishCall
<1> QED
  BY <1>1, <1>2, TypeCorrect, SessionInvariant, PTL DEF Spec

\* The response that is first tried when the remote description is set is not sent
\* before the application's accept, or a ConnectResponse, has ended the wait, in
\* whichever order these happen.
THEOREM AnswerWaits == Spec => []AnswerAfterAccept
<1>1. AnswerInv => AnswerAfterAccept
  BY DEF AnswerInv
<1> QED
  BY <1>1, AnswerInvariant, PTL

\* The variables that the abstract session's are made of.
mappedVars == <<initialized, mConnNegotiationState, mpPeerConnection, answers,
                mReliablePackets, offered>>

\* The end of an update is one flush of the abstract session, or nothing when there is
\* no reliable channel or no packet.
LEMMA FlushRefines ==
    ASSUME TypeOK, SessionInv, NotifyOnSessionOpen
    PROVE  Contract!Flush \/ UNCHANGED Contract!contractVars
<1>0. /\ UNCHANGED <<initialized, mConnNegotiationState, mpPeerConnection, answers>>
      /\ updating # "no"
  BY DEF NotifyOnSessionOpen, negotiationVars
<1>1. CASE ~thenFlush \/ mReliableChannelInterface = "null" \/ mReliablePackets = <<>>
  <2>1. offered \o <<>> = offered
    BY DEF TypeOK, DataTypes
  <2>2. CheckSendDeferredData => UNCHANGED <<mReliablePackets, offered>> \/ ~thenFlush
    BY <1>1, <2>1, DeferredData, Zenon
  <2>3. UNCHANGED <<mReliablePackets, offered>>
    BY <2>2 DEF NotifyOnSessionOpen, dataVars
  <2> QED
    BY <1>0, <2>3 DEF Contract!contractVars
<1>2. CASE thenFlush /\ mReliableChannelInterface # "null" /\ mReliablePackets # <<>>
  <2>1. mpPeerConnection # "null"
    BY <1>2 DEF SessionInv, ChannelsNeedConnection
  <2>2. CheckSendDeferredData
    BY <1>2 DEF NotifyOnSessionOpen
  <2>3. mReliablePackets' = <<>> /\ offered' = offered \o mReliablePackets
    BY <1>2, <2>2, DeferredData, Zenon
  <2> QED
    BY <1>0, <1>2, <2>1, <2>3 DEF Contract!Flush
<1> QED
  BY <1>1, <1>2

\* Every step of a session is a step of the abstract session or leaves it alone.
LEMMA StepRefines ==
    ASSUME TypeOK, SessionInv, AnswerInv, [Next]_vars
    PROVE  [Contract!Next]_Contract!contractVars
<1>1. CASE InitializeOutgoing \/ InitializeIncoming
  <2>1. /\ ~initialized /\ initialized'
        /\ UNCHANGED <<mpPeerConnection, answers, mReliablePackets, offered>>
    BY <1>1 DEF InitializeOutgoing, InitializeIncoming, dataVars
  <2>2. Contract!Begin
    BY <2>1 DEF Contract!Begin
  <2> QED
    BY <2>2 DEF Contract!Next
<1>2. CASE AcceptSession \/ ProcessConnectResponse
  <2>1. /\ initialized /\ initialized'
        /\ mConnNegotiationState' = "ICEProcessing"
             \/ mConnNegotiationState' = mConnNegotiationState
        /\ UNCHANGED <<mpPeerConnection, answers, mReliablePackets, offered>>
    BY <1>2 DEF AcceptSession, ProcessConnectResponse, InUse, dataVars
  <2>2. Contract!Agree \/ UNCHANGED Contract!contractVars
    BY <2>1 DEF Contract!Agree, Contract!contractVars
  <2> QED
    BY <2>2 DEF Contract!Next
<1>3. CASE NotifyOnSessionOpen
  BY <1>3, FlushRefines DEF Contract!Next
<1>5. CASE InitOutgoingTask
  <2>1. signalTasks[1] = "initOutgoing" /\ 1 \in 1..Len(signalTasks)
    BY <1>5 DEF InitOutgoingTask, NextTask, TypeOK, QueueTypes
  <2>2. mpPeerConnection = "null"
    BY <2>1 DEF SessionInv, InitRunsFirst
  <2>3. /\ initialized
        /\ mpPeerConnection' = mpPeerConnection \/ mpPeerConnection' = "live"
        /\ UNCHANGED <<initialized, mConnNegotiationState, answers, mReliablePackets, offered>>
    BY <1>5 DEF InitOutgoingTask, NextTask, OnSignalThread, InUse, negotiationVars, dataVars
  <2>4. Contract!Connect \/ UNCHANGED Contract!contractVars
    BY <2>2, <2>3 DEF Contract!Connect, Contract!contractVars
  <2> QED
    BY <2>4 DEF Contract!Next
<1>6. CASE SendTask
  <2>1. UNCHANGED <<initialized, mConnNegotiationState, mpPeerConnection, answers>>
    BY <1>6 DEF SendTask, negotiationVars
  <2>2. CASE UNCHANGED <<mReliablePackets, offered>>
    BY <2>1, <2>2 DEF Contract!contractVars
  <2>3. CASE ~UNCHANGED <<mReliablePackets, offered>>
    <3>1. mpPeerConnection # "null" /\ updating = "no"
      BY <1>6, <2>3 DEF SendTask, NextTask, OnSignalThread, dataVars
    <3>2. PICK packet \in Packets :
              \/ mReliablePackets' = Append(mReliablePackets, packet) /\ offered' = offered
              \/ /\ mReliableChannelInterface # "null" /\ mReliableChannelState = "open"
                 /\ mReliablePackets' = mReliablePackets
                 /\ offered' = Append(offered, packet)
      BY <1>6, <2>3, SendData, Zenon
    <3>3. mReliableChannelInterface # "null" /\ mReliableChannelState = "open"
            => mReliablePackets = <<>>
      BY <3>1 DEF SessionInv, FlushedWhenOpen
    <3>4. Contract!Send(packet)
      BY <2>1, <3>1, <3>2, <3>3, Zenon DEF Contract!Send
    <3> QED
      BY <3>4 DEF Contract!Next
  <2> QED
    BY <2>2, <2>3
<1>7. CASE ResponseTask
  <2>1. ResponseQueued
    <3>1. 1 \in 1..Len(signalTasks) /\ signalTasks[1] = "response"
      BY <1>7 DEF ResponseTask, NextTask, TypeOK, QueueTypes
    <3> QED
      BY <3>1 DEF ResponseQueued
  <2>2. mConnNegotiationState \in {"WaitingForAccept", "ICEProcessing"}
    BY <2>1 DEF AnswerInv, ResponseAwaitsAccept
  <2>3. /\ initialized
        /\ \/ UNCHANGED answers
           \/ mConnNegotiationState # "WaitingForAccept" /\ answers' = answers + 1
        /\ UNCHANGED <<initialized, mConnNegotiationState, mpPeerConnection,
                       mReliablePackets, offered>>
    BY <1>7 DEF ResponseTask, NextTask, OnSignalThread, InUse, dataVars
  <2>4. CASE UNCHANGED answers
    BY <2>3, <2>4 DEF Contract!contractVars
  <2>5. CASE mConnNegotiationState # "WaitingForAccept" /\ answers' = answers + 1
    <3>1. answers' > 0
      BY <2>5 DEF TypeOK, StateTypes
    <3>2. Contract!Answer
      BY <2>2, <2>3, <2>5, <3>1 DEF Contract!Answer
    <3> QED
      BY <3>2 DEF Contract!Next
  <2> QED
    BY <2>3, <2>4, <2>5
<1>8. CASE CloseTask
  <2>1. signalTasks[1] = "close" /\ 1 \in 1..Len(signalTasks)
    BY <1>8 DEF CloseTask, NextTask, TypeOK, QueueTypes
  <2>2. mpPeerConnection \in {"live", "closed"}
    BY <2>1 DEF SessionInv, CloseHasConnection, TypeOK, StateTypes
  <2>3. /\ mpPeerConnection' = "closed"
        /\ UNCHANGED <<initialized, mConnNegotiationState, answers, mReliablePackets, offered>>
    BY <1>8, <2>2 DEF CloseTask, negotiationVars, dataVars
  <2>4. Contract!Disconnect \/ UNCHANGED Contract!contractVars
    BY <2>2, <2>3 DEF Contract!Disconnect, Contract!contractVars
  <2> QED
    BY <2>4 DEF Contract!Next
<1>9. CASE \/ OnSetRemoteDescriptionComplete \/ RemoteActivity \/ IsDeadSession \/ NameTimeout
           \/ ProcessError \/ CloseSessionIfInactive \/ Close \/ GetSessionState
           \/ OnIceConnectionChange \/ RequestStats("application") \/ RequestStats("signal")
           \/ SendPacket \/ OnDataChannel \/ OnDataChannelStateChange \/ StoreReliableState
           \/ StoreUnreliableState \/ ChannelTransition \/ OnIceCandidate \/ SignalSendComplete
           \/ StatsTask \/ ShutdownStop \/ ShutdownClear \/ Tick \/ UNCHANGED vars
  <2>1. UNCHANGED mappedVars
    BY <1>9 DEF mappedVars, OnSetRemoteDescriptionComplete, RemoteActivity, IsDeadSession,
       NameTimeout, ProcessError, CloseSessionIfInactive, Close, GetSessionState,
       OnIceConnectionChange, RequestStats, PostStatsRequest, RecordStatsRequest, SendPacket,
       OnDataChannel, OnDataChannelStateChange, StoreReliableState, StoreUnreliableState,
       ChannelTransition, OnIceCandidate, SignalSendComplete, StatsTask, ShutdownStop,
       ShutdownClear, Tick, vars, negotiationVars, dataVars
  <2> QED
    BY <2>1 DEF mappedVars, Contract!contractVars
<1> QED
  BY <1>1, <1>2, <1>3, <1>5, <1>6, <1>7, <1>8, <1>9
     DEF Next, RunTask, FinishCall, UpdateDataChannelStates

\* The session, with its tasks, callbacks and deferred data, implements the abstract
\* session: what the application can rely on holds in every interleaving.
THEOREM SessionImplementsContract == Spec => ImplementsContract
<1>1. Init => Contract!Init
  BY DEF Init, Contract!Init
<1>2. TypeOK /\ SessionInv /\ AnswerInv /\ [Next]_vars
        => [Contract!Next]_Contract!contractVars
  BY StepRefines
<1> QED
  BY <1>1, <1>2, TypeCorrect, SessionInvariant, AnswerInvariant, PTL
     DEF Spec, ImplementsContract, Contract!Spec

-----------------------------------------------------------------------------
(* What the application is told, and statistics.                           *)

\* Between two updates the cached states say "both open" only after the application
\* was told so.
CacheImpliesOpened ==
    mpPeerConnection # "null" /\ updating = "no" /\ mReliableChannelState = "open"
        /\ mUnreliableChannelState = "open" => opened

\* Outside UpdateDataChannelStates' stores and their notification, GetSessionState
\* reports an active connection only after OnSessionOpen, in whichever order the
\* callbacks of the two channels came.
THEOREM ActiveAfterOpen == Spec => []ActiveImpliesOpened
<1>1. Init => CacheImpliesOpened
  BY DEF Init, CacheImpliesOpened
<1>2. CacheImpliesOpened /\ [Next]_vars => CacheImpliesOpened'
  <2> SUFFICES ASSUME CacheImpliesOpened, [Next]_vars
               PROVE  CacheImpliesOpened'
    OBVIOUS
  <2>1. CASE OnDataChannel \/ OnDataChannelStateChange \/ StoreReliableState \/ StoreUnreliableState
    <3>1. updating' # "no"
      BY <2>1 DEF OnDataChannel, OnDataChannelStateChange, BeginUpdate, StoreReliableState,
         StoreUnreliableState
    <3> QED
      BY <3>1 DEF CacheImpliesOpened
  <2>2. CASE NotifyOnSessionOpen
    BY <2>2 DEF NotifyOnSessionOpen, CacheImpliesOpened
  <2>3. CASE InitOutgoingTask
    <3>1. UNCHANGED <<mpPeerConnection, channelVars>> \/ updating' # "no"
      BY <2>3 DEF InitOutgoingTask, BeginUpdate
    <3> QED
      BY <3>1 DEF channelVars, CacheImpliesOpened
  <2>4. CASE CloseTask
    <3>1. /\ mpPeerConnection = "null" => mpPeerConnection' = "null"
          /\ UNCHANGED channelVars
      BY <2>4 DEF CloseTask
    <3> QED
      BY <3>1 DEF channelVars, CacheImpliesOpened
  <2>5. CASE ~(\/ OnDataChannel \/ OnDataChannelStateChange \/ UpdateDataChannelStates
               \/ InitOutgoingTask \/ CloseTask)
    <3>1. UNCHANGED <<mpPeerConnection, mReliableChannelState, mUnreliableChannelState, opened,
                      updating>>
      BY <2>5 DEF Next, RunTask, FinishCall, RequestStats, vars, InitializeOutgoing,
         InitializeIncoming, OnSetRemoteDescriptionComplete, AcceptSession,
         ProcessConnectResponse, RemoteActivity, IsDeadSession, NameTimeout, ProcessError,
         CloseSessionIfInactive, Close, GetSessionState, OnIceConnectionChange,
         PostStatsRequest, RecordStatsRequest, SendPacket, ChannelTransition, OnIceCandidate,
         SignalSendComplete, SendTask, ResponseTask, StatsTask, ShutdownStop, ShutdownClear,
         Tick, channelVars
    <3> QED
      BY <3>1 DEF CacheImpliesOpened
  <2> QED
    BY <2>1, <2>2, <2>3, <2>4, <2>5 DEF UpdateDataChannelStates
<1>3. CacheImpliesOpened => ActiveImpliesOpened
  BY DEF CacheImpliesOpened, ActiveImpliesOpened, ConnectionActive
<1> QED
  BY <1>1, <1>2, <1>3, PTL DEF Spec

\* A thread that has asked once is about to record it or finds it recorded, and one
\* that is about to ask has not asked before.
AsksOnce(t) ==
    /\ statsRequests[t] \in {0, 1}
    /\ statsRequests[t] = 1 => statsCall[t] = "set" \/ mStatsRequestInProgress
    /\ statsCall[t] = "post" => statsRequests[t] = 0

\* GetSessionState on an application's thread and OnIceConnectionChange on the signal
\* thread may both ask for statistics, as the flag is set after the post, and each does
\* so at most once in the life of the session.
THEOREM StatsOncePerThread == Spec => []OneStatsRequestPerThread
<1> DEFINE Inv == \A t \in StatsThreads : AsksOnce(t)
<1>1. Init => Inv
  BY DEF Init, AsksOnce
<1>2. TypeOK /\ Inv /\ [Next]_vars => Inv'
  <2> SUFFICES ASSUME TypeOK, Inv, [Next]_vars, NEW s \in StatsThreads PROVE AsksOnce(s)'
    OBVIOUS
  <2>0. AsksOnce(s) /\ StatsTypes
    BY DEF TypeOK
  <2>1. ASSUME NEW t \in StatsThreads, statsCall[t] = "idle", CheckUpdateStats(t),
               UNCHANGED <<mStatsRequestInProgress, statsRequests>>
        PROVE  AsksOnce(s)'
    BY <2>0, <2>1 DEF AsksOnce, CheckUpdateStats, StatsTypes
  <2>2. CASE GetSessionState
    BY <2>1, <2>2 DEF GetSessionState, StatsThreads
  <2>3. CASE OnIceConnectionChange
    <3>1. CASE UNCHANGED statsCall
      BY <2>0, <2>3, <3>1 DEF OnIceConnectionChange, AsksOnce
    <3>2. CASE CheckUpdateStats("signal")
      BY <2>1, <2>3, <3>2 DEF OnIceConnectionChange, OnSignalThread, StatsThreads
    <3> QED
      BY <2>3, <3>1, <3>2 DEF OnIceConnectionChange
  <2>4. ASSUME NEW t \in StatsThreads, PostStatsRequest(t) PROVE AsksOnce(s)'
    <3>1. AsksOnce(t)
      OBVIOUS
    <3> QED
      BY <2>0, <2>4, <3>1 DEF PostStatsRequest, AsksOnce, StatsTypes
  <2>5. ASSUME NEW t \in StatsThreads, RecordStatsRequest(t) PROVE AsksOnce(s)'
    BY <2>0, <2>5 DEF RecordStatsRequest, AsksOnce, StatsTypes
  <2>6. CASE ~(\/ GetSessionState \/ OnIceConnectionChange
               \/ \E t \in StatsThreads : RequestStats(t))
    <3>1. UNCHANGED <<mStatsRequestInProgress, statsCall, statsRequests>>
      BY <2>6 DEF Next, RunTask, FinishCall, UpdateDataChannelStates, vars, StatsThreads,
         InitializeOutgoing, InitializeIncoming, OnSetRemoteDescriptionComplete, AcceptSession,
         ProcessConnectResponse, RemoteActivity, IsDeadSession, NameTimeout, ProcessError,
         CloseSessionIfInactive, Close, SendPacket, OnDataChannel, OnDataChannelStateChange,
         StoreReliableState, StoreUnreliableState, NotifyOnSessionOpen, ChannelTransition,
         OnIceCandidate, SignalSendComplete, InitOutgoingTask, SendTask, ResponseTask,
         CloseTask, StatsTask, ShutdownStop, ShutdownClear, Tick, statsVars
    <3> QED
      BY <2>0, <3>1 DEF AsksOnce
  <2> QED
    BY <2>2, <2>3, <2>4, <2>5, <2>6 DEF RequestStats
<1>3. Inv => OneStatsRequestPerThread
  BY DEF AsksOnce, OneStatsRequestPerThread
<1> QED
  BY <1>1, <1>2, <1>3, TypeCorrect, PTL DEF Spec

-----------------------------------------------------------------------------
(* Initialisation and Close, through the queue.                            *)

\* An outgoing session gets its peer connection before any other task runs, or has no
\* running thread to get it from: what is posted to it meanwhile waits behind its
\* initialisation, also while the thread quits.
THEOREM InitializationFirst == Spec => []InitializedBeforeUse
<1>1. Init => InitializedBeforeUse
  BY DEF Init, InitializedBeforeUse
<1>2. ASSUME TypeOK, SessionInv, InitializedBeforeUse, [Next]_vars PROVE InitializedBeforeUse'
  <2> DEFINE Goal == IF signalTasks' = <<>> THEN mThread' # "running"
                                            ELSE signalTasks'[1] = "initOutgoing"
  <2> SUFFICES ASSUME initialized', mIsOutGoingSession', mpPeerConnection' = "null", crash' = "no"
               PROVE  Goal
    BY DEF InitializedBeforeUse
  <2>1. CASE InitializeOutgoing
    <3>1. signalTasks = <<>>
      BY <1>2, <2>1 DEF InitializeOutgoing, SessionInv, QuietBeforeInit
    <3> QED
      BY <2>1, <3>1 DEF InitializeOutgoing, PostTask, sideVars
  <2>2. CASE ~InitializeOutgoing
    <3>1. /\ UNCHANGED <<initialized, mIsOutGoingSession>> /\ mpPeerConnection = "null"
          /\ crash = "no"
      BY <1>2, <2>2 DEF Next, RunTask, FinishCall, RequestStats, UpdateDataChannelStates,
         NextTask, OnSignalThread, InUse, vars, InitializeIncoming,
         OnSetRemoteDescriptionComplete, AcceptSession, ProcessConnectResponse, RemoteActivity,
         IsDeadSession, NameTimeout, ProcessError, CloseSessionIfInactive, Close,
         GetSessionState, OnIceConnectionChange, PostStatsRequest, RecordStatsRequest,
         SendPacket, OnDataChannel, OnDataChannelStateChange, StoreReliableState,
         StoreUnreliableState, NotifyOnSessionOpen, ChannelTransition, OnIceCandidate,
         SignalSendComplete, InitOutgoingTask, SendTask, ResponseTask, CloseTask, StatsTask,
         ShutdownStop, ShutdownClear, Tick, negotiationVars
    <3>2. mThread # "running" => mThread' # "running"
      BY <1>2, <2>2 DEF Next, RunTask, FinishCall, RequestStats, UpdateDataChannelStates,
         vars, InitializeIncoming, OnSetRemoteDescriptionComplete, AcceptSession,
         ProcessConnectResponse, RemoteActivity, IsDeadSession, NameTimeout, ProcessError,
         CloseSessionIfInactive, Close, GetSessionState, OnIceConnectionChange,
         PostStatsRequest, RecordStatsRequest, SendPacket, OnDataChannel,
         OnDataChannelStateChange, StoreReliableState, StoreUnreliableState,
         NotifyOnSessionOpen, ChannelTransition, OnIceCandidate, SignalSendComplete,
         InitOutgoingTask, SendTask, ResponseTask, CloseTask, StatsTask, ShutdownStop,
         ShutdownClear, Tick, sideVars
    <3>3. /\ IF signalTasks = <<>> THEN mThread # "running" ELSE signalTasks[1] = "initOutgoing"
          /\ signalTasks \in Seq(Tasks)
      BY <1>2, <3>1 DEF InitializedBeforeUse, TypeOK, QueueTypes
    <3>4. CASE UNCHANGED signalTasks
      BY <3>2, <3>3, <3>4
    <3>5. ASSUME NEW task \in Tasks, mThread = "running", signalTasks' = Append(signalTasks, task)
          PROVE  Goal
      BY <3>3, <3>5
    <3>6. CASE RunTask /\ signalTasks # <<>>
      <4>0. Head(signalTasks) = "initOutgoing"
        BY <3>3, <3>6
      <4>1. InitOutgoingTask
        BY <3>6, <4>0 DEF RunTask, SendTask, ResponseTask, CloseTask, StatsTask, NextTask
      <4> QED
        BY <4>1 DEF InitOutgoingTask
    <3> QED
      BY <1>2, <3>4, <3>5, <3>6, QueueSteps
  <2> QED
    BY <2>1, <2>2
<1> QED
  BY <1>1, <1>2, TypeCorrect, SessionInvariant, PTL DEF Spec

\* A Close that was posted stays in its place or moves up until it has closed the
\* connection: the part of CloseTakesEffect that needs no fairness.
THEOREM CloseAdvances == Spec => CloseMovesUp
<1>1. ASSUME TypeOK, SessionInv, [Next]_vars,
             NEW i \in 1..Len(signalTasks), signalTasks[i] = "close"
      PROVE  \/ \E j \in {i - 1, i} \cap (1..Len(signalTasks')) : signalTasks'[j] = "close"
             \/ mpPeerConnection' = "closed"
  <2>0. signalTasks \in Seq(Tasks) /\ Len(signalTasks) \in Nat
    BY <1>1 DEF TypeOK, QueueTypes
  <2>1. CASE UNCHANGED signalTasks
    BY <1>1, <2>1
  <2>2. ASSUME NEW task \in Tasks, signalTasks' = Append(signalTasks, task)
        PROVE  i \in 1..Len(signalTasks') /\ signalTasks'[i] = "close"
    BY <1>1, <2>0, <2>2
  <2>3. CASE RunTask /\ signalTasks # <<>> /\ signalTasks' = Tail(signalTasks)
    <3>1. CASE i = 1
      <4>0. Head(signalTasks) = "close"
        BY <1>1, <2>0, <3>1
      <4>1. CloseTask
        BY <2>3, <4>0 DEF RunTask, InitOutgoingTask, SendTask, ResponseTask,
           StatsTask, NextTask
      <4>2. mpPeerConnection # "null"
        BY <1>1 DEF SessionInv, CloseHasConnection
      <4> QED
        BY <4>1, <4>2 DEF CloseTask
    <3>2. CASE i # 1
      <4>1. i - 1 \in 1..Len(signalTasks') /\ signalTasks'[i - 1] = signalTasks[i]
        BY <2>0, <2>3, <3>2
      <4> QED
        BY <1>1, <4>1
    <3> QED
      BY <3>1, <3>2
  <2> QED
    BY <1>1, <2>1, <2>2, <2>3, QueueSteps
<1>2. TypeOK /\ SessionInv /\ [Next]_vars =>
        \A i \in 1..Len(signalTasks) : signalTasks[i] = "close" =>
          \/ \E j \in {i - 1, i} \cap (1..Len(signalTasks')) : signalTasks'[j] = "close"
          \/ mpPeerConnection' = "closed"
  BY <1>1
<1> QED
  BY <1>2, TypeCorrect, SessionInvariant, PTL DEF Spec, CloseMovesUp

-----------------------------------------------------------------------------
\* Truncating the elapsed time to whole minutes before comparing it with one makes
\* two whole minutes the limit: a session is inactive from 2 * Minute on, and never
\* earlier, however long a minute is in ticks and whenever its last activity was.
THEOREM InactivityLimit ==
    TimeTypes => (IsInactiveSession <=> now - mLastSessionActivity >= 2 * Minute)
<1> SUFFICES ASSUME TimeTypes PROVE IsInactiveSession <=> now - mLastSessionActivity >= 2 * Minute
  OBVIOUS
<1> DEFINE d == now - mLastSessionActivity
           q == d \div Minute
<1>1. d \in Int /\ Minute \in Nat \ {0}
  BY SessionConstants DEF TimeTypes
<1> HIDE DEF d
<1>2. q \in Int /\ Minute * q <= d /\ d < Minute * (q + 1)
  BY <1>1
<1> HIDE DEF q
<1>3. ASSUME q > 1 PROVE d >= 2 * Minute
  BY <1>1, <1>2, <1>3
<1>4. ASSUME q <= 1 PROVE d < 2 * Minute
  BY <1>1, <1>2, <1>4
<1> QED
  BY <1>1, <1>2, <1>3, <1>4 DEF IsInactiveSession, d, q
=============================================================================
