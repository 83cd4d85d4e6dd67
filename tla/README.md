# NetherNet in TLA+

A verification project for the NetherNet transport library
(`src/NetherNet/NetherNet`): peer-to-peer game sessions over WebRTC data
channels, negotiated through a signaling service or over the local network.
The TLA+ modules are translated from the C++ source; TLC checks small
instances, TLAPS proves the theorems for every value of the constants.

## 1. The system

The library runs on several threads: the application's threads, which call
`SimpleNetworkInterfaceImpl`; a *signal thread*, an `rtc::Thread` with a task
queue, which also delivers the WebRTC callbacks; a worker thread; and the
*LAN thread*, another `rtc::Thread`. Nearly every operation does a part of its
work on the caller's thread and posts the rest. Posted lambdas mostly capture
by reference. Those two facts make the code hard to test, and the models keep
both.

| Component | State | Operations | Interacts with |
|---|---|---|---|
| `NetworkSession` | negotiation state and timer, peer connection, two data channels with cached states, two lists of deferred packets, ICE state, activity time, statistics flag | `InitializeIncoming/Outgoing`, `AcceptSession`, `SendPacket`, `Close`, `GetSessionState`, `IsDeadSession`, `ProcessSignal`, WebRTC callbacks | posts tasks to the signal thread, reports to the application through `NotifyOnSessionClose/Open` |
| `NetworkSessionManager` | table id -> session, packet data, `mSessionCreationMutex` | lookup with removal of dead sessions, initiate incoming/outgoing, accept, close, send | called under `mApiLevelMutex` by the interface, without it by the signal thread |
| `SimpleNetworkInterfaceImpl` | `mApiLevelMutex`, RTC configuration, signaling interface, LAN switch, callbacks | the public API, `ReceiveFromSignalingChannel`, `SendToSignalingChannel`, configuration, sign-in and sign-out | all of the others |
| `LanThreadManager` | ids to broadcast for, discovered addresses, network manager, socket | enable/disable/query discovery, broadcast task, packets, signaling messages | own task queue; reads and writes the peer table |
| `PeerRecordTable` | two maps, one of them behind a lock | `Find`, `Contains`, `AddOrUpdate`, `RemoveExpiredRecords` | LAN thread, and any thread that asks `IsNetworkIdOnLan` |
| `WebSocket` | handle, `mOperationGuard` | connect, send, disconnect | libHttpClient, which counts references on handles; called through `WebSocketSignalingInterfaceImpl` |
| `RtcThreadManager` | atomic pointer to a thread | initialise, load, shut down | everybody who posts |
| `OpenSSLAesAdapter`, `AesContext` | key, one output buffer | set key, send (seal), receive (open) | the LAN thread's socket |
| `DnsCache` (`AsyncResolverFactory`) | map host and family -> addresses, expiration | `TryGet`, `Add` | resolver |
| `Controller` | shared thread state and condition variable | run, stop, suspend | nothing constructs it |
| discovery packets, signaling messages | none of their own | encode, decode | LAN thread, interface |

What is hard here: a value tested on one thread and used by a task on another
(the peer connection in `Close`, the record in `FilterDeadSession`, the
negotiation state in `IsDeadSession`, the peer record of a LAN message, the web
socket's handle); callbacks that come in either order (accept and remote
description); a clock that races with an answer; mutexes around calls that post
and call back; deferred data that must keep its order when the channel opens;
configurations that are queued behind the sessions that need them; datagrams cut
by a short buffer; and tasks that requeue themselves for ever. `PROJECT.json`
lists each such hazard at its line.

What makes the parts correct:

* session: reliable data keeps its order, an answer follows the accept or the
  response, the negotiation never goes back, timeouts name what was waited for,
  a close works and never meets a null connection;
* manager: a record holds its own user's session only, dead sessions leave the
  table, only overlapping calls can miss or lose a session, no lock is kept and
  nothing deadlocks;
* LAN thread: messages reach the latest address of the peer they were accepted
  for, a new peer is answered, a blocking query is answered;
* signaling: nothing is sent on a connection that was signed out, configurations
  are written in the order they were set and before the sessions opened later;
* cache: erasing on lookup is invisible to callers;
* envelope: no buffer is overrun, what was sealed opens to its length.

## 2. Modules

| Module | Models | Checked by | Proofs |
|---|---|---|---|
| `SessionContract` | what a session promises, without tasks and threads | through `NetworkSession` | |
| `NetworkSession` | one session with its signal thread's queue | `MCNetworkSession` | `NetworkSessionProofs` |
| `SessionTable` | what the table of sessions promises, without locks and queues | through `SessionManager` | |
| `SessionManager` | the table, both mutexes, application threads and signal thread | `MCSessionManager` | `SessionManagerProofs`, `SessionTableProofs` |
| `LanThread` | LAN thread, its queue, the peer table, callers on other threads | itself | `LanThreadProofs` |
| `WebSocket` | the web socket, its guard and handles | through `Signaling` | |
| `RtcConfig` | the RTC configuration, the tasks that change and copy it, shutdown of the signal thread | through `Signaling` | |
| `Signaling` | composes the two: sign-in, sign-out, sends and sessions | itself | `SignalingProofs` |
| `ResolverCache` | what a cache of names promises | through `DnsCache` | |
| `DnsCache` | the cache with expiry and erasure on lookup | itself | `DnsCacheProofs` |
| `AesEnvelope` | the encrypted socket: key, lengths, buffers, a lossy network | itself | `AesEnvelopeProofs` |

The `MC` modules add only the symmetry sets. The operators marked "Mutant" in their
comments (`CloseUnchecked`, `RemoveTaskChecked` and so on) are variants of the
definition they precede with one plausible mistake; replacing the definition by
the variant makes the corresponding property fail, which shows that the property
depends on that piece of code.

### The signal thread

`NetworkSession`, `SessionManager` and `RtcConfig` each model the thread's queue as far
as they use it. Every post in the code is guarded by `if (rtc_thread)`: the pointer may
be null from the start (nothing in the repository calls `Initialize`), and
`Shutdown` first stops the thread and then clears the pointer. `rtc::Thread` (vendored,
`rtc_base/thread.cc`) takes no task once it is quitting and runs the queued ones before
it ends: `mThread` is "running", "quitting" or "null", `ShutdownStop` and
`ShutdownClear` are the two steps, and posting to a thread that is not running does
nothing. Properties that need the thread say so. Two windows are left out: the one
inside `PostTaskImpl`, between its test and its push, and a caller that uses a pointer
it loaded before `Shutdown` cleared it.

### NetworkSession

One action per function or callback, one per posted task (`InitOutgoingTask`,
`SendTask`, `ResponseTask`, `CloseTask`, `StatsTask`; `RunTask` takes the head of
the queue). Variables carry the names of the members. Points to know:

* What no lock protects is cut where another thread can look. The two stores of
  `UpdateDataChannelStates` and its call of `OnSessionOpen` are three steps
  (`StoreReliableState`, `StoreUnreliableState`, `NotifyOnSessionOpen`), also at the end
  of `InitializeOutgoing`'s task; `CheckUpdateStats` is the test, the post and the set
  (`PostStatsRequest`, `RecordStatsRequest`), once for the application's threads, which
  `mApiLevelMutex` lets in one at a time, and once for the signal thread;
  `IsDeadSession` tests the negotiation state and `NameTimeout` reads it again.
* No scalar member is initialised by the class; `Init` draws them from their types.
* The lambda of `SendPacket` reads its buffer and send type from a frame that has
  returned: `SendTask` uses an arbitrary packet and type.
* `InitializeIncoming` stores the peer connection and moves it out again, so an
  incoming session's member is null: its sends are dropped and `Close` does
  nothing. The model does the same.
* The answer's observer is created and not passed on; `answers` counts those created
  and `agreedBy` says what ended the wait: the accept, or a ConnectResponse, which is
  taken in either role. `mIsDeleting` is uninitialised, so the completion of
  `SetRemoteDescription` may do nothing.
* `MyDataChannelObserver::OnStateChange` is a stub; `OnDataChannelStateChange`, the
  handler it is meant to call, may run at any time on the signal thread.
* `CheckSendDeferredData` dereferences `mReliableChannelInterface` when only the
  unreliable channel exists; `crash` records which null pointer was used, and
  nothing runs afterwards.
* `signalInFlight` holds one signal whose completion is due (a bound).
* Left out because only written: totals, RTT, connection flags,
  `mPeerConnectionState`. `mDeferredIceCandidates` is never filled, so
  `ProcessIceCandidates` does nothing.
* `accepted`, `offered`, `refused`, `opened`, `closeNotice`, `statsRequests` record what the
  environment saw of the session.

`ImplementsContract` maps the session to `SessionContract`: the phase is read off
the negotiation state and whether the session is initialised, the connection off
the peer connection, `pending` and `sent` off the reliable packets deferred and
offered. The contract knows neither queues nor channels nor the clock: a packet waits
behind the others or goes out when none waits, and the waiting ones leave
together, in order.

### SessionManager

Each thread has a program counter (`call[t]`), and one step is what a thread does
between two points at which another one can intervene. `call[t].found` is the
session the call holds. The lines that create and store a session are commented out
in both Initiate functions, pending a constructor, so that at this commit no record
ever holds a session; `Create` and `StoreSession` stand for those lines as they read, so
that the rest of the manager's logic can be exercised. Nothing about a session that
replaces another is therefore reported as a finding. `InitiateIncomingSession` empties
the record (`EmptyRecord`) and stores the new session in separate steps, with no
lock held in between. Time is a flag per session. Functions without a body
(`PeriodicDeadSessionCleaup`, `ReadPacket`, `ProcessSignal`, `OpenSessionWithUser`)
and `mPacketData`, which nothing fills, are left out. Callbacks are taken as not
calling back into the interface: they run with mutexes held.

The map. `mSessionList[id]` inserts an empty record when there is none, hence the
three cases `NoRecord`, `Null` and a session. The Initiate functions do this, and
search, without `mSessionCreationMutex`, which is a data race on a `std::map`. An
insertion is two steps: while it is under way (`inserting`) any search of another
thread may miss any record; when it ends it may cut off records inserted since it
began (`raced`), and a record that was missed is inserted a second time, of which one
is found from then on (`detached`). A reference to a record that is no longer found
still works, so a late removal may empty it without effect on the table. Outcomes
beyond that, a search that crashes or never ends, are not modelled.

`ImplementsTable` maps the manager to `SessionTable`: a record without a session is
no record, and a session that a lookup has found dead is not given to the caller.
The abstract table has no locks, no queued removals and no steps between a lookup
and its result; what it allows beyond one session per user is what the code needs:
a request from outside replaces a session at any time, a user who had a session
reported dead may lose the current one (the late removal), and a call that overlaps
another may miss a session or make one disappear.

### LanThread

Calls from other threads look into the table at once and post the rest; the LAN
thread handles packets and tasks. The insertion of a record takes two steps, and
`Contains`, read by another thread in between, may miss any node and may find the
new one. Further:

* `RemoveExpiredRecords` is applied to `mExclusiveTable`, as the code does; that
  table is always empty.
* `DisableBroadcastDiscovery` and `SendSignalingMessageTo` are posted with dangling
  references: their tasks use an arbitrary id, and the one meant is a witness.
* `EnableBroadcastDiscovery` logs that it adds an id and adds none, so `mIds` stays
  empty and no broadcast request is ever sent; each call starts one more endless
  `BroadcastTask`. The ping of a new peer goes to `mRemoteId`, which nothing assigns;
  its task carries the peer that was heard as a witness.
* `SendToHelper` sends to the address as it is, to the address mapped to IPv6, or to
  both; the model counts one message.
* The task that `OnPacket` posts to the signal thread has its body commented out.
* `GetAnyAddressNetworks` (vendored WebRTC) always returns the IPv4 and the IPv6
  wildcard networks, in this order.
* `Initialize` has no body; the thread and its table are taken as set up.

### WebSocket, RtcConfig, Signaling

`WebSocket` cuts each call at the accesses to `mWebSocketHandle` and the guard. A
handle is in use while libHttpClient (external) has references on it; `crash`
records the use of a freed one, and nothing runs afterwards. `AllocateSocket` has
no body: it gives a new handle or none. `Disconnect` passes the member, already
nulled, to the library instead of its copy; `DisconnectSocket` and
`DeallocateSocketAsync` therefore act on null or on the handle of a `Connect` that
came in between, as the code does.

`RtcConfig` numbers the calls that change the configuration. The tasks read their
servers, or the text to parse, through references into frames that have returned, so
they may write anything: the content is left out, and `writtenBy` says only whose task
wrote last. No property speaks of which servers a session gets. `skipped` holds the
calls whose task was not posted (no thread, or one that is quitting) or wrote nothing
(a TURN text that does not parse). `OpenTask` is the one line of
`InitializeOutgoing`'s task that copies the configuration; the rest of it is in
`NetworkSession`.

`Signaling` adds the interface pointer and joins both. `SignIntoSignalingService` posts
its servers and calls `SignIn`, which has no body and does nothing here either. Nothing
in the repository calls the socket's `Connect` and `Send` yet:
`ConnectThroughInterface` and `SendThroughInterface` are external and let any thread do
so. The interface pointer is exchanged without a lock; the model exchanges it only
while no thread is in a call (a bound). Completion callbacks run under the guard; that
they could call back into the socket and block is not modelled.

### DnsCache

`now` is the steady clock. `added`, the last addition per key whatever was erased
since, is a history variable and the refinement mapping at once: the abstract
`ResolverCache` keeps it as its book. The class has no lock and its resolver is a
stub, so its calls are taken to come from one thread.

### AesEnvelope

Bytes are abstracted to lengths. `writes` is what the last call wrote: where each
write ends and how large its buffer is. What `EVP_EncryptUpdate`,
`EVP_DecryptUpdate` and the two finals give is OpenSSL's contract for
AES-256-ECB with padding. Since the digest is never compared, data decrypted with
another key or from a cut datagram passes when its last byte happens to be a
valid padding: `Paddings` allows them all. `wire` only grows and any socket may
receive any of it any number of times: loss, repetition and reordering. Failures
of OpenSSL's set-up calls return before anything is written, as no key does.

## 3. Runs

Passing runs:

| Run | Shows | Bounds |
|---|---|---|
| `SessionData` | `ReliableInOrder`, `ActiveImpliesOpened`, `CloseFindsConnection`, `InitializedBeforeUse`, the refinement `ImplementsContract` | two packets and two sends, so that one can be deferred while the next is sent directly; queue of two; both kinds of channel label; cached states with any content at first; a thread that runs, stops or is missing; time stands still, because no data property reads it |
| `SessionNegotiation` | `AnswerAfterAccept`, `AtMostTwoAnswers`, `OneStatsRequestPerThread`, `NegotiationOnlyAdvances`, `OutgoingGetsConnection`, `CloseTakesEffect` | clock 0..2 with a timeout and a statistics interval of one tick: before, at and past every limit; no data; a live and a failed ICE state; one candidate; one task from the application besides those the handlers post |
| `ManagerTable` | `RemovalPending`, the refinement `ImplementsTable` | two users, so that one's insertion can cut off the other's record; one application thread against the signal thread; two queued removals; a second session in the place of the first is left to the theorems `RemovalQueued` and `ManagerImplementsTable` |
| `ManagerLocks` | absence of deadlock, `NoCircularWait`, `OnlyInitiateRaces` | two application threads and the signal thread on one user |
| `ManagerLiveness` | `DeadSessionLeaves`, `MutexReleased` | one application thread and the signal thread on one user: the mutex is contended, and the thread may stop with a removal queued |
| `LanTable` | `SentToLatestAddress`, `CheckedPeerIsFound`, `WaitersQueued`, `QueryMovesUp`, `QueryAnswered`, `DiscoveryStarts`, `BroadcastsKept` | two peers, two addresses, two callers (one query behind another), a clock whose single tick passes the expiry of 0, queue of two (a message or a query behind a broadcast task) |
| `Signaling` | `NoSendAfterSignOut`, `FirstConnectionSafe`, `GuardReleased`, `ConfigurationInOrder`, `ConfigurationOnlyNewer`, `ConfigurationApplied` | two threads (one sends while the other connects or signs out), two handles (one replaces the other), two configuration calls (one overtakes or replaces the other), one session |
| `DnsCache` | the refinement `ImplementsResolverCache` | two keys, two results, a lifetime of two in a clock of four values: before, at and past every expiration |
| `Envelope` | `WritesInBounds`, `RoundTrip` | lengths 0, 15 and 32 (none, just short of a block, whole blocks), buffers of 3 (no word), 47 (cuts in a block), 64 (cuts at a block) and 2100 (past the fill limit), two keys, two sockets, two datagrams |

`SessionData`, `ManagerTable`, `LanTable` and `Signaling` also check their module's
`TypeOK`. Deadlock is checked in the manager, LAN, cache and envelope runs. It is
switched off for sessions and signaling, which stop after the use of a null or
freed pointer and at their bounds.

Runs that end in a violation each confirm a disagreement between the code and
what a comment, log line or interface document says of it:

| Run | The code | What is said |
|---|---|---|
| `DeferredReliable` | hands deferred packets to a channel that is not open, then forgets them (`NetworkSession.cpp:152`) | WebRTC: only `kOpen` is "ready to send data" |
| `TimeoutRace` | a response between two reads makes an outgoing session time out "waiting for accept" (`NetworkSession.cpp:344`) | the error "depends on the `waiting-for` state" |
| `LanExpiry` | records never expire: expiry works on another table (`PeerRecordTable.cpp:40`) | "Removing [...] has been inactive for %lld seconds" |

`ReliableInOrder` and `DeferredReliable` go together: order is kept up to the call
of `Send`; whether the channel takes the packet is the second question.
`ActiveImpliesOpened` speaks of the cached states between two updates: the code stores
both and notifies afterwards, and a `GetSessionState` that falls in that window can
report an active session first. `AnswerAfterAccept` counts a ConnectResponse as the end
of the wait because `ProcessSignal` has no test of the role; `AtMostTwoAnswers` says
what follows from `mHasSentAcceptSession` never being set. `OneStatsRequestPerThread`
is the strongest bound that holds: the application's threads and the signal thread can
both pass the test before either sets the flag. `CheckedPeerIsFound` holds *because*
records never expire: its mutant makes `Find` expire them, and then a message accepted
in time is dropped by its task. Whoever repairs the expiry has to decide about that
case. `BroadcastsKept` says that discovery
goes on once enabled, and by the same token that nothing ever ends a `BroadcastTask`.
`FirstConnectionSafe` is limited to the first connection because the code is: with a
second `Connect` between `Disconnect`'s swap and its use of the member, the model
reaches a freed handle.

Seen while modelling, modelled as the code does it and not given a run:

* deferred unreliable packets go out on the reliable channel
  (`NetworkSession.cpp:167`);
* `IsInactiveSession` truncates to whole minutes and so waits for two
  (`NetworkSession.cpp:319`);
* a removal that is still queued clears whatever session the record holds by then
  (`NetworkSessionManager.cpp:168`), once sessions can be stored at all;
* without a signal thread an outgoing session gets neither connection nor error
  (`NetworkSession.cpp:565`), and a session reported dead stays
  (`NetworkSessionManager.cpp:166`);
* the ping posted for a peer heard for the first time ("//send response",
  `LanThreadManager.cpp:119`) goes to `mRemoteId`, which nothing assigns (`:121`), and
  not to that peer;
* the broadcast domain is swapped once per network, so only the last network's
  addresses stay (`LanThreadManager.cpp:268`); `SendToHelper` sends a second
  datagram after the first one (`:46-57`);
* the peer table is read by other threads without the lock that guards its twin
  (`PeerRecordTable.cpp:57`);
* `WebSocket::Disconnect` passes the nulled member (`WebSocket.cpp:81-82`), so the
  handle it took is never closed; a refused message leaves its duplicate open
  (`:30-39`); `Connect` takes no lock (`:92`); the completion callback runs under
  the guard (`:19`) and the `XAsyncBlock` dies with the call (`:24-29`);
* `ProcessTurnConfig` clears the servers and adds new ones only if there are some
  left, so they stay empty (`SimpleNetworkInterfaceImpl.cpp:358-361`);
* the digest of a datagram is never compared (`AesContext.cpp:47-55`), so a cut
  datagram can open to a valid shorter one;
* `RtcThreadManager::Initialize` stores a pointer to a local thread.

### Fairness

* `NetworkSession`: weak fairness of `FinishCall` (the signal thread does not stop inside
  a function) and strong fairness of `RunTask`: callbacks are taken from the same
  queue in their turn, so they interrupt the tasks for a while and never for ever.
  A thread that is quitting still runs what is queued.
* `SessionManager`: weak fairness of a thread's steps inside a call. The signal
  thread has strong fairness for `RemoveTask` (messages and tasks alternate on one
  queue) and for taking the session mutex, which is released again and again; this
  assumes a mutex that does not starve a waiter for ever.
* `LanThread`: weak fairness of `RunTask` and of the end of an insertion.
* `Signaling`: weak fairness of a thread's steps inside a call of the socket (none
  of them waits; the lock is taken in the call's first step) and of the signal
  thread's tasks, those left at a shutdown included.
* Nothing is assumed of the application, the remote peer, the network or the clock.

## 4. Proofs

Every safety invariant and action property that a passing run checks is a theorem for
all values of the constants, but for `AtMostTwoAnswers`, and so are the three
refinements. Five more properties are stated in the modules and proved, and have no run
of their own, since a property of the runs fails with them: `RecordsMatchUsers` and
`FoundMatchesCall` (the refinement `ImplementsTable`), `LockedSections`
(`NoCircularWait`), `ErasedOnlyExpired` (the refinement `ImplementsResolverCache`) and
`CloseMovesUp` (`CloseTakesEffect`).

`NetworkSessionProofs`, from `SessionConstants` (non-empty packets, positive
intervals, a clock that starts late enough for the first statistics request):

* `TypeCorrect`: type invariant, one step per action.
* `SessionInvariant`: `ReliableInOrder` is not inductive. A direct send appends to
  `offered`, which keeps the order only if nothing is deferred at that moment; so
  the invariant adds `FlushedWhenOpen` (between two updates, a reliable channel cached
  as open has no deferred packets). In the middle of an update that is not yet so, and
  `UpdateFlushes` says why it will be: whoever updates flushes next, or there is no
  channel. That last case is `InitOutgoingTask`, and holds because the task, where it
  was posted, runs before any other (`InitRunsFirst`, `QuietBeforeInit`,
  `ChannelsNeedConnection`). `CloseFindsConnection` needs that a queued close was posted
  with a connection (`CloseHasConnection`) and that no later step takes it away.
* `ReliableOrder`, `CloseIsSafe`: consequences. `NegotiationAdvances`: the action
  property, from the actions and the fact that a session is initialised once.
* `AnswerInvariant`, `AnswerWaits`: two paths post the response task, so the invariant
  says that one is queued or pending only while the session waits for its accept,
  or after the accept or a response has ended the wait (`agreedBy`), and that nothing
  is answered before initialisation.
* `SessionImplementsContract`: initial states map to initial states, and each
  action to a step of the contract or a stutter; a direct send maps to the
  contract's because of `FlushedWhenOpen` (nothing is pending then), the close task to `Disconnect` because of `CloseHasConnection`.
* `ActiveAfterOpen`; `StatsOncePerThread` (a thread that has asked once is about to set
  the flag or finds it set, whatever the other thread does meanwhile).
* `QueueSteps` (a step leaves the queue, appends to it or runs its head) gives two
  facts about the queue. `InitializationFirst`: an outgoing session without a
  connection has `initOutgoing` at the head, because the queue was empty when the
  task was posted (`QuietBeforeInit`), or has an empty queue and no running thread. `CloseAdvances`: a queued close keeps its place
  or moves up until the connection is closed; at the head it closes, for
  `CloseHasConnection` rules out the null pointer.
* `InactivityLimit`: arithmetic of the truncated division in `IsInactiveSession`.

`SessionManagerProofs`, from the manager's constants (sessions and the special
values differ, the signal thread is no application thread), for any number of
application threads. `ManagerInv` has five parts: `CallsOK` (which calls can be at which
step, and that the session a call has found is of the user it was made for), `TableOK`
(records hold sessions of their own user; while the thread runs, a reported session in
the table has its removal queued), `MutexOK` (the session mutex is held exactly in the
locked sections), `MapOK` (insertions are made at the steps that evaluate
`mSessionList[id]`) and `RestOK` (the remaining types). The parts need each other: a
lookup hands a record's session to the call, and a store hands the call's id to the
record. Whatever insertions do to each other, they only take sessions out of the
table or keep them where they are (`Thins`). One lemma per action. `RemovalQueued`,
`OwnRecords`, `OwnSession`, `MutexSections` and `RacesNeedInitiate` follow.

`SessionTableProofs`, from the same assumptions, strengthens it to `SharedInv`:

* `ShapesOK`: what a call can have found at each step, and which calls the signal
  thread makes; without it a step from `lockMgr` to `use` might hand over a session
  that the abstract table never gave;
* `ApiOK`: the interface's mutex is held from a call's second step to its last;
* `QueueOK`: a queued removal is for the user of a session that was reported, which
  is what lets the abstract table vacate the record;
* `OverlapOK`: of two calls in progress each is marked as overlapping;
* `InsertOK`: while a call that overlaps none inserts a record, nobody else has inserted
  one, so it cuts nothing off. Together they confine the races to overlapping calls.

The proof goes through the control flow: `StepMoves` shows that every step of a call
is one of a few pairs of steps (`Onward`, `Incoming`, `Outgoing`, `Finding`), and the
invariant and the refinement are then argued pair by pair.
`DeadlockFree`: a thread that waits for the interface's mutex waits for one that has
it and may wait for the manager's, whose holder is in a locked section and waits for
nobody. `ManagerImplementsTable`:
`BeginRefines` to `RemoveRefines`, one lemma per abstract step; a lookup that finds a
live session is `Fetch`, one that finds a dead session and reports it is `Report`,
the end of an insertion is a stutter or `Lose`, emptying the record for a request is
`Refuse`, the store is `Create`, a removal is `Vacate` or a stutter,
and taking or releasing a mutex is a stutter.

`LanThreadProofs`, from `LanConstants` (finitely many ids, `None` different from
everything else):

* `LanTypeInvariant`, `LanTypeCorrect`: types hold only together with
  `RecordsInThePast`, which keeps a record's age from being negative.
* `MessageInvariant`: `CheckedPeerIsFound` is about a check made on one thread and
  a lookup made later on another. It follows from `QueuedPeersKnown`: every queued
  message is for a peer that has a record *or is being inserted*; the second case
  is what a racing `Contains` may have seen, and the insertion ends before the
  thread takes its next task. `RecordsAreLatest` gives the address.
* `CheckedPeer`, `LatestAddress`: consequences.
* `WaitersAreQueued`, `QueriesMoveUp`: what posting, running and requeuing do to the
  places of a caller's query (`QueriesPosted`, `QueriesRun`); a caller that waits has
  posted no second query, so running the one frees it exactly when it is gone.
* `BroadcastsGoOn`: an injection from the places that broadcast before a step to those
  after it; the head of the queue goes to the last place, the others move up.

`SignalingProofs`, from `SocketConstants` and `ConfigConstants`, for any number of
threads, handles, sessions and calls. `SignalingInv` joins `SocketInv` and `ConfigInv`:

* `SocketInv`: a thread inside `Send` or `Disconnect`'s locked part has the guard, its
  local handle was given out, and the member is never a handle taken out of use.
  `SendStops` follows: the handle `Send` duplicated can be signed out only by a
  thread that holds the guard `Send` holds.
* `FirstInv`, for `FirstConnection`, is stated under the hypothesis that one handle at
  most was given out. Then it has its first reference, and a second while a message
  is being sent on it: the guard keeps two senders apart, so closing the duplicate
  leaves one (`Referenced`). No `Disconnect` closes it: whoever is past the swap has
  signed a handle out, the member is never a signed-out handle, so a member that is
  not null is a second one (`SwapDone`).
* `ConfigInv`: the queue orders the tasks by call number, none newer than the calls
  made, and each call's task has written, was overtaken, is queued or is skipped.
  `ConfigurationOrder` follows: the tasks of the calls made before a session was opened
  are ahead of it in the queue. `OnlyNewer` does too: whatever is queued is newer than
  what wrote last.

`DnsCacheProofs`, from `CacheConstants`: the types, `ErasedStaysExpired` (inductive
with the types; the clock never goes back) and, from it, `ImplementsCache`: a lookup
that erases or finds nothing answers as the abstract one, which sees the last
addition expired.

`AesEnvelopeProofs`, from `EnvelopeConstants`, for any lengths: arithmetic lemmas
(a sealed length is the digest and whole blocks, one more than the data fills;
taking the padding off gives the data's length back), then `EnvelopeSafe`, one step
per action, and its two parts.

Only model-checked: `AtMostTwoAnswers`, and liveness (`OutgoingGetsConnection`,
`CloseTakesEffect`, `DeadSessionLeaves`, `MutexReleased`, `QueryAnswered`,
`DiscoveryStarts`, `GuardReleased`, `ConfigurationApplied`), which rests on fairness and
`ENABLED`, out of the prover's reach. For five of them the part that needs no fairness
is proved: `MutexReleased` rests on `NoCircularWait` (somebody can run),
`DeadSessionLeaves` on `RemovalPending`, `QueryAnswered` on `WaitersQueued` and
`QueryMovesUp`, `CloseTakesEffect` on `CloseMovesUp`, `OutgoingGetsConnection` on
`InitializedBeforeUse`. What remains for TLC is that the thread does take its steps.

## 5. Not modelled

* `Controller`: all its methods are private, nothing constructs it, and nothing
  notifies its condition variable.
* Creation of the LAN sockets: system calls with error returns.
* Byte layouts of discovery packets and the text of signaling messages: pure
  formatting; the models start from a parsed message.
* The game's connectors and server locators, which are stubs.
* `AsyncResolver`, `WebSocketSignalingInterfaceImpl::SignIn`, `AllocateSocket` and the
  other functions whose bodies are still to be written in the source.
* Vendored WebRTC and libHttpClient under `src/NetherNet/includes`: third-party code
  that makes up nearly all of the repository's lines. The models describe it by
  how the library uses it; only the task queue of `rtc::Thread` is translated.
* The windows of the signal thread named in section 2, a `std::map` broken beyond
  missed and lost records, callbacks of the application or of libHttpClient that call
  back into the library, and what the configuration tasks write.

What is left to do: an abstract directory of peers that `LanThread` implements; the
composition of manager and session, so that a removal drops the tasks of a
session; the functions listed above once they have bodies.
