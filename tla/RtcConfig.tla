----------------------------- MODULE RtcConfig -----------------------------
(***************************************************************************)
(* The configuration that peer connections are created with:               *)
(* SimpleNetworkInterfaceImpl::mRtcConfig.                                 *)
(*                                                                         *)
(* SetServerConfiguration, SignIntoSignalingService and ProcessTurnConfig  *)
(* post the change to the signal thread, whose queue is configTasks, and   *)
(* the task of InitializeOutgoing copies the configuration on that thread. *)
(* RtcThreadManager::Shutdown may stop the thread at any time.             *)
(*                                                                         *)
(* The posted lambdas read the new servers, or the text to parse, through  *)
(* references into a frame that has returned, so a task may write          *)
(* anything: the content of mRtcConfig is left out, and writtenBy says     *)
(* only which of the numbered calls' tasks wrote it last.                  *)
(***************************************************************************)
EXTENDS Integers, Sequences, FiniteSets

CONSTANTS
    Sessions,       \* the sessions that are opened
    MaxCalls        \* bound: calls that change the configuration

ASSUME ConfigConstants == MaxCalls \in Nat

VARIABLES
    mThread,        \* the signal thread's pointer is set
    quitting,       \* the thread has been told to stop
    configTasks,    \* its queue
    writtenBy,      \* the call whose task wrote mRtcConfig last, or 0
    calls,          \* calls made so far
    skipped,        \* calls whose task was not posted or wrote nothing
    openedAfter,    \* per session, the calls that had been made when it was opened
    copied          \* per session, writtenBy when its task copied mRtcConfig

configVars == <<mThread, quitting, configTasks, writtenBy, calls, skipped,
                openedAfter, copied>>

NotYet == -1
Kinds == {"set", "signIn", "turn", "open"}

ConfigInit ==
    /\ mThread = TRUE /\ quitting = FALSE
    /\ configTasks = <<>>
    /\ writtenBy = 0
    /\ calls = 0 /\ skipped = {}
    /\ openedAfter = [s \in Sessions |-> NotYet]
    /\ copied = [s \in Sessions |-> NotYet]

-----------------------------------------------------------------------------
\* LoadRtcThread and PostTask: nothing is posted without a thread, and a thread
\* that is quitting takes no more.
Posts == mThread /\ ~quitting

\* Mutant: SetServerConfiguration writes mRtcConfig on the calling thread.
ConfigureInPlace(kind) ==
    /\ calls < MaxCalls
    /\ calls' = calls + 1
    /\ IF kind = "set"
       THEN /\ writtenBy' = calls + 1
            /\ UNCHANGED <<configTasks, skipped>>
       ELSE /\ UNCHANGED writtenBy
            /\ IF Posts
               THEN /\ configTasks' = Append(configTasks, [kind |-> kind, of |-> calls + 1])
                    /\ UNCHANGED skipped
               ELSE /\ skipped' = skipped \cup {calls + 1}
                    /\ UNCHANGED configTasks
    /\ UNCHANGED <<mThread, quitting, openedAfter, copied>>

\* SetServerConfiguration, ProcessTurnConfig, and the first part of
\* SignIntoSignalingService.
Configure(kind) ==
    /\ calls < MaxCalls
    /\ calls' = calls + 1
    /\ IF Posts
       THEN /\ configTasks' = Append(configTasks, [kind |-> kind, of |-> calls + 1])
            /\ UNCHANGED skipped
       ELSE /\ skipped' = skipped \cup {calls + 1}
            /\ UNCHANGED configTasks
    /\ UNCHANGED <<mThread, quitting, writtenBy, openedAfter, copied>>

\* OpenSessionWithUser, as far as the configuration is concerned.
OpenSession(s) ==
    /\ openedAfter[s] = NotYet
    /\ openedAfter' = [openedAfter EXCEPT ![s] = calls]
    /\ configTasks' = IF Posts THEN Append(configTasks, [kind |-> "open", of |-> s])
                               ELSE configTasks
    /\ UNCHANGED <<mThread, quitting, writtenBy, calls, skipped, copied>>

-----------------------------------------------------------------------------
(* The tasks of the signal thread.                                         *)

NextConfigTask(kind) ==
    /\ configTasks # <<>> /\ Head(configTasks).kind = kind
    /\ configTasks' = Tail(configTasks)

\* The tasks of SetServerConfiguration and SignIntoSignalingService write whatever is
\* left where the call's frame was.
ServersTask(kind) ==
    /\ NextConfigTask(kind)
    /\ writtenBy' = Head(configTasks).of
    /\ UNCHANGED <<mThread, quitting, calls, skipped, openedAfter, copied>>

\* Mutant: a text that is not understood is posted again, to be tried later.
TurnTaskReposted ==
    /\ configTasks # <<>> /\ Head(configTasks).kind = "turn"
    /\ \/ /\ configTasks' = Append(Tail(configTasks), Head(configTasks))
          /\ UNCHANGED writtenBy
       \/ /\ configTasks' = Tail(configTasks)
          /\ writtenBy' = Head(configTasks).of
    /\ UNCHANGED <<mThread, quitting, calls, skipped, openedAfter, copied>>

\* A text that cannot be parsed writes nothing.  Otherwise the servers are cleared
\* and, since the loop that would add the new ones runs only when there are some,
\* they stay empty.
TurnTask ==
    /\ NextConfigTask("turn")
    /\ \/ /\ skipped' = skipped \cup {Head(configTasks).of}
          /\ UNCHANGED writtenBy
       \/ /\ writtenBy' = Head(configTasks).of
          /\ UNCHANGED skipped
    /\ UNCHANGED <<mThread, quitting, calls, openedAfter, copied>>

\* The task of InitializeOutgoing copies the configuration.
OpenTask ==
    /\ NextConfigTask("open")
    /\ copied' = [copied EXCEPT ![Head(configTasks).of] = writtenBy]
    /\ UNCHANGED <<mThread, quitting, writtenBy, calls, skipped, openedAfter>>

RunConfigTask == ServersTask("set") \/ ServersTask("signIn") \/ TurnTask \/ OpenTask

-----------------------------------------------------------------------------
(* RtcThreadManager::Shutdown: the thread is told to stop, runs what is queued, and
   then the pointer is cleared.                                             *)

ShutdownStop ==
    /\ mThread /\ ~quitting
    /\ quitting' = TRUE
    /\ UNCHANGED <<mThread, configTasks, writtenBy, calls, skipped, openedAfter, copied>>

ShutdownClear ==
    /\ mThread /\ quitting /\ configTasks = <<>>
    /\ mThread' = FALSE
    /\ UNCHANGED <<quitting, configTasks, writtenBy, calls, skipped, openedAfter, copied>>

-----------------------------------------------------------------------------
ConfigTypes ==
    /\ mThread \in BOOLEAN /\ quitting \in BOOLEAN
    /\ configTasks \in Seq([kind : Kinds, of : (1..MaxCalls) \cup Sessions])
    /\ writtenBy \in 0..MaxCalls
    /\ calls \in 0..MaxCalls /\ skipped \subseteq 1..calls
    /\ openedAfter \in [Sessions -> NotYet..MaxCalls]
    /\ copied \in [Sessions -> NotYet..MaxCalls]

\* A session copies the configuration only after the task of every call that was made
\* before the session was opened, whichever of the three calls it was and however late
\* the tasks ran; a call whose task was not posted or wrote nothing is the only
\* exception.  What the tasks wrote is another matter.
ConfigurationInOrder ==
    \A s \in Sessions : copied[s] # NotYet =>
        (1..openedAfter[s]) \ skipped \subseteq 1..copied[s]
=============================================================================
