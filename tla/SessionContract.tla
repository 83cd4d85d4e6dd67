-------------------------- MODULE SessionContract --------------------------
(***************************************************************************)
(* What a session promises its application, without tasks, threads,        *)
(* channels or timers: a negotiation that only moves forward, one peer     *)
(* connection in its life, an answer only to an agreed session, and        *)
(* reliable packets that leave in the order they were taken, each once.    *)
(***************************************************************************)
EXTENDS Sequences

CONSTANT Packets

VARIABLES
    phase,       \* "idle", "waiting" for the other side or the application, "agreed"
    connection,  \* "null", "live" or "closed"
    answered,    \* the remote side has been sent an answer
    pending,     \* reliable packets taken and not yet sent
    sent         \* reliable packets sent, in order

contractVars == <<phase, connection, answered, pending, sent>>

Init ==
    /\ phase = "idle" /\ connection = "null" /\ answered = FALSE
    /\ pending = <<>> /\ sent = <<>>

Begin ==
    /\ phase = "idle" /\ phase' \in {"waiting", "agreed"}
    /\ UNCHANGED <<connection, answered, pending, sent>>

Agree ==
    /\ phase = "waiting" /\ phase' = "agreed"
    /\ UNCHANGED <<connection, answered, pending, sent>>

Answer ==
    /\ phase = "agreed" /\ answered' = TRUE
    /\ UNCHANGED <<phase, connection, pending, sent>>

Connect ==
    /\ phase # "idle" /\ connection = "null" /\ connection' = "live"
    /\ UNCHANGED <<phase, answered, pending, sent>>

Disconnect ==
    /\ connection = "live" /\ connection' = "closed"
    /\ UNCHANGED <<phase, answered, pending, sent>>

\* A packet waits behind the others, or goes out at once when none is waiting.
Send(packet) ==
    /\ connection # "null"
    /\ \/ pending' = Append(pending, packet) /\ UNCHANGED sent
       \/ pending = <<>> /\ sent' = Append(sent, packet) /\ UNCHANGED pending
    /\ UNCHANGED <<phase, connection, answered>>

Flush ==
    /\ connection # "null" /\ pending # <<>>
    /\ sent' = sent \o pending /\ pending' = <<>>
    /\ UNCHANGED <<phase, connection, answered>>

Next ==
    \/ Begin \/ Agree \/ Answer \/ Connect \/ Disconnect \/ Flush
    \/ \E packet \in Packets : Send(packet)

Spec == Init /\ [][Next]_contractVars
=============================================================================
