---------------------------- MODULE SessionTable ----------------------------
(***************************************************************************)
(* What the table of sessions promises to the threads that use it: one     *)
(* session per user, and calls that behave as if each of their accesses    *)
(* were atomic, unless they overlap.  There are no locks, no queue and no  *)
(* records without a session here.                                         *)
(***************************************************************************)
CONSTANTS Users, Sessions, Threads, Signal, Null

VARIABLES
    table,      \* user -> the current session, or Null
    owner,      \* session -> the user it was made for, Null before that
    reported,   \* sessions reported closed
    calling,    \* thread -> the user its call is about
    got,        \* thread -> the session the call was given
    overlapped  \* threads whose call overlaps another

tableVars == <<table, owner, reported, calling, got, overlapped>>

Init ==
    /\ table = [u \in Users |-> Null]
    /\ owner = [s \in Sessions |-> Null]
    /\ reported = {}
    /\ calling = [t \in Threads |-> Null]
    /\ got = [t \in Threads |-> Null]
    /\ overlapped = {}

Begin(t, u) ==
    /\ calling[t] = Null
    /\ calling' = [calling EXCEPT ![t] = u]
    /\ LET busy == {v \in Threads : calling[v] # Null}
       IN overlapped' = IF busy = {} THEN overlapped ELSE overlapped \cup busy \cup {t}
    /\ UNCHANGED <<table, owner, reported, got>>

\* The session of the call's user, as the table has it at that moment; a call that
\* overlaps another may miss it.
Fetch(t) ==
    /\ calling[t] \in Users
    /\ \/ got' = [got EXCEPT ![t] = table[calling[t]]]
       \/ t \in overlapped /\ got' = [got EXCEPT ![t] = Null]
    /\ UNCHANGED <<table, owner, reported, calling, overlapped>>

\* A session of the call's user is found dead.  The caller is given none.
Report(t, s) ==
    /\ calling[t] \in Users /\ owner[s] = calling[t] /\ got[t] = Null
    /\ reported' = reported \cup {s}
    /\ table' \in {table, [table EXCEPT ![calling[t]] = Null]}
    /\ UNCHANGED <<owner, calling, got, overlapped>>

\* The table with the sessions of some users gone.
Without(tab, users) == [u \in Users |-> IF u \in users THEN Null ELSE tab[u]]

\* A call that overlaps another may make users lose their sessions.
Lose(t) ==
    /\ t \in overlapped
    /\ \E lost \in SUBSET Users : table' = Without(table, lost)
    /\ UNCHANGED <<owner, reported, calling, got, overlapped>>

\* A new session takes the place of the old one: for a request from outside
\* always, for a call of the application only if that was given none.  When calls
\* overlap it may not get there.
Create(t, s) ==
    /\ calling[t] \in Users /\ owner[s] = Null
    /\ t = Signal \/ got[t] = Null
    /\ owner' = [owner EXCEPT ![s] = calling[t]]
    /\ \/ table' = [table EXCEPT ![calling[t]] = s]
       \/ /\ t \in overlapped
          /\ \E x \in {s, table[calling[t]]}, lost \in SUBSET Users :
               table' = Without([table EXCEPT ![calling[t]] = x], lost)
    /\ UNCHANGED <<reported, calling, got, overlapped>>

\* A request from outside ends the old session first.
Refuse ==
    /\ calling[Signal] \in Users
    /\ table' = [table EXCEPT ![calling[Signal]] = Null]
    /\ UNCHANGED <<owner, reported, calling, got, overlapped>>

\* A user who had a session reported dead loses the current one.
Vacate(u) ==
    /\ \E s \in reported : owner[s] = u
    /\ table' = [table EXCEPT ![u] = Null]
    /\ UNCHANGED <<owner, reported, calling, got, overlapped>>

End(t) ==
    /\ calling' = [calling EXCEPT ![t] = Null]
    /\ got' = [got EXCEPT ![t] = Null]
    /\ overlapped' = overlapped \ {t}
    /\ UNCHANGED <<table, owner, reported>>

Next ==
    \/ \E t \in Threads : Fetch(t) \/ Lose(t) \/ End(t)
    \/ \E t \in Threads, u \in Users : Begin(t, u)
    \/ \E t \in Threads, s \in Sessions : Report(t, s) \/ Create(t, s)
    \/ \E u \in Users : Vacate(u)
    \/ Refuse

Spec == Init /\ [][Next]_tableVars
=============================================================================
