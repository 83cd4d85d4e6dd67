--------------------------- MODULE ResolverCache ---------------------------
(***************************************************************************)
(* What a cache of resolved names promises: a lookup gives the addresses   *)
(* that were published last for the name, as long as they have not         *)
(* expired, and nothing after that.  Nothing is ever erased here.          *)
(***************************************************************************)
EXTENDS Naturals

CONSTANTS Keys, Results, None, Latest

VARIABLES
    now,
    book,     \* what was published last for each name
    answer    \* what the last lookup gave

cacheVars == <<now, book, answer>>

Init ==
    /\ now = 0
    /\ book = [k \in Keys |-> None]
    /\ answer = None

Publish(k, result, until) ==
    /\ book' = [book EXCEPT ![k] = [result |-> result, until |-> until]]
    /\ UNCHANGED <<now, answer>>

Lookup(k) ==
    /\ answer' = IF book[k] # None /\ now <= book[k].until THEN book[k].result ELSE None
    /\ UNCHANGED <<now, book>>

Tick ==
    /\ now' = now + 1
    /\ UNCHANGED <<book, answer>>

Next ==
    \/ \E k \in Keys, result \in Results, until \in 0..Latest : Publish(k, result, until)
    \/ \E k \in Keys : Lookup(k)
    \/ Tick

Spec == Init /\ [][Next]_cacheVars
=============================================================================
