------------------------------ MODULE DnsCache ------------------------------
(***************************************************************************)
(* NetherNet::DnsCache: resolved addresses by host name and family, each   *)
(* with the time until which it may be used.  An entry that has expired    *)
(* stays in the map until it is looked up.  The class has no lock: its     *)
(* calls are taken to come from one thread, as its factory's do.           *)
(***************************************************************************)
EXTENDS Naturals

CONSTANTS
    Keys,        \* pairs of a host name and a family
    Results,     \* lists of addresses
    None,        \* no entry; a TryGet that returned false
    Lifetime,    \* std::chrono::minutes(5)
    MaxTime      \* bound: last clock value

Latest == MaxTime + Lifetime
Entries == [result : Results, until : 0..Latest]

ASSUME CacheConstants ==
    /\ None \notin Results \cup Entries
    /\ Lifetime \in Nat /\ MaxTime \in Nat

VARIABLES
    now,            \* std::chrono::steady_clock, which never goes back
    mCacheObject,
    answer,         \* what the last TryGet gave
    added           \* the last Add of each key, whatever was erased since

vars == <<now, mCacheObject, answer, added>>

Init ==
    /\ now = 0
    /\ mCacheObject = [k \in Keys |-> None]
    /\ answer = None
    /\ added = [k \in Keys |-> None]

\* An entry of mCacheObject that TryGet finds expired.
Expired(entry) == entry # None /\ entry.until < now

\* Mutant: an entry is given up at the time until which it may be used.
TryGetEarly(k) ==
    /\ IF mCacheObject[k] # None /\ mCacheObject[k].until <= now
       THEN /\ mCacheObject' = [mCacheObject EXCEPT ![k] = None]
            /\ answer' = None
       ELSE /\ answer' = IF mCacheObject[k] = None THEN None ELSE mCacheObject[k].result
            /\ UNCHANGED mCacheObject
    /\ UNCHANGED <<now, added>>

TryGet(k) ==
    /\ IF Expired(mCacheObject[k])
       THEN /\ mCacheObject' = [mCacheObject EXCEPT ![k] = None]
            /\ answer' = None
       ELSE /\ answer' = IF mCacheObject[k] = None THEN None ELSE mCacheObject[k].result
            /\ UNCHANGED mCacheObject
    /\ UNCHANGED <<now, added>>

\* The expiration is the caller's, and may have passed.
Add(k, result, expiration) ==
    LET entry == [result |-> result, until |-> expiration]
    IN  /\ mCacheObject' = [mCacheObject EXCEPT ![k] = entry]
        /\ added' = [added EXCEPT ![k] = entry]
        /\ UNCHANGED <<now, answer>>

AddDefault(k, result) == Add(k, result, now + Lifetime)

Tick ==
    /\ now < MaxTime
    /\ now' = now + 1
    /\ UNCHANGED <<mCacheObject, answer, added>>

Next ==
    \/ \E k \in Keys : TryGet(k)
    \/ \E k \in Keys, result \in Results :
         \/ AddDefault(k, result)
         \/ \E expiration \in 0..Latest : Add(k, result, expiration)
    \/ Tick

Spec == Init /\ [][Next]_vars

-----------------------------------------------------------------------------
(* Properties.                                                             *)

\* Every variable stays in its type.
TypeOK ==
    /\ now \in 0..MaxTime
    /\ mCacheObject \in [Keys -> Entries \cup {None}]
    /\ added \in [Keys -> Entries \cup {None}]
    /\ answer \in Results \cup {None}

\* The map holds for each key what was added last, or nothing, and nothing only
\* when that was never added or is expired for good.
ErasedOnlyExpired ==
    \A k \in Keys :
        \/ mCacheObject[k] = added[k]
        \/ mCacheObject[k] = None /\ Expired(added[k])

\* The cache that this one implements.
Cache == INSTANCE ResolverCache WITH book <- added

\* Erasing on lookup is invisible: however additions, lookups and the clock
\* interleave, TryGet answers as a cache that keeps everything would.
ImplementsResolverCache == Cache!Spec
=============================================================================
