--------------------------- MODULE DnsCacheProofs ---------------------------
(***************************************************************************)
(* Theorems about DnsCache, for every value of its constants.              *)
(***************************************************************************)
EXTENDS DnsCache, TLAPS

\* Lookups, additions and the clock keep every variable in its type.
THEOREM CacheTypeCorrect == Spec => []TypeOK
<1> USE CacheConstants DEF Latest
<1>1. Init => TypeOK
  BY DEF Init, TypeOK
<1>2. TypeOK /\ [Next]_vars => TypeOK'
  <2> SUFFICES ASSUME TypeOK, [Next]_vars PROVE TypeOK'
    OBVIOUS
  <2>1. ASSUME NEW k \in Keys, TryGet(k) PROVE TypeOK'
    <3>1. mCacheObject[k] \in Entries \cup {None}
      BY DEF TypeOK
    <3>2. mCacheObject[k] # None => mCacheObject[k].result \in Results
      BY <3>1 DEF Entries
    <3> QED
      BY <2>1, <3>1, <3>2 DEF TryGet, TypeOK
  <2>2. ASSUME NEW k \in Keys, NEW result \in Results, NEW expiration \in 0..Latest,
               Add(k, result, expiration)
        PROVE  TypeOK'
    <3>1. [result |-> result, until |-> expiration] \in Entries
      BY DEF Entries
    <3> QED
      BY <2>2, <3>1 DEF Add, TypeOK
  <2>3. ASSUME NEW k \in Keys, NEW result \in Results, AddDefault(k, result) PROVE TypeOK'
    <3>1. now + Lifetime \in 0..Latest
      BY DEF TypeOK
    <3> QED
      BY <2>2, <2>3, <3>1 DEF AddDefault
  <2>4. CASE Tick
    BY <2>4 DEF Tick, TypeOK
  <2>5. CASE UNCHANGED vars
    BY <2>5 DEF vars, TypeOK
  <2> QED
    BY <2>1, <2>2, <2>3, <2>4, <2>5 DEF Next
<1> QED
  BY <1>1, <1>2, PTL DEF Spec

\* What TryGet erases was the last addition and stays expired, because the clock
\* only moves forward.
THEOREM ErasedStaysExpired == Spec => []ErasedOnlyExpired
<1> USE CacheConstants
<1>1. Init => ErasedOnlyExpired
  BY DEF Init, ErasedOnlyExpired
<1>2. TypeOK /\ ErasedOnlyExpired /\ [Next]_vars => ErasedOnlyExpired'
  <2> SUFFICES ASSUME TypeOK, ErasedOnlyExpired, [Next]_vars, NEW j \in Keys
               PROVE  \/ mCacheObject'[j] = added'[j]
                      \/ mCacheObject'[j] = None /\ Expired(added[j])'
    BY DEF ErasedOnlyExpired
  <2>a. \/ mCacheObject[j] = added[j]
        \/ mCacheObject[j] = None /\ Expired(added[j])
    BY DEF ErasedOnlyExpired
  <2>1. ASSUME NEW k \in Keys, TryGet(k)
        PROVE  \/ mCacheObject'[j] = added'[j]
               \/ mCacheObject'[j] = None /\ Expired(added[j])'
    BY <2>a, <2>1 DEF TryGet, Expired, TypeOK
  <2>2. ASSUME NEW k \in Keys, NEW result, NEW expiration, Add(k, result, expiration)
        PROVE  \/ mCacheObject'[j] = added'[j]
               \/ mCacheObject'[j] = None /\ Expired(added[j])'
    BY <2>a, <2>2 DEF Add, Expired, TypeOK
  <2>3. CASE Tick
    <3>1. added[j] # None => added[j].until \in Nat
      BY DEF TypeOK, Entries
    <3> QED
      BY <2>a, <2>3, <3>1 DEF Tick, Expired, TypeOK
  <2>4. CASE UNCHANGED vars
    BY <2>a, <2>4 DEF vars, Expired
  <2> QED
    BY <2>1, <2>2, <2>3, <2>4 DEF Next, AddDefault
<1> QED
  BY <1>1, <1>2, CacheTypeCorrect, PTL DEF Spec

\* The map that erases on lookup answers as the cache that keeps everything.
THEOREM ImplementsCache == Spec => ImplementsResolverCache
<1> USE CacheConstants
<1>1. Init => Cache!Init
  BY DEF Init, Cache!Init
<1>2. TypeOK /\ ErasedOnlyExpired /\ [Next]_vars => [Cache!Next]_Cache!cacheVars
  <2> SUFFICES ASSUME TypeOK, ErasedOnlyExpired, [Next]_vars
               PROVE  [Cache!Next]_Cache!cacheVars
    OBVIOUS
  <2>1. ASSUME NEW k \in Keys, TryGet(k) PROVE Cache!Lookup(k)
    <3>1. \/ mCacheObject[k] = added[k]
          \/ mCacheObject[k] = None /\ Expired(added[k])
      BY DEF ErasedOnlyExpired
    <3>2. added[k] # None => added[k].until \in Nat
      BY DEF TypeOK, Entries
    <3>3. now \in Nat
      BY DEF TypeOK
    <3> QED
      BY <2>1, <3>1, <3>2, <3>3 DEF TryGet, Expired, Cache!Lookup
  <2>2. ASSUME NEW k \in Keys, NEW result \in Results, NEW expiration \in 0..Latest,
               Add(k, result, expiration)
        PROVE  Cache!Next
    <3>1. Cache!Publish(k, result, expiration)
      BY <2>2 DEF Add, Cache!Publish
    <3> QED
      BY <3>1 DEF Cache!Next
  <2>3. ASSUME NEW k \in Keys, NEW result \in Results, AddDefault(k, result)
        PROVE  Cache!Next
    <3>1. now + Lifetime \in 0..Latest
      BY DEF TypeOK, Latest
    <3> QED
      BY <2>2, <2>3, <3>1 DEF AddDefault
  <2>4. CASE Tick
    BY <2>4 DEF Tick, Cache!Tick, Cache!Next
  <2>5. CASE UNCHANGED vars
    BY <2>5 DEF vars, Cache!cacheVars
  <2> QED
    BY <2>1, <2>2, <2>3, <2>4, <2>5 DEF Next, Cache!Next
<1> QED
  BY <1>1, <1>2, CacheTypeCorrect, ErasedStaysExpired, PTL
     DEF Spec, ImplementsResolverCache, Cache!Spec
=============================================================================
