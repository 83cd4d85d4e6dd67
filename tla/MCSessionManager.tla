-------------------------- MODULE MCSessionManager --------------------------
(* SessionManager on small instances. *)
EXTENDS SessionManager, TLC

\* Users, application threads and session objects are interchangeable.
ManagerSymmetry ==
    Permutations(Ids) \cup Permutations(ApiThreads) \cup Permutations(Sessions)
=============================================================================
