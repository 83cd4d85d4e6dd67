-------------------------- MODULE MCNetworkSession --------------------------
(* NetworkSession on small instances. *)
EXTENDS NetworkSession, TLC

\* The packets' contents are compared for equality only.
PacketSymmetry == Permutations(Packets)
=============================================================================
