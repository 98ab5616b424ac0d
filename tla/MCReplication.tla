--------------------------- MODULE MCReplication ---------------------------
(***************************************************************************)
(* Instances of Replication for TLC.                                       *)
(***************************************************************************)
EXTENDS Replication

CONSTANTS c1, c2, r1, r2

\* Clients, and replicas, are interchangeable wherever no liveness is checked.
MCSymmetry == Permutations(Clients) \cup Permutations(Replicas)
=============================================================================
