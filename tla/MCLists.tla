------------------------------ MODULE MCLists ------------------------------
(***************************************************************************)
(* Instances of Lists for TLC, and the queue it implements.                *)
(***************************************************************************)
EXTENDS Lists

CONSTANTS c1, c2, c3

\* Too few, nothing, one, more than some lists hold.
MCCounts  == -1 .. 2

\* Both sides of both ends of a list of up to three elements.
MCIndices == -4 .. 4

\* Connections are interchangeable wherever no liveness is checked.
MCSymmetry == Permutations(Conns)
=============================================================================
