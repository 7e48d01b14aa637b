--------------------------- MODULE MCPublication ---------------------------
(***************************************************************************)
(* Publication for TLC.                                                    *)
(***************************************************************************)
EXTENDS Publication, TLC

\* Interchangeable publishers and timestamps.
Symmetry == Permutations(Pubs) \cup Permutations(Stamps)

=============================================================================
