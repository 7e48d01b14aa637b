-------------------------- MODULE MCPointerCommit --------------------------
(***************************************************************************)
(* PointerCommit for TLC.                                                  *)
(***************************************************************************)
EXTENDS PointerCommit, TLC

CONSTANT Burst   \* TRUE: the schedule of BurstBound

\* Interchangeable publishers, layers and timestamps.
Symmetry == Permutations(Pubs) \cup Permutations(Layers) \cup Permutations(Stamps)

\* Only the order of a layer's cycles counts: its jobs are of the first ones, without a gap.
NoGaps ==
  \A p \in Pubs :
    job[p].run = 1 \/ \E q \in Pubs : job[q].layer = job[p].layer /\ job[q].run = job[p].run - 1

\* A burst of every layer: publisher and layer numbers agree, publisher 1 may
\* run at any time, and the others run one after the other.  Fewer
\* interleavings than the code has, each of them one the code has.
BurstBound ==
  Burst =>
    /\ \A p \in Pubs : job[p].layer = p
    /\ \A p, q \in Pubs : 1 < q /\ q < p /\ pc[p] # "ready" => pc[q] \in Ended

=============================================================================
