------------------------- MODULE MCRegionalControl -------------------------
(***************************************************************************)
(* RegionalControl for TLC.                                                *)
(***************************************************************************)
EXTENDS RegionalControl, TLC

CONSTANT Home   \* the layer the commands name

Symmetry == Permutations(Pubs) \cup Permutations(OpStamps) \cup Permutations(Ops)

\* Every publisher of the commands' layer has a run of its own: two of one
\* regional run exclude each other at the first tile, which RunUpload shows.
DistinctRuns ==
  /\ \A o \in Ops : cmd[o].layer = Home
  /\ \A p, q \in Pubs : p # q /\ job[p].layer = job[q].layer => job[p].run # job[q].run

\* One publisher at most is of another layer, with its first cycle; then two
\* cycles are left to the others.
OneElsewhere ==
  \A p \in Pubs :
    job[p].layer # Home =>
      /\ job[p].run = 1
      /\ \A q \in Pubs \ {p} : job[q].layer = Home /\ job[q].run <= 2

\* One publisher is killed or one lost PUT is on its way, at a time.
FewFaults ==
  Cardinality({p \in Pubs : pc[p] = "dead"}) + Cardinality(pending) + Cardinality(late) <= 1

=============================================================================
