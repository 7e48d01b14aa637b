--------------------------- MODULE MCStorageAudit ---------------------------
(***************************************************************************)
(* StorageAudit for TLC.                                                   *)
(***************************************************************************)
EXTENDS StorageAudit

\* Publishers are interchangeable: they are numbered in the order of their runs.  Of the
\* runs only their order counts: they are of the first cycles, without a gap.
InOrder ==
  /\ \A p, q \in Pubs : p < q => job[p].run <= job[q].run
  /\ \A p \in Pubs : job[p].run = 1 \/ \E q \in Pubs : job[q].run = job[p].run - 1

=============================================================================
