---------------------------- MODULE MCRunUpload ----------------------------
(***************************************************************************)
(* RunUpload for TLC.                                                      *)
(***************************************************************************)
EXTENDS RunUpload

\* At most one process is killed, and one lost create is on its way at a time.
FewFaults ==
  /\ Cardinality({p \in Procs : upStage[p] = "dead"}) <= 1
  /\ Cardinality(inflight) <= 1

\* Data and seconds are interchangeable, so process 1 starts with the first of each.
FirstOfEach ==
  upStage[1] = "ready" =>
    /\ data[1] = CHOOSE d \in Data : TRUE
    /\ mine[1][1].built = CHOOSE s \in Seconds : TRUE

=============================================================================
