------------------------------ MODULE Capacity ------------------------------
(***************************************************************************)
(* The byte guards a publication passes before its first upload: the       *)
(* retained runs of both catalogues (check_storage_guard of publish.py)    *)
(* and, for a regional layer, the peak of src/ingest/capacity.py: what the *)
(* root layers were measured to need, three capped runs of every regional  *)
(* layer, all else that is stored, and the headroom.                       *)
(*                                                                         *)
(* A layer has one job at a time (the concurrency groups of the workflows) *)
(* but jobs of different layers overlap.  A job may die anywhere and leave *)
(* its run, or the run it was about to delete.  The guards' reads are one  *)
(* step here; RunUpload, PointerCommit and Publication have the uploads,   *)
(* the pointer and retention in detail.                                    *)
(***************************************************************************)
EXTENDS Integers, FiniteSets, FiniteSetsExt

CONSTANTS
  RootLayers, AllocatedLayers,  \* ROOT_LAYERS, the layers of RegionalAllocation
  Measured,      \* root layer -> its largest run, when the profile was taken
  RunCap,        \* regional layer -> max_run_bytes
  Elsewhere,     \* bytes that are no run: routing data, pointers, status
  HeadroomBytes, BucketLimit,
  PeakUnit,      \* the existing peak is rounded up to whole MB
  LastRun,       \* bound on the runs of a layer, which are numbered
  Deaths         \* bound on jobs that die

RunLayers == RootLayers \cup AllocatedLayers

ASSUME CapacityConstants ==
  /\ RootLayers \cap AllocatedLayers = {} /\ IsFiniteSet(RunLayers)
  /\ Measured \in [RootLayers -> Nat \ {0}] /\ RunCap \in [AllocatedLayers -> Nat \ {0}]
  /\ {HeadroomBytes, BucketLimit, PeakUnit, LastRun} \subseteq Nat \ {0}
  /\ {Elsewhere, Deaths} \subseteq Nat

VARIABLES
  runsOf,    \* layer -> its stored runs
  retained,  \* layer -> the numbers of its current and previous run, 0 for none
  work,      \* layer -> its job
  died       \* jobs that died

capVars == <<runsOf, retained, work, died>>

-----------------------------------------------------------------------------
\* capacity_profile: three of the largest runs of each root layer, and a tenth.
TotalBytes(f, s) == FoldSet(LAMBDA x, sum : sum + f[x], 0, s)
RoundUp(n, unit) == ((n + unit - 1) \div unit) * unit
ExistingPeak == RoundUp((3 * TotalBytes(Measured, RootLayers) * 110 + 99) \div 100, PeakUnit)

\* The largest a run gets: the measurement varies by a tenth, a regional run is capped.
Largest(l) == IF l \in RootLayers THEN (Measured[l] * 110) \div 100 ELSE RunCap[l]
NoJob == [at |-> "idle", nr |-> 0, drops |-> 0, size |-> 0, counted |-> {}]

CapInit ==
  /\ runsOf = [l \in RunLayers |-> IF l \in RootLayers
       THEN {[nr |-> n, size |-> Measured[l], whole |-> TRUE, fresh |-> FALSE] : n \in 1..2}
       ELSE {}]
  /\ retained = [l \in RunLayers |-> IF l \in RootLayers THEN <<2, 1>> ELSE <<0, 0>>]
  /\ work = [l \in RunLayers |-> NoJob] /\ died = 0

Bytes(rs) == TotalBytes([r \in rs |-> r.size], rs)
BytesIn(rs) == TotalBytes([l \in RunLayers |-> Bytes(rs[l])], RunLayers)
Physical == Elsewhere + BytesIn(runsOf)
Named(l) == {r \in runsOf[l] : r.nr \in {retained[l][1], retained[l][2]}}

\* check_storage_guard: the publishing layer's previous run goes after the publication.
Retained(l) ==
  [k \in RunLayers |-> IF k = l THEN {r \in runsOf[k] : r.nr = retained[k][1]} ELSE Named(k)]
StorageGuard(l, size) == BytesIn(Retained(l)) + size <= BucketLimit

\* check_regional_capacity.  A run of a reserved layer that is not referenced and was
\* written in the last hours is one of the three that are reserved.
InFlight(l) == {r \in runsOf[l] \ Named(l) : r.fresh}
OtherRuns == [l \in RunLayers |-> (runsOf[l] \ Named(l)) \ InFlight(l)]
ReservedTwo == 2   \* mutant: the run being superseded is forgotten
ReservedRuns == 3
ReservedPeak ==
  ExistingPeak + ReservedRuns * TotalBytes(RunCap, AllocatedLayers)
    + Elsewhere + BytesIn(OtherRuns) + HeadroomBytes
RegionalGuard(l, size) ==
  /\ ExistingPeak >= TotalBytes([k \in RootLayers |-> Bytes(Named(k))], RootLayers)
  /\ ReservedPeak <= BucketLimit
  /\ Physical + size + HeadroomBytes <= BucketLimit

-----------------------------------------------------------------------------
\* What dead jobs left: neither named, nor a live job's own, nor what its commit dropped;
\* and what of that is old, which is what an admission has to count.
Orphans(l) == {r \in runsOf[l] \ Named(l) : r.nr \notin {work[l].nr, work[l].drops}}
OldOrphans == UNION {{<<l, r.nr>> : r \in {x \in Orphans(l) : ~x.fresh}} : l \in RunLayers}
NextRun(l) == 1 + Max({0} \cup {r.nr : r \in runsOf[l]} \cup {retained[l][1]})
Admitted(l, size) ==
  /\ work[l].at = "idle" /\ NextRun(l) <= LastRun
  /\ StorageGuard(l, size)
  /\ l \in AllocatedLayers => RegionalGuard(l, size)
  /\ work' = [work EXCEPT ![l] = [at |-> "upload", nr |-> NextRun(l), drops |-> 0, size |-> size,
                                  counted |-> IF l \in AllocatedLayers THEN OldOrphans ELSE {}]]
  /\ UNCHANGED <<runsOf, retained, died>>

Put(l, size, whole) ==
  runsOf' = [runsOf EXCEPT ![l] =
    @ \cup {[nr |-> work[l].nr, size |-> size, whole |-> whole, fresh |-> TRUE]}]
Goes(l, s) == work' = [work EXCEPT ![l].at = s]

UploadRun(l) ==
  /\ work[l].at = "upload"
  /\ Put(l, work[l].size, TRUE) /\ Goes(l, "commit")
  /\ UNCHANGED <<retained, died>>

CommitRun(l) ==
  /\ work[l].at = "commit"
  /\ retained' = [retained EXCEPT ![l] = <<work[l].nr, @[1]>>]
  /\ work' = [work EXCEPT ![l].at = "prune", ![l].drops = retained[l][2]]
  /\ UNCHANGED <<runsOf, died>>

\* apply_retention: complete runs older than the previous one, which is of the new run
\* when there is none.
Prunable(l) ==
  {r \in runsOf[l] : r.whole /\ r.nr < Min({n \in {retained[l][1], retained[l][2]} : n > 0})}
PruneRuns(l) ==
  /\ work[l].at = "prune"
  /\ runsOf' = [runsOf EXCEPT ![l] = @ \ Prunable(l)]
  /\ work' = [work EXCEPT ![l] = NoJob]
  /\ UNCHANGED <<retained, died>>

JobDies(l) ==
  /\ work[l].at # "idle" /\ died < Deaths
  /\ died' = died + 1 /\ work' = [work EXCEPT ![l] = NoJob]
  /\ IF work[l].at = "upload" THEN Put(l, work[l].size - 1, FALSE) ELSE UNCHANGED runsOf
  /\ UNCHANGED retained

\* IN_FLIGHT_HOURS pass, longer than the job that wrote the run can live.  The age of a
\* referenced run does not matter.
Ages(l, r) ==
  /\ r \in runsOf[l] \ Named(l) /\ r.fresh /\ r.nr # work[l].nr
  /\ runsOf' = [runsOf EXCEPT ![l] = (@ \ {r}) \cup {[r EXCEPT !.fresh = FALSE]}]
  /\ UNCHANGED <<retained, work, died>>

CapNext ==
  \E l \in RunLayers :
    \/ Admitted(l, Largest(l))
    \/ UploadRun(l) \/ CommitRun(l) \/ PruneRuns(l) \/ JobDies(l)
    \/ \E r \in runsOf[l] : Ages(l, r)

CapSpec == CapInit /\ [][CapNext]_capVars

-----------------------------------------------------------------------------
Uncounted(l) ==
  [k \in RunLayers |-> {r \in Orphans(k) : <<k, r.nr>> \notin work[l].counted}]

\* From its admission to its end a regional publication has its headroom, whatever other
\* layers upload meanwhile: physical bytes and headroom stay within the limit, but for what
\* jobs that died have left since, or too recently to be counted.
CapacityHolds ==
  \A l \in AllocatedLayers :
    work[l].at # "idle" => Physical + HeadroomBytes <= BucketLimit + BytesIn(Uncounted(l))

=============================================================================
