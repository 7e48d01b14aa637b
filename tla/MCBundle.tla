------------------------------ MODULE MCBundle ------------------------------
(***************************************************************************)
(* The components that share no state with the publisher's, in one run:    *)
(* each has its own behaviours, in which the variables of the others stay  *)
(* as they are.  The initial state chooses the part that moves.            *)
(***************************************************************************)
EXTENDS StorageAdmission, LandIndex, MCLandRaster, Capacity, Dispatcher, IngestJob,
        RegionalWatch, RollingSource, MCCubeTiles, DirStore, Functions

VARIABLE part

CONSTANTS
  root, land_, shared, w1, w2,   \* owners and identities of StorageAdmission
  home, other                    \* domains of LandIndex

-----------------------------------------------------------------------------
\* StorageAdmission: two jobs of one writer and one identity, and one of another writer,
\* which fits beside the first but not beside the second.
TheOwner == [j \in 1..3 |-> IF j = 3 THEN land_ ELSE root]
TheWork == [j \in 1..3 |-> IF j = 3 THEN w2 ELSE w1]
TheSize == [j \in 1..3 |-> IF j = 2 THEN 3 ELSE 2]
ThePlan == <<"data", "pointer", "delete">>
TheCeiling == [o \in {root, land_, shared} |-> IF o = shared THEN 2 ELSE 4]
TheInitial == [o \in {root, land_, shared} |-> IF o = land_ THEN 0 ELSE 1]

\* One fault at a time: an upload or a write of the ledger is on its way, or a
\* reservation has run out.  No data is found stored already: it would only save bytes.
FewFaults ==
  /\ Cardinality(writes) + Cardinality({j \in Jobs : late[j] # "none"}) + Cardinality(expired) <= 1
  /\ expired # {} \/ writes # {} => op = NoWrite
  /\ expired # {} => ~ledger.paused
  /\ \A o \in Managed :
       stored[o] + Cardinality({j \in JobsOf(o) : pos[j] > 3})
         >= Initial[o] + Cardinality({j \in JobsOf(o) : pos[j] > 1})

\* Two of the three jobs start: two of one identity, two that fit, or, without a fault, two
\* that do not.
Started(jobs) == \A j \in jobs : ~Idle(j)
TwoOfThree ==
  /\ ~Started(Jobs)
  /\ Started({2, 3}) =>
       writes = {} /\ expired = {} /\ \A j \in Jobs : late[j] = "none" /\ step[j] # "stopped"

\* LandIndex: one lost answer or one failure, or one builder of the other domain; builds
\* of one hour are of the second.  Builders are alike, so their builds come in order.
Nth(b) == build[b].hour + IF build[b].domain = home THEN LastHour ELSE 0
LandBound ==
  /\ \A b, c \in Builders : b < c => Nth(b) <= Nth(c)
  /\ Cardinality(requests) + Cardinality({b \in Builders : phase[b] = "failed"})
       + Cardinality({b \in Builders : build[b].domain # home}) <= 1
  /\ \A b \in Builders : build[b].domain # home => build[b].hour = 1
  /\ \A b, c \in Builders : b # c /\ build[b] = build[c] => build[b].hour = 2
  /\ \A b, c \in Builders : build[b].domain # home => build[c].hour # 3

\* IngestJob: one option is given; without one, one object of a regional run is written
\* again.
Given ==
  {o \in {"wait", "force", "skips", "paid"} : job.opt[o] /\ ~(job.opt.regional /\ o = "skips")}
IngBound ==
  /\ Cardinality(Given) <= 1
  /\ FoldFunction(+, 0, source) <= FileCount + 2
  /\ Given # {} \/ ~job.opt.regional => \A f \in 0..FileCount : source[f] <= 1

\* Capacity: a root layer, and two of the allocation.
TheMeasured == [l \in RootLayers |-> 10]
TheRunCap == [l \in AllocatedLayers |-> 5]

\* RegionalWatch: two publications, and two reports, or one that is of no use beside one
\* of them.
InOrder(r) == r.outcome = "published" /\ r.finished # -1 /\ r.valid
Useless == {r \in reports : ~InOrder(r)}
WatchBound ==
  /\ Cardinality(committed) <= 2 /\ Cardinality(reports) <= 2 /\ Cardinality(Useless) <= 1
  /\ Useless # {} => Cardinality(committed) + Cardinality(reports) <= 3

\* DirStore: only of a pointer does it matter what is written.
DirBound == \A c \in Clients : client[c].key \in Statuses \cup Objects => client[c].new # "two"

-----------------------------------------------------------------------------
\* Each part at rest, in a state of its own.
AdmRest == AdmInit
LandRest == build = [b \in Builders |-> [domain |-> home, hour |-> 2]]
              /\ landStatus = [domain |-> home, hour |-> 0] /\ LandInit
RasterRest == dtm = Deep /\ coast = <<>> /\ RasterInit
CapRest == CapInit
DispRest ==
  /\ fire = [cron |-> 1440 + Hm(5, 0), late |-> 5, full |-> TRUE] /\ disabled = {}
  /\ due = {} /\ posting = [NoPost EXCEPT !.at = "missed"] /\ failedLayers = {} /\ started = {}
NoOptions ==
  [regional |-> FALSE, cycle |-> NoCycle, wait |-> FALSE, force |-> FALSE, skips |-> FALSE,
   paid |-> FALSE]
IngRest == newest = 0 /\ job = NewJob(NoOptions) /\ IngInit
WatchRest == WatchInit
RollRest == RollInit /\ reading.layer = "currents" /\ reading.named = Unnamed
TilesRest == weather = <<>> /\ fetched = {} /\ cube = NoCube /\ tiles = <<>> /\ cubeAt = "none"
DirRest == DirInit

BundleInit ==
  \/ /\ part = "admission" /\ AdmInit
     /\ LandRest /\ RasterRest /\ CapRest /\ DispRest
     /\ IngRest /\ WatchRest /\ RollRest /\ TilesRest /\ DirRest
  \/ /\ part = "land" /\ LandInit
     /\ AdmRest /\ RasterRest /\ CapRest /\ DispRest
     /\ IngRest /\ WatchRest /\ RollRest /\ TilesRest /\ DirRest
  \/ /\ part = "raster" /\ RasterInit
     /\ AdmRest /\ LandRest /\ CapRest /\ DispRest
     /\ IngRest /\ WatchRest /\ RollRest /\ TilesRest /\ DirRest
  \/ /\ part = "capacity" /\ CapInit
     /\ AdmRest /\ LandRest /\ RasterRest /\ DispRest
     /\ IngRest /\ WatchRest /\ RollRest /\ TilesRest /\ DirRest
  \/ /\ part = "dispatcher" /\ DispInit
     /\ AdmRest /\ LandRest /\ RasterRest /\ CapRest
     /\ IngRest /\ WatchRest /\ RollRest /\ TilesRest /\ DirRest
  \/ /\ part = "ingest" /\ IngInit
     /\ AdmRest /\ LandRest /\ RasterRest /\ CapRest
     /\ DispRest /\ WatchRest /\ RollRest /\ TilesRest /\ DirRest
  \/ /\ part = "watch" /\ WatchInit
     /\ AdmRest /\ LandRest /\ RasterRest /\ CapRest
     /\ DispRest /\ IngRest /\ RollRest /\ TilesRest /\ DirRest
  \/ /\ part = "copernicus" /\ RollInit
     /\ AdmRest /\ LandRest /\ RasterRest /\ CapRest
     /\ DispRest /\ IngRest /\ WatchRest /\ TilesRest /\ DirRest
  \/ /\ part = "tiles" /\ TilesInit
     /\ AdmRest /\ LandRest /\ RasterRest /\ CapRest
     /\ DispRest /\ IngRest /\ WatchRest /\ RollRest /\ DirRest
  \/ /\ part = "store" /\ DirInit
     /\ AdmRest /\ LandRest /\ RasterRest /\ CapRest
     /\ DispRest /\ IngRest /\ WatchRest /\ RollRest /\ TilesRest

BundleNext ==
  /\ UNCHANGED part
  /\ \/ part = "admission" /\ AdmNext
        /\ UNCHANGED <<landVars, rasterVars, capVars, dispVars,
                       ingVars, watchVars, rollVars, tileVars, dirVars>>
     \/ part = "land" /\ LandNext
        /\ UNCHANGED <<admVars, rasterVars, capVars, dispVars,
                       ingVars, watchVars, rollVars, tileVars, dirVars>>
     \/ part = "raster" /\ RasterNext
        /\ UNCHANGED <<admVars, landVars, capVars, dispVars,
                       ingVars, watchVars, rollVars, tileVars, dirVars>>
     \/ part = "capacity" /\ CapNext
        /\ UNCHANGED <<admVars, landVars, rasterVars, dispVars,
                       ingVars, watchVars, rollVars, tileVars, dirVars>>
     \/ part = "dispatcher" /\ DispNext
        /\ UNCHANGED <<admVars, landVars, rasterVars, capVars,
                       ingVars, watchVars, rollVars, tileVars, dirVars>>
     \/ part = "ingest" /\ IngNext
        /\ UNCHANGED <<admVars, landVars, rasterVars, capVars,
                       dispVars, watchVars, rollVars, tileVars, dirVars>>
     \/ part = "watch" /\ WatchNext
        /\ UNCHANGED <<admVars, landVars, rasterVars, capVars,
                       dispVars, ingVars, rollVars, tileVars, dirVars>>
     \/ part = "copernicus" /\ RollNext
        /\ UNCHANGED <<admVars, landVars, rasterVars, capVars,
                       dispVars, ingVars, watchVars, tileVars, dirVars>>
     \/ part = "tiles" /\ TilesNext
        /\ UNCHANGED <<admVars, landVars, rasterVars, capVars,
                       dispVars, ingVars, watchVars, rollVars, dirVars>>
     \/ part = "store" /\ DirNext
        /\ UNCHANGED <<admVars, landVars, rasterVars, capVars,
                       dispVars, ingVars, watchVars, rollVars, tileVars>>

BundleSpec ==
  BundleInit /\ [][BundleNext]_<<part, admVars, landVars, rasterVars, capVars, dispVars, ingVars,
                                 watchVars, rollVars, tileVars, dirVars>>

=============================================================================
