# Verification of forecast-tiles

`forecast-tiles` turns weather and ocean model output into immutable runs of gzipped
tiles on an S3-compatible bucket (R2), and moves a small JSON pointer to the newest
run of each layer. Many independent jobs do so at once (GitHub Actions jobs that a
cron Worker and people start), with no coordinator: all they share is the bucket.
These TLA+ modules model what those jobs do to the bucket and to each other.

Paths below are relative to the repository; "run id" means `<layer>-<cycle>`.

## 1. The system

### Components, their state and operations

| component | code | state it keeps | operations |
|---|---|---|---|
| run upload | `src/ingest/publish.py` `put_immutable`, `_reuse_partial_root_tiles`, `build_manifest`, `_post_publish_check` | `forecast-runs/<run>/tiles/*`, `.../manifest.json`, created once and never replaced | create a tile, resume a partial root run, create the manifest last, read back |
| pointer commit | `publish.py` `commit_layer_entry`, `check_not_older`, `_same_commit` | `latest.json` (seven root layers) and `latest-regional.json` (three regional ones): per layer the current run, the previous run, `published_at` | compare-and-swap of one layer's entry, up to six attempts, settled by a read |
| run life and retention | `publish.py` `publish_run`, `apply_retention`, `referenced_run_ids` | all of the above and `status/<layer>.json` | admission by cycle, upload, check, commit, prune, status |
| object stores | `publish.py` `S3Store`, `DirStore` | the objects and their ETags; for `DirStore` files, directories, temporary files and directory locks | conditional put, get, list, delete; a put to the bucket may have an unknown outcome; several processes may share a directory |
| byte guards and pointer ownership | `publish.py` `check_storage_guard`, `check_pointer_ownership`; `capacity.py` | none | sum what is stored, refuse a publication before its first upload |
| regional operator control | `regional_control.py` | the entries of `latest-regional.json` | roll a layer back to its previous run, disable it |
| storage audit | `audit.py` | none; reads pointers and listings | report, and on request delete, old runs nothing names |
| storage admission | `storage_admission.py`, `capacity.py` | `ops/capacity-v1.json`: per owner a ceiling and a baseline, permanent debits as reservations, seen work, a pause and an epoch | reserve bytes, put under a reservation, finish, pause, reconcile |
| paid work | `paid_work.py`, `paid_work_review.py`, `forecast_recovery.py` | `ops/paid-work.json`: policy, starts and seconds used, seen work, one active lease per channel | check, acquire a lease, finish it, renew the review, permit a failed cycle again |
| ingest command | `cli.py`, `regional_attempt.py` | an attempt report | wait for a cycle, build, validate, recheck the source, publish, release |
| land index | `land/*` | `land-index/<id>/*`, `land-index/latest.json` per domain | build, upload, move the domain's entry, prune |
| provider sources, Open-Meteo | `sources/*`, `sources/openmeteo/*` | none (downloads); the provider's stores change meanwhile | availability, range reads, decoding, recheck of ETags or of a store's update state |
| cube, tiles, codec, validation | `cube.py`, `tile.py`, `tilekit/*`, `validate.py` | none | numerical, sequential |
| schedule and health | `regional_schedule.py`, `regional_health.py`, `regional_canary.py`, `ecmwf_short_fallback.py` | none | next slot, freshness reports |
| dispatcher | `dispatcher/src/*.ts` | none (a cron Worker) | from a fire time to the jobs that are due |
| workflows, contracts, probes | `.github/workflows`, `contracts`, `scripts` | none | configuration |

### How they interact

* Publishers of different layers share a pointer document and overwrite each other's
  bytes unless compare-and-swap stops them. Publishers of one layer and one cycle (a
  cron fire and a fallback, a job started again by hand) share a run's keys.
  Publishers of one layer and different cycles share the pointer entry and prune each
  other's superseded runs.
* Retention reads the pointers that other publishers, and the operator, move, and
  deletes objects that others may be checking.
* The operator's command writes the same document with the same compare-and-swap, but
  is the one writer that may take a layer *back*.
* The audit, when an operator asks for it, deletes what retention does not know about: runs that killed, refused or
  overtaken jobs left behind. It relies on age, not on a lock.
* Paid work and storage admission gate a job before it builds and before each put.
* The dispatcher starts jobs by a timetable that the ingest repeats in Python, to leave
  paid slots to scheduled jobs and to name the cycle a fallback fetches.
* A job reads a provider that goes on writing: files are added, written again, or a
  whole store is rewritten in place. Each source has its own recheck.
* Jobs leave attempt reports, from which freshness and the canary's score are computed.

### What is hard

1. An answer to a put may be lost, and the put may be applied later, between other
   jobs' writes: every compare-and-swap has a third outcome besides done and refused.
2. A retry after a lost answer may meet its own earlier write, and must neither do
   the work twice nor derive its "previous run" from itself.
3. A check is made long before what it protects: the cycle is compared before the
   upload, a candidate is re-checked before its many deletions, the audit's age
   condition is evaluated when the report is made.
4. A job may be killed between any two objects; a run is complete only when its
   manifest is there, and a half-deleted run must not look complete.
5. Attempts are bounded; a burst of commits may exhaust them.
6. A permission is read and then used: an upload checked against the byte ledger goes
   out after a pause; a wait ends while the provider is finishing.
7. Two tables in two languages must agree, and a late cron fire must not be taken for
   another slot.
8. Boundaries: the sentinel of a dtype, a tile cut by its grid, an edge that cuts a cell
   between two samples.

PROJECT.json lists these as hazards at their lines, each with the property that would
catch it, or with the reason why none does.

### What makes it correct

* A run the pointer names is whole, always; its manifest describes the stored bytes,
  all from one version of the provider's data.
* No confirmed commit is undone by another publisher; a layer goes back only when
  its operator says so, and from the run the operator named.
* Retention and audits delete superseded or abandoned runs and nothing else; retention
  deletes all it should when nothing fails, and one audit, given when all is quiet, the rest.
* A job that ends "stale" or "conflict" tells the truth, and neither its report, nor the
  freshness of a layer, nor the score of a canary is better than it.
* The bucket never exceeds its limit; every stored byte of a managed writer is charged.
* A published cube was read from one state of its provider and reads back to a client
  within half a quantum; a land index blocks all that the
  sources its tiles are compiled from block.

## 2. Modules

| module | models | extends |
|---|---|---|
| `LayerRegister` | the abstract specification of a pointer document | |
| `PointerCommit` | `commit_layer_entry` | |
| `Publication` | `publish_run` with `apply_retention` | `PointerCommit` |
| `RegionalControl` | `change_regional_entry` next to publishers | `Publication` |
| `StorageAudit` | `audit_runs`, `delete_unreferenced` next to publishers | `Publication` |
| `PaidWork` | the usage ledger: jobs, operator, clock | |
| `RunUpload` | the bytes of one run, several processes | |
| `StorageAdmission` | the byte ledger: reservations, guarded puts, reconciliation | |
| `LandIndex` | `publish_index`; implements `LayerRegister` | instance of `LayerRegister` |
| `LandRaster` | the compilation and encoding of land tiles | |
| `Capacity` | the byte guards next to jobs of several layers | |
| `Dispatcher` | cron fires, timetable, workflow dispatches; `next_dispatch`, `fallback_cycle` | |
| `IngestJob` | `main` and `_run_forecast` against a provider | |
| `RegionalWatch` | attempt reports, `freshness`, `score_canary` | |
| `RollingSource` | the Copernicus stores and the jobs that read them | |
| `CubeTiles` | from GRIB messages to a client's point | |
| `DirStore` | the files, locks and renames of a local store | |
| `MC*` | what TLC needs: symmetry, bounds | the module of that name |
| `MCBundle` | ten independent components in one run | all of them |
| `MCUploadAudit` | the upload of one run, and the deleting audit, in one run | `RunUpload`, `StorageAudit` |
| `PointerCommitProofs`, `RunUploadProofs`, `StorageAdmissionProofs`, `PaidWorkProofs` | theorems | the module of that name |
| `LandIndexProofs` | theorems about the land index: its publication and its masks | `LandIndex`, `LandRaster` |
| `PublicationProofs` | theorems about `Publication`, `RegionalControl` and `StorageAudit` | `PointerCommitProofs`, these |
| `SourceProofs` | theorems about the two jobs that read a source that changes | `RollingSource`, `IngestJob` |
| `BundleProofs` | theorems about `DirStore`, `RegionalWatch`, `Capacity`, `CubeTiles` and `Dispatcher` | these |

An operator marked *mutant* stands beside the definition it would replace; PROJECT.json
pairs each with a property that then fails. No specification uses one.

### LayerRegister and PointerCommit

`LayerRegister` is what a reader of the pointer may rely on: per layer a current and a
previous run, and one operation, which publishes the same or a newer cycle.

`PointerCommit` is the protocol. `pointer` is the document; `pc`, `attempt`, `base` and
`found` are the locals of each `commit_layer_entry` call (the place, the loop counter,
the document whose ETag the put names, the previous run it returns). One action per
outcome of the read (`ReadRecovered`, `ReadStale`, `ReadPrepare`), of the put
(`PutApplied`, `PutRefused`, `PutUnknown`) and of the last read (`SettleFound`,
`SettleLost`). `pending` holds requests whose answer was lost, which `Land` applies or
`Drop` forgets at any later time. An ETag is the MD5 of the content, so `Unchanged` is
equality of documents, ABA included. A run id is its layer and cycle, so runs are
numbered by cycle. `published_at` has a resolution of one second: calls may share a
stamp, and `SameCommit` may then take another job's commit of the same run for its own.

### Publication

`stage` is where `publish_run` is. `Admit` is the first look at the pointer, `Probe`
the look at a stored manifest, then `PutTile`, `PutManifest`, `Verify`, the commit of
`PointerCommit`, `List`, `Consider` (the re-read of the pointers before each
candidate), `DeleteTile`, `DeleteManifest` and `PutStatus`. `Die` kills a job
before its commit is confirmed and `Leave` inside retention or status, whose failures
the code reports without failing the job. Contents are left to
`RunUpload`: a create of a stored key may be accepted as identical or refused as
different. `check_storage_guard` appears as a refusal that may happen at any time.

### RunUpload

The processes of *one* run. A tile's bytes are the data it was built from and, for root
layers, the second of the build (`tile.py` writes `generated_at` into the header);
regional tiles carry the cycle's time instead. `regional`, chosen at Init, says which.
`Look`, `Reuse`, `PutCreated`, `CreateRefused`, `CreateUnknown`, `Settle` and `PostCheck` follow
`publish_run` from the look at a stored manifest to the check, with the three outcomes of
`put_immutable`; `inflight` holds creates whose answer was lost.

### RegionalControl

The command's loop: `Enter`, `ReadCurrent`/`ReadOther`, `CheckTarget`/`CheckFails`,
`PutChange`, `PutUnsettled`, `SettleDone`/`SettleAgain`. A conflict and a lost answer are
both settled by reading the entry (`SettleAgain` compares the entry alone, as the code does,
whoever wrote it). The module docstring asks for dispatch and writers to be stopped;
`Quiesced` names the kinds of command that are entered so. A rollback is checked without it,
a disable only with it: after a disable the layer has no entry, so no run is referenced and
the next publication starts as if there had been none.

### StorageAudit

`ReadPointers`, `ListRuns` (the report, with the age condition), `Recheck`, `ListKeys`,
`DeleteKey`, `NextRun`, `EndAudit`; then another may begin. Deletion is what an operator
asks for, `audit_runs.py --delete-unreferenced` (`src/README.md:149-156`); the workflow of
the repository runs the audit by hand and read-only. So an audit may begin at any time, and
nothing makes one begin. Age is abstracted to what 24
hours guarantee when a job lasts at most four: every job that created an object of the
run is over and so are its requests. `wrote` records who created something.

### PaidWork

The ledger `doc` holds policy and usage in one document. A job goes through `Check` (`main`,
before the alarm is set), `Acquire` (one round of `Guard.acquire`: read, `Admissible`,
`Charged`), the put (`Written`, `Refused`), its work (`Finish`, or `Expire` when the alarm
goes off), `Release` and the put of that. `Stop` ends it anywhere: killed, a read that
fails, or a put of unknown outcome, which the code never repeats and which `LateWrite` may
apply later. `Leave` is the end of the wait or a cycle already published. All share the
clock `now`; `Tick` does not let a job run on beyond its alarm for longer than `Overrun`,
which must be less than the lease's `Grace` (`OverrunAssumption`): that is what the grace is
for, and what the runners' clocks must agree to. The operator pauses by hand (`Pause`),
records a review (`Review`) or permits a failed cycle (`Look`, `PermitRead`), one command at
a time. `started` and `permitted` remember what the ledger has seen, for the properties.
Malformed documents, provider gates and the billing period only close admission, as a pause
does, and are left out.

### StorageAdmission

`step` is where `reserved_publication` is: `Read`, `Measure` and the put of the ledger
(`Written`, `Refused`) make up one round of `acquire`, `Confirm` is the check after it;
then for each request of the plan `Guard` (`check`), for a mutable key `Weigh` (the
inventory), and the request itself (`SendUpload`, `SendAgain`, `SendDelete`), so that
whatever happens between the check and the request is there; last `Finish`. `Stop` is a
kill, or an answer that is lost: the upload (`late`) or the write of the ledger
(`writes`) may be applied afterwards by `LateUpload`, `LateWrite`. The operator pauses
(`SetPaused`) and reconciles, with the evidence the docstring asks for (`Drained`: every
writer has stopped and nothing it sent is on its way). Keys are abstracted to owners, an
object to a byte, and a listing (`Inventory`) is one step. `strays` counts, per job,
requests sent without a permission since the pause was last changed.

### LandIndex and LandRaster

`LandIndex` follows `publish_index` for several builders: `StartLand`, `AdmitLand`,
tile by tile, the manifest, `CheckIndex`, `_update_latest` (read, put, settle),
then retention index by index and object by object, and status. There are neither
cycles nor stamps: an id is its domain and hour. Creating an object is one step here,
since `RunUpload` has what its answers may be.

`LandRaster` is `build_index` for each tile: depths reduced to cells, polygons chosen by
a point in the tile (`Reaches`), edges sampled with their elbows (`Marked`), interiors filled
by crossings (`Filled`), the union, the dilation cropped to the tile, rows packed into
bytes, and the build's own check. Positions are integers, so a rounding of `float64` is
not seen. `Touched` and `Inside` are the reference: an edge through the inside of a cell,
a centre within an odd number of edges, computed along the other axis than the code's.
`Unsailable` asks that of all sources; `SeenUnsailable` of those a tile is compiled from,
which leave out the polygons without a point in it. `CoversSources` speaks of the second,
`TouchedIsBlocked` of the first.

### Capacity

Runs are stored, named, pruned or left behind by jobs that die, per layer; `Admitted`
evaluates `check_storage_guard` and, for an allocated layer,
`check_regional_capacity`, as sums over what is stored. Several layers may be between
admission and commit at once. `Ages` lets `IN_FLIGHT_HOURS` pass. `counted` remembers
which leftovers an admission saw.

### Dispatcher

The 13 rows of the timetable, the crons of `wrangler.toml` and the regional lags are
constants of the module, as they are in the code. A state is one fire: its cron, how
late its scheduled time is, the canary or the full cadence, at most one disabled
workflow. `Fire` computes the slot and what is due; then dispatch by dispatch a POST
that is accepted or fails, and for a disabled workflow the question and the enabling.
`NextDispatch` and `FallbackCycle` are the two functions of the ingest that repeat the
timetable.

### IngestJob

One job with any options the parser lets through, next to a provider that adds files or
writes them again (`ProviderWrites`), to another job of its layer and to a clock. The
wait is `PollReady`, `PollNot`, `PollAgain`; then `Resolve`, `AlreadyPublished`,
`Acquire`, the downloads with their retries in the grace period, `Validate`, the recheck
file by file, `PublishRun`, the report and `main`'s `finally`. An alarm may end paid work
anywhere. `got` is what the job read, `snap` what the provider offered when the recheck
began. The job wakes at most `SlowStep` late: without that no wait has an end.

### RegionalWatch

Commits of one layer, the jobs' reports, which may be lost, unstamped or invalid, and
the functions `freshness` and `score_canary` over what has arrived, as operators.

### RollingSource

A store that each bulletin rewrites in place, first its axis, then instant by instant
(`UpdateBegins`, `Rewritten`, `UpdateEnds`), and a job of either Copernicus layer,
with or without a named cycle, that resolves, checks the state of the dataset, reads
instant by instant and, for IBI, compares the state again. The catalogue may be
unavailable at any time; `override` is the operator's switch for that.

### CubeTiles

Messages in any scan order, steps in any order of arrival, optional fields that are
absent; `Collect` brings rows and columns in order and quantises, `ValidateCube` checks
range and gaps, `BuildTiles` cuts and encodes, `ReadPoint` is a client. Values are
integers, `Scale` units of the provider to a quantum, with halves, so that rounding and
clipping are those of the code.

### DirStore

One action per system call that matters: `Mkdir`, `OpenDir`, `Lock`, `Exists`, `Compare`,
`WriteTemp`, `Replace`, `Close` for a put, `Look`, `Unlink`, `LookEmpty`, `Rmdir` for a
delete, of any number of processes, each of which may `Die` between two. The root
directory holds the pointers and stays; a run's directory goes with its last file and may
be made again, as another inode with another lock: a writer that holds the lock of the old
one does not keep out a writer of the new. Temporary files of the dead (`litter`) keep a
directory from being removed.

### MCBundle

These ten components share no variable with the publishers' modules nor with each
other: what they meet of one another (a publication, a ledger, a clock) each has in its
own abstraction. `part` chooses at Init the one that moves; the others are at rest. The
states of the run are the sum of theirs, not a product. No symmetry, no fairness.
`MCUploadAudit` does the same with `RunUpload` and `StorageAudit` (`moving`), whose liveness
properties keep the fairness each module states.

## 3. Runs

| run | question | result |
|---|---|---|
| `commit_safety` | three publishers, two layers, three cycles, lost answers, kills | holds; implements `LayerRegister` |
| `commit_burst` | seven root layers at once, the code's six attempts | `NoConflict` violated (finding 1) |
| `run_safety` | three publications of one layer, three cycles, two tiles, kills anywhere | holds |
| `run_retention` | the same, nothing lost, an attempt per publisher | holds: no run leaks, every publication ends |
| `control` | a command next to three publishers of two layers | holds: it undoes only the run it names, and what it restores stays |
| `upload_audit` | two processes of one run, root or regional; deleting audits next to regional publishers killed anywhere | holds: one version, described by its manifest, published once, resumed when partial; named runs stay, abandoned ones go |
| `audit_root` | the audits next to publishers of a root layer, whose jobs resume | `NamedRunsStay` violated (finding 2) |
| `paid_work` | three producers on two channels, an operator, a clock | holds |
| `bundle` | each of ten components by itself | holds; `LandIndex` implements `LayerRegister` |
| `land_seam` | is the outward buffer there in the neighbouring tile too? | `BufferedEverywhere` violated (finding 4) |
| `land_reach` | is every cell blocked that any source geometry touches? | `TouchedIsBlocked` violated (finding 5) |
| `upload_force` | a second job for a complete root run | `ForceRepublishes` violated (finding 3) |

What `bundle` checks, component by component:

| component | property | in words |
|---|---|---|
| `StorageAdmission` | `BytesHold` | all a managed writer has stored or on its way is charged, the charges fit the bucket, and the bucket its limit |
| | `WorkOnce` | one publication identity uploads once, reconciliations included |
| | `StopsAfterPause` | after a pause, an expiry or a new epoch a job sends at most the one request it had checked |
| | `NoCredit` | charges shrink only by a reconciliation, and then no reservation is still at work, even if its answer was lost and it is applied late |
| `LandIndex` | `LandIntegrity` | every named index is whole and of one build |
| | `LandImplementsRegister` | its pointer is the register of forecast layers |
| `LandRaster` | `CoversSources` | a built tile blocks every cell a dry or missing depth is in, or a polygon with a point in the tile touches or covers, and the buffer around those |
| `Capacity` | `CapacityHolds` | an admitted regional publication keeps its headroom, but for what dead jobs left uncounted |
| `Dispatcher` | `StartsItsSlot` | a fire starts or reports each layer of its own slot, and nothing else; `next_dispatch` and `fallback_cycle` name the Worker's next slot and last cycle (`TimetablesAgree`) |
| `IngestJob` | `OneSnapshot` | a regional run was read from one state of the provider |
| | `ReportTruth` | outcome and exit code against what was committed |
| | `WaitsItsTime` | a wait ends at its deadline, and not because the cycle was just there |
| `RegionalWatch` | `VerdictsTrue` | on time means committed by the deadline; a passed canary and a stale layer are so |
| `RollingSource` | `OneBulletin` | no values older than their label, and an IBI cube of one bulletin |
| `CubeTiles` | `ReadBack` | each value reads back within half a quantum, what is missing as missing |
| `DirStore` | `PointersAreSwapped` | between its comparison and its rename nothing changes the pointer a process replaces |

### Bounds

* Three publishers are the least that show a race between two with a third already overtaken
  or retained; three cycles the least with a current, a previous and a superseded run. Two
  layers show that one carries the other's entry over. The invariants of the first three
  modules are proved for any number.
* `Attempts` 2 is the least with a retry whose base is another document than the first.
  `run_retention` takes 3, one for each publisher, because that is its claim; `commit_burst`
  takes the code's 6 with the seven layers of `latest.json`.
* Tiles: 2 give a partial run, `Sample` 1 of them a check that misses one.
* `upload_audit`: an upload has two processes and two of everything else; proofs cover any
  number. The audit is next to three publishers of one layer over three cycles, one tile
  each and an attempt each: the least with a named run, one half deleted by a retention that
  was killed, and one abandoned.
* Constraints prune, they add no behaviour. `BurstBound` orders six of seven publishers;
  `DistinctRuns` and `OneElsewhere` choose jobs at Init; `FewFaults` cuts behaviours with a
  second fault. A cut behaviour is lost, not accepted: the liveness property `Resumable` is
  still that of all behaviours with one fault at a time, because faults are never forced and
  no cut state is needed for progress.
* `paid_work`: two jobs of one work and one of another channel are the least with a
  duplicate, a recovery and `single_active` across channels. Four ticks hold an interval of
  three, so that the first work may be recovered and started again while the other channel's
  lease and catch-up slot are met. The limits are such that the third start is refused. One
  of a lost write, a pause and a command is under way at a time. `FirstFirst` numbers the
  interchangeable jobs and recovers only theirs.
* `bundle`. `StorageAdmission`: two jobs of one writer and identity and one of another
  writer, of which the first and third fit together and the second and third do not; one
  reconciliation; two attempts; one fault at a time (`FewFaults`), two of the three jobs at
  work (`TwoOfThree`). The plan is data, pointer, delete: the status is a second mutable
  put. `LandIndex`: three builders, three hours, two domains, one lost answer or failure.
  `LandRaster`: two tiles of 3x3 cells, all triangles over a grid of points in and around
  the first tile, quarter-cell positions, rows of two bytes. `Capacity`: one root and two
  allocated layers, four runs each, one death, a limit that three layers can meet.
  `Dispatcher`: all crons of a day, on time, 4, 5 and 10 minutes late: the last tolerated
  minute, the first missed one, and one that meets another slot. `IngestJob`: two files, two
  versions, one option at a time (`IngBound`), and a horizon beyond deadline and grace.
  `RegionalWatch`: two expected cycles and a later one, two publications and two reports,
  one of them of no use. `RollingSource`: two instants, two bulletins: enough to mix them.
  `CubeTiles`: two grids, one from the north at longitude 0 and off the tiles' lines, one
  from the south at the antimeridian and on them; tile sizes 1 and 3; one and two bytes;
  values missing, implausible and out of the dtype's range, alone, in a corner, in a half
  and everywhere. `DirStore`: two processes, one key of each kind, two contents, two
  directories made for a run (`MaxInode`), so that a lock on a removed one is met.
* `InOrder` and `FirstOfEach` number interchangeable things, where liveness rules out TLC's
  symmetry. `InOrder` also takes the runs in use to be of the first cycles without a gap, as
  `NoGaps` does in `commit_safety`: cycles are only compared with each other, so every
  behaviour with a gap has its like.

### Fairness

`WF(PubStep(p))` says a job that is not killed goes on to its next instruction; a killed one
has no step left. An audit is one command: `WF(phase # "idle" /\ AuditStep)` says that one
under way goes on until it is through, and `WF(LateCommit)` that a request is not on its way
for ever. Nothing makes an audit begin, for nothing in the repository does: `r2-audit.yml` is
started by hand and read-only, and deletion is an operator's command. `AbandonedGo` has the
operator's part as a hypothesis of its own, `OperatorAudits`: the command is given once at
some moment after the last job is over. What it shows is that one such audit is enough. No
fairness is assumed of kills, lost answers or publishers next to the audit. Strong fairness
is nowhere needed.

### Findings

1. `commit_burst`. The comment at `src/ingest/publish.py:72-74` says six attempts ride
   out a burst of every layer at once. With seven root layers one job can lose six
   times in a row; it then fails although nothing was lost, its run complete and
   unnamed. `run_retention` shows that as many attempts as publishers suffice.
2. `audit_root`. The audit's age condition counts object creations, and a root job that
   resumes an old partial run whose tiles are all stored creates none but the
   manifest. If it commits between the audit's re-check and its deletions, the audit
   deletes the run the pointer names. It needs a run older than a day to be built again
   from the same provider data, so it is rare. Regional runs are never resumed:
   `upload_audit`.
3. `upload_force`. The README and the help text offer `--force` to publish a cycle
   again; a root job's tiles hold its own build second, so the stored manifest differs
   and the job is refused. Incomplete runs, in contrast, do resume (`Resumable`).
4. `land_seam`. `docs/land-index-format.md` says the buffer holds everywhere in the tile;
   `landkit/grid.py` that the blocked set's edge lies `buffer_m` outside the source's.
   Each tile is compiled from what lies in it and widened within it (`compile.py:148-156`,
   `397-407`): land just beyond a tile's edge has no buffer on this side of it.
5. `land_reach`. The manifest of every index says that "a cell is blocked when any source
   geometry touches it" (`compile.py:80-83`; lines 5-8 and `docs/land-index-format.md:36`
   promise the same of routes). `land_polygons` takes a polygon only when one of its points
   is in the tile's box (`gshhg.py:130`). In TLC's counterexample an edge runs across a tile
   between two points outside it, and no cell of the tile is blocked. A polygon that covers
   a tile whole is left out in the same way. What is lost is blocked after all where the
   depths there are dry or missing, as the DTM mostly has them on land, and then the promise
   holds (`TouchedIsBlockedWhereLeftOutIsDry`); the build does not look. Full-resolution
   shorelines have their points close together, so an edge across a whole tile is not to be
   expected, one across a tile's corner is.

Noticed while modelling, and stated so in the properties rather than as findings:

* A cron fire ten minutes late may fall on the minute of another slot and repeat its
  dispatches (`StartsItsSlot` allows it); the jobs then find their cycles published.
* A superseded run that waits for retention longer than four hours counts as other bytes:
  a regional publication may be refused although it fits. The error is on the safe side.
* A job that fails after the commit (in its retention, the end of its reservation, its
  alarm) is reported as `failed`, `publication_failed` or `paused` although its run is
  published, and `score_canary` then counts its cycle as failed. `ReportTruth` allows it and
  `VerdictsTrue` is one-sided: a lost or failed report may hide a publication, none invents
  one.
* Status is put unconditionally, so the slower of two publishers may put an older run over a
  newer one, and status stays behind the pointer until the next publication. `StatusBehind`
  says only that it is never ahead.
* The GLO12 read is not rechecked: a cube may mix two bulletins, never one older than
  its cycle.
* `ReadBack` leaves out the row at the north pole: no tile has it.
* The docstring of `DirStore` (`publish.py:354-357`) calls its conditional writes "atomic
  across processes as R2's are". `PointersAreSwapped` is that for the pointers, whose
  directory stays. For the objects of a run it does not hold: when a delete removes the
  run's directory between `mkdir` and `open` of two writers, they lock two directories that
  had the same path, and both may create one key. Retention would have to delete a run that
  two local processes are writing; the property says so by naming `Swapped` keys only.

* An audit that dies in the middle of a run leaves the later tiles of it. Suppose the cycle
  is built again a day later, after the next audit has reported what was left: that audit
  may list the old and the new tiles, delete an old one, which the job then stores anew, and
  delete a new one after the job has verified it and committed. So TLC shows when
  `Interrupted` is TRUE; `upload_audit` has it FALSE, and `AuditSparesNamedRuns` assumes so.
  It takes an interrupted audit and an old cycle built again just at the next one.

What `paid_work` does not claim: that the cumulative limits leave a start to the scheduled
job (the code does not look), and that a cycle cannot be published between the two
reads of a recovery (the next job then finds it published and buys nothing).

## 4. Proofs

Checked by TLAPS for every value of the constants that satisfies the named assumptions
(numbers are naturals, sentinels lie outside the sets they mark). Each proof has the same
shape: a property that is not inductive, an invariant that says what the code relies on
between its steps, and one step per action. The invariants were checked by TLC first.

* **`PointerCommitProofs`**. `NoLostCommit` is not inductive: a put in flight could write
  anything. `IInv` adds `EntriesOrdered` (an entry's previous run is older than its current
  one), `PreparedForward` (a document a publisher or a late request is about to write moves
  its layer forward from the base it names) and `CommitsKept` (a confirmed commit, and the
  floor its publisher was told, stay behind the document). Every step either keeps the
  document or advances one entry (`StepAdvances`), and advancing keeps each conjunct.
  Theorems: `TypeCorrect`, `CommitsNeverLost`, `FloorNeverAhead`, `StaleCallsAreOvertaken`,
  and `Refinement`, which maps each applied put to `Publish` of `LayerRegister` and all else
  to stuttering. `AttemptsSuffice` counts: while no answer is lost, each attempt of a call
  but the last was paid by another call's confirmed commit (`LossesPaid`), so `NoConflict`
  holds for as many attempts as publishers, the bound below which `commit_burst` refutes it.
* **`PublicationProofs`**. `RunImplementsCommit`: each step of a publication is one of the
  protocol or leaves its variables alone, so `IInv` holds here too. `RunInv` adds what a
  publisher knows at each stage: uploaded tiles of a kept run stay (`UploadsKept`), so do
  those of requests on their way (`PendingKept`), and what retention has listed or is
  deleting is older than all the pointer retains (`DoomedOld`, from `FloorNeverAhead`).
  Hence `ReferencedRunsAreWhole`, `ManifestsVouch`, `StatusFollowsPointer`,
  `RetentionDeletesSuperseded`. `RunTypeCorrect` is its typing.
  `NothingIsLeftBehind` assumes `~Lossy`, as the run does whose claim it is (answers that
  are lost and jobs that are killed do leave runs behind). `LeakInv`: a complete run older
  than all that is retained is *answered for* by a call on that very run that is not
  confirmed, or by a confirmed call that has not listed yet and was told a newer floor, or
  that has the run in its list. A commit that moves the floor past a run is its own answer.
  `RegionalControl` is proved about here too. `CtlInv`: what a command has read, and what it
  or a write of it that arrives late would put in its place, differ as the command says
  (`Undoes`), and by nothing else; the conditional put compares the first of the two.
  Hence `CommandsUndoOnlyWhatTheyName`. For `RestoredRunsStay` the key is that a rollback
  moves the current run back but not the oldest retained one, so every conjunct of `RunInv`
  but the forward motion of the pointer survives it. It assumes that no command is a disable
  (`Rollbacks`).
  And so is `StorageAudit`, for regional layers. `AudInv`: a job stores its tiles in order, so
  what is left of a run that is not about to go are its first tiles (`StoredInOrder`); a run
  the audit has reported has a first tile that no call under way has stored (`Blocked`), and
  a regional call refuses what it did not store, so none gets past it to a commit; the keys
  about to go are of such runs (`Foreign`). Hence `AuditSparesNamedRuns`. It assumes that
  layers are regional (`audit_root` shows why) and that no audit is cut off in the middle of
  a run (section 3).
* **`RunUploadProofs`**. `UploadInv`: the store only grows (`StoreGrows`), what a process
  has counted as sent is stored with its own bytes, whatever a late create carries matches
  what is stored, and so a manifest, stored only after its tiles, describes them:
  `ManifestNamesStoredBytes`, `CommittedManifestIsStored`. `Uniform` gives
  `RunsAreOneVersion`; `RegionalAlone` gives `RegionalRunsPublishedOnce`.
* **`StorageAdmissionProofs`**. A sum of bytes is the number of bytes in a set of them
  (`Total` is a cardinality), so the library's facts about finite sets add and compare
  sums. `AdmInv` says for each job what its reservation stands for at its step, and for
  each write of the ledger that is under way or lost what it would change; what is stored
  of an owner, on its way, or allowed once more to a running job is covered by its
  debit. Hence `EachWorkIsUploadedOnce`, `PausesStopEveryJob`, `ChargesCoverTheStore` and
  `NothingIsCredited`. `TheBucketHolds` has a hypothesis on the constants: headroom and
  control bytes are at least twice the number of jobs. Two jobs may each have passed the
  inventory for a mutable key before either put arrives, and one object of a dead job may
  still be on its way: the room for that is the headroom (500 MB in the code, against
  objects of some kilobytes).
* **`PaidWorkProofs`**. A lease is decided, then written, then runs out by the clock.
  `PaidInv` carries with every write, under way or lost, the time of its decision and the
  checks it passed then on the ledger it expects (`Deciding`); when the conditional put
  applies, the two ledgers are equal, so the checks hold of the stored one. `OnTime` bounds
  how long after its alarm a job may run and `HasLease` says that its lease is longer, from
  `OverrunAssumption`. Hence `LimitsHold`, `CyclesAreAdmittedOnce`, `LeasesOutlastTheWork`,
  `CatchUpsLeaveTheSlot`, `PausesHold`, `RecoveriesWait`.
* **`LandIndexProofs`**. `LandInv` adds to integrity what a builder has stored (`Uploading`),
  that puts go forward from what they expect (`Forward`), and that retention, from the
  moment its own index was named, only holds what the pointer will never name again
  (`Pruning`). Hence `LandIndexesStayWhole`, and `LandImplementsTheRegister` by a step
  simulation.
  `LandRaster` is proved about here too, over integer geometry of any size. Samples of an
  edge are at most half a cell apart, so from one to the next the edge leaves its cell for
  one beside it or across a corner: every cell whose inside it passes through is that of a
  sample or an elbow (`TouchedIsMarked`). The filling counts crossings to the west of a
  cell's centre, the specification's `Inside` those to the north. An edge that does not pass
  through the cell is counted by both rays, or by neither, just when its ends lie on one
  side of the corner that the rays make, and a closed line changes sides an even number of
  times (`CrossesOne`, `SameParity`): what is inside and not marked is filled
  (`InsideIsDrawn`). `RasterInv` carries that through the depths, the polygons one by one,
  the buffer (`DilatedHolds`) and the rows of bytes, whose bits come back by shifting what
  doubling built (`UnpackedIsPacked`). Hence `BuiltIndexCoversSources`, for any depths, tiles,
  cell size and buffer, and of the closed polygons for those with a point in the tile. With
  the hypothesis that the depths are dry or missing wherever a polygon without one lies over
  a tile (`LeftOutIsDry`), `TouchedIsBlockedWhereLeftOutIsDry` says it of all polygons.
* **`SourceProofs`**. `RollInv`: the store's axis is ahead of its values, and level with
  them when no update runs; while the store is as the job saw it, all it has read is of the
  bulletin the axis names (`SameSoFar`). Hence `CubesHoldOneBulletin`. `JobInv`: versions
  only grow, so what was read and is still offered at the comparison was offered when the
  recheck began (`ReadWasOffered`); a run is committed by the last step before the report
  (`CommittedLast`); a job that waits wakes at its deadline at the latest (`WaitsInTime`).
  Hence `RunsAreOneSnapshot`, `WaitsEndAtTheirDeadline` and `ReportsAreTrue`, which bounds
  what may be reported of a committed run (published, or ended after its commit), and does
  not say that it is reported as published.
* **`BundleProofs`**. Five components. `DirStore`: every conditional write of a pointer
  locks the same directory, so one process at a time is between its lock and its close
  (`OneSwaps`), and nobody else writes or deletes such a key. Hence `PutsOfPointersAreAtomic`.
  `RegionalWatch`: every report of a publication rests on a commit no later than it says
  (`WatchInv`); a passed canary then counts commits, and of two missing cycles the theorem
  compares the code's arithmetic with their number. Hence `VerdictsAreTrue`.
  `Capacity`: what a job counted at its admission is spent for good or still there
  (`CountedOK`), the peak it reserved and that fit the limit (`ReserveOK`), and no layer
  stores more than three of the largest runs (`LayerFits`, and lemmas that bound a sum over
  layers by a sum of bounds). Hence `CapacityIsHeld`. It rests on what the constants say of
  the provider: a run of a root layer is at most a tenth larger than the largest measured.
  `CubeTiles`: rounding is to the nearest (`RoundedIsNear`), and a quantum that validation
  finds plausible is not an end of the dtype's range, so it was not clipped
  (`PlausibleIsClose`). Hence `AcceptedValuesAreClose`, of any regular global grid and
  any values. The roll
  puts the columns in order from west to east (`RolledInOrder`: the column before the first
  is not a step to its west, or it would come first); a tile's lines are a range of the
  grid's (`BandsAreRanges`); the arrays stand in a payload one after another, each where the
  header says (`PartsHold`); a cell's place in C order gives the cell back (`PlaceInArray`,
  from `DividedOnce`); the tile of a point is one of those that were cut, and holds it
  (`TileOfPoint`). Hence `PublishedValuesReadBack`, with nothing assumed but the constants:
  grids are regular and go once round the globe, tiles divide it.
  `Dispatcher`: every cron is the minute of an entry (`CronsAreSlots`), and those minutes lie
  further apart than the four by which a fire may be late, so a fire in time selects what
  its own minute is for (`OwnSlot`). A layer's cycle determines its slot
  (`OtherSlotOtherCycle`), so a later fire selects nothing of it; a later cycle has a later
  slot (`LaterCycleLaterSlot`), so the least over the cycles of two days, as `next_dispatch`
  computes it, is the next slot of the layer in the timetable. Hence `FiresStartTheirSlot`,
  for any days and choice of models. Its hypothesis is on the delays: a fire is no more than
  344 minutes late. After that `fallback_cycle`, asked at the fire, has turned to the next
  cycle; but by then the Worker has long passed the slot over.

Induction theorems of the library take an operator, which the provers cannot instantiate;
where a sum over a finite set needs induction, its set form is used instead (the set of
subsets for which the claim holds, and the well-foundedness of the strict subset
relation, `FiniteInduction` and `NumberInduction` of `BundleProofs`).

Only model-checked:

* liveness: `EveryRunEnds`, `AbandonedGo`, `Resumable`. The prover has no rules for it.
* `RestoredRunStays` where commands disable layers. It needs that no document is ever written
  twice, which stamps of one second do not give. Of an audit of root layers nothing is
  proved: `audit_root` is a counterexample.

Every other safety property of a passing run is stated by a theorem. The typing of a module
(`*TypeOK`) is part of its inductive invariant where the proofs need it.

## 5. What is not modelled

* `check_pointer_ownership` depends on an allow-list fixed in the code; the layers of one
  document are a constant.
* A status put whose answer is lost and that lands after the job is over. Status is
  written unconditionally, so it may fall behind anyway.
* A listing while others write (`inventory`, `_layer_runs`, the guards' reads) is one step.
* Retried listings, content types, cache headers, listings of a local directory, malformed
  documents, which close admission or end a job as a pause does.
* Floating-point code: projections, interpolation, GRIB, NetCDF and GeoTIFF readers,
  metres per cell, the wind and gust comparison, ensemble members and footprints. What
  can be said over integers is in `CubeTiles` and `LandRaster`.
* That a GRIB index and the bytes it points to belong together (`sources/base.py` reads
  them with two requests), and the size guard's estimate of a run from its arrays.
* Dry runs, the `audit` and `land` subcommands' printing, the audit's report of sizes and
  damage.
* `rollover_october20`, which changes dates once.
* Workflows, schemas, probes, measurements: no state.

## 6. Plan

Every part with state of its own is modelled, and the safety that the runs check is proved
but for what section 4 excepts. What is left, in this order:

1. `StorageAdmission` composed with `Publication`, for a publication whose reservation ends
   in the middle of its retention.
2. `StorageAudit` beside an audit that was interrupted: how old a run must be for the cycle
   never to be built again, with which `AuditSparesNamedRuns` needs no hypothesis.
