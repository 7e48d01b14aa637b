------------------------------ MODULE IngestJob ------------------------------
(***************************************************************************)
(* One job of `ingest <layer>` (main, wait_for_cycle and _run_forecast of  *)
(* src/ingest/cli.py) against a provider that is still uploading, and may  *)
(* write again what it has uploaded.  A regional job reads a run's         *)
(* metadata and whole files (sources/openmeteo), and looks at their ETags  *)
(* again before it publishes; a root job (sources/base.py) goes by a       *)
(* readiness file and, when it has waited, retries files not there yet.    *)
(* Of publication only the newest published cycle; Publication has it all.*)
(*                                                                         *)
(* A job acts no later than SlowStep after it wakes; a request takes that  *)
(* long.  Cycle 1 has long been complete, cycle 2 is on its way.           *)
(***************************************************************************)
EXTENDS Integers, FiniteSets, FiniteSetsExt

CONSTANTS
  FileCount,     \* a cycle's files are 1..FileCount, downloaded in that order
  FileVersions,  \* bound on how often one object is written
  PollEvery, WaitFor,          \* poll_seconds, --wait-minutes
  MissingGrace, MissingRetry,  \* MISSING_FILES_GRACE_MINUTES, MISSING_RETRY_S
  HttpTries,     \* of http for one file, 3
  SlowStep,      \* see above
  IngHorizon     \* bound on the clock

ASSUME IngestConstants ==
  {FileCount, FileVersions, PollEvery, WaitFor, MissingGrace, MissingRetry,
   HttpTries, SlowStep, IngHorizon} \subseteq Nat \ {0}

VARIABLES
  clock,     \* time.monotonic
  source,    \* of cycle 2: versions of its metadata (0) and its files; 0 is absent
  readyAt,   \* when its metadata became complete, or IngHorizon + 1
  newest,    \* the layer's published cycle
  job        \* the job: options, progress, what it has read, its report

ingVars == <<clock, source, readyAt, newest, job>>

-----------------------------------------------------------------------------
NoCycle == 0
JobOptions == [regional : BOOLEAN, cycle : {NoCycle, 2}, wait : BOOLEAN, force : BOOLEAN,
            skips : BOOLEAN, paid : BOOLEAN]
\* What argparse and the checks of _run_forecast let through, of layers that exist.
ValidOptions(o) ==
  /\ o.wait => o.cycle # NoCycle
  /\ o.regional => ~o.force /\ o.skips
NoneRead == [f \in 0..FileCount |-> 0]
NewJob(o) ==
  [opt |-> o, at |-> IF o.wait THEN "poll" ELSE "resolve", wake |-> 0,
   deadline |-> WaitFor, grace |-> 0, unanswered |-> FALSE,
   cycle |-> NoCycle, file |-> 1, tries |-> 1, got |-> NoneRead, snap |-> NoneRead,
   committed |-> FALSE,
   outcome |-> "failed", exit |-> -1]

IngTypeOK ==
  /\ clock \in 0..IngHorizon /\ source \in [0..FileCount -> 0..FileVersions]
  /\ readyAt \in 0..IngHorizon + 1 /\ newest \in 0..2

IngInit ==
  /\ clock = 0 /\ readyAt = IngHorizon + 1 /\ newest \in 0..1
  /\ source = [f \in 0..FileCount |-> 0]
  /\ \E o \in JobOptions : ValidOptions(o) /\ job = NewJob(o)

-----------------------------------------------------------------------------
(***************************************************************************)
(* The provider, other jobs and the clock.                                 *)
(***************************************************************************)
\* Written, or written again: the files, the readiness file or the metadata, in any order.
\* A regional run's metadata may name too little at first.
CycleOut == readyAt <= clock
ProviderWrites(f) ==
  /\ source[f] < FileVersions
  /\ f = 0 /\ source[0] > 0 /\ CycleOut => job.opt.regional
  /\ source' = [source EXCEPT ![f] = @ + 1]
  /\ readyAt' \in IF f = 0 /\ ~CycleOut
                  THEN {clock} \cup {r \in {readyAt} : job.opt.regional /\ source[0] = 0}
                  ELSE {readyAt}
  /\ UNCHANGED <<clock, newest, job>>

OtherJob(c) ==
  /\ newest < c /\ (c = 2 => CycleOut)
  /\ newest' = c
  /\ UNCHANGED <<clock, source, readyAt, job>>

IngTick ==
  /\ clock < IngHorizon /\ clock < job.wake + SlowStep
  /\ clock' = clock + 1
  /\ UNCHANGED <<source, readyAt, newest, job>>

-----------------------------------------------------------------------------
(***************************************************************************)
(* The job.                                                                *)
(***************************************************************************)
JobAt(s) == job.at = s /\ clock >= job.wake
Become(j) == job' = [j EXCEPT !.wake = IF @ > clock THEN @ ELSE clock]
Go(s) == Become([job EXCEPT !.at = s])
\* What the job has read is gone with it.
Quit(outcome, exit) ==
  Become([job EXCEPT !.at = "release", !.outcome = outcome, !.exit = exit,
                     !.got = NoneRead, !.snap = NoneRead, !.file = 1, !.tries = 1])
outside == <<clock, source, readyAt, newest>>

Resolved(c, grace) ==
  Become([job EXCEPT !.at = "published", !.cycle = c, !.grace = grace])

\* wait_for_cycle: one check.  A HEAD that fails counts as "not there".
PollReady ==
  /\ JobAt("poll") /\ CycleOut
  /\ Resolved(2, clock + MissingGrace)
  /\ UNCHANGED outside

PollNot ==
  /\ JobAt("poll") /\ (CycleOut => ~job.opt.regional)
  /\ Become([job EXCEPT !.at = "again", !.unanswered = @ \/ CycleOut])
  /\ UNCHANGED outside

\* The clock is read after the check.
WaitLeft == job.deadline - clock
PollPause == Min({PollEvery, WaitLeft})
WaitExpiredEarly == WaitLeft < PollEvery   \* mutant: no check at the deadline itself
WaitExpired == WaitLeft <= 0
PollAgain ==
  /\ JobAt("again")
  /\ IF WaitExpired
       THEN Quit("source_wait_expired", 1)
       ELSE job' = [job EXCEPT !.at = "poll", !.wake = clock + PollPause]
  /\ UNCHANGED outside

\* resolve: the named cycle or none; without a name the newest complete one.  Of a root
\* layer a HEAD that fails counts as "not there"; a regional marker is read, or it raises.
NotThere ==
  IF job.opt.cycle = NoCycle THEN Resolved(1, 0)
  ELSE Quit("source_unavailable", IF job.opt.skips THEN 0 ELSE 1)
ResolveRoot == (CycleOut /\ Resolved(2, 0)) \/ NotThere
ResolveRegional == IF CycleOut THEN Resolved(2, 0) ELSE NotThere
Resolve ==
  /\ JobAt("resolve")
  /\ IF job.opt.regional THEN ResolveRegional ELSE ResolveRoot
  /\ UNCHANGED outside

\* SourceError: metadata of another run, or a request that fails to the end.
SourceRejected ==
  /\ job.opt.regional /\ job.at \in {"poll", "resolve", "fetch"} /\ clock >= job.wake
  /\ Quit("source_rejected", 1)
  /\ UNCHANGED outside

\* The layer's entry names this cycle or a newer one.
PublishedAlready == newest >= job.cycle
AlreadyPublished ==
  /\ JobAt("published")
  /\ IF PublishedAlready /\ ~job.opt.force THEN Quit("already_published", 0)
     ELSE IF newest > job.cycle THEN Quit("failed", 1)
     ELSE Go("acquire")
  /\ UNCHANGED outside

Acquire ==
  /\ JobAt("acquire")
  /\ IF ~job.opt.paid THEN Go("fetch")
     ELSE Go("fetch") \/ Quit("paused", 0)
  /\ UNCHANGED outside

\* What the job sees of its cycle: an old one does not change any more.
Offered(f) == IF job.cycle = 1 THEN 1 ELSE source[f]
FileRead(f) ==
  Become([job EXCEPT !.got[f] = Offered(f), !.tries = 1,
                     !.file = IF f < FileCount THEN f + 1 ELSE 1,
                     !.at = IF f < FileCount THEN "fetch" ELSE "validate"])

\* build_cube of a regional run reads the metadata again, then file after file.
FetchMeta ==
  /\ JobAt("fetch") /\ job.opt.regional /\ job.got[0] = 0
  /\ Become([job EXCEPT !.got[0] = Offered(0)])
  /\ UNCHANGED outside

FetchFile ==
  /\ JobAt("fetch") /\ (job.opt.regional => job.got[0] # 0)
  /\ Offered(job.file) # 0
  /\ FileRead(job.file)
  /\ UNCHANGED outside

\* http: a 404 in the grace is not counted as an attempt; any other failure is.
Counted == [job EXCEPT !.tries = @ + 1, !.wake = clock + 1]
FetchAgain ==
  /\ JobAt("fetch") /\ ~job.opt.regional /\ Offered(job.file) = 0
  /\ IF clock < job.grace THEN job' = [job EXCEPT !.wake = clock + MissingRetry]
     ELSE IF job.tries < HttpTries THEN job' = Counted
     ELSE Quit("failed", 1)
  /\ UNCHANGED outside

NotFound ==
  /\ JobAt("fetch") /\ job.opt.regional /\ job.got[0] # 0 /\ Offered(job.file) = 0
  /\ Quit("source_rejected", 1)
  /\ UNCHANGED outside

Validate ==
  /\ JobAt("validate")
  /\ \/ Quit("validation_rejected", 1)
     \/ job.opt.regional /\ Quit("run_cap_refused", 1)
     \/ Go(IF job.opt.regional THEN "recheck" ELSE "publish")
  /\ UNCHANGED outside

\* catalog.recheck: the metadata, then each file, as they were read.
RecheckMeta ==
  /\ JobAt("recheck")
  /\ IF Offered(0) # job.got[0] THEN Quit("source_changed", 1)
     ELSE Become([job EXCEPT !.at = "compare",
                             !.snap = [f \in 0..FileCount |-> Offered(f)]])
  /\ UNCHANGED outside

SameMetaOnly(f) == TRUE   \* mutant: the completion marker alone is compared
SameFile(f) == Offered(f) = job.got[f]
RecheckFile ==
  /\ JobAt("compare")
  /\ IF ~SameFile(job.file) THEN Quit("source_changed", 1)
     ELSE Become([job EXCEPT !.file = IF @ < FileCount THEN @ + 1 ELSE 1,
                             !.at = IF job.file < FileCount THEN "compare" ELSE "publish"])
  /\ UNCHANGED outside

\* publish_run: refused, or committed; what follows the commit may still fail.
PublishRun ==
  /\ JobAt("publish")
  /\ \/ Quit("publication_failed", 1) /\ UNCHANGED newest
     \/ /\ newest <= job.cycle /\ newest' = job.cycle
        /\ Become([job EXCEPT !.at = "returned", !.committed = TRUE])
  /\ UNCHANGED <<clock, source, readyAt>>

ReportedFirst ==   \* mutant: the report says published whatever publish_run does
  Quit("published", 1)
Reported ==
  \/ Quit("published", 0)
  \/ Quit("publication_failed", 1)
PublishReturned ==
  /\ JobAt("returned")
  /\ Reported
  /\ UNCHANGED outside

\* The alarm of the paid work guard, or a pause found by a reservation.
Alarm ==
  /\ job.opt.paid /\ job.at \notin {"release", "over"}
  /\ Quit("paused", 0)
  /\ UNCHANGED outside

\* Any other exception, whenever it comes: the default outcome.
Raised ==
  /\ job.at \notin {"release", "over"}
  /\ Quit("failed", 1)
  /\ UNCHANGED outside

\* The finally clauses: the lease is given back (PaidWork has it), the report is written.
Finally ==
  /\ JobAt("release")
  /\ Go("over")
  /\ UNCHANGED outside

\* What happens once its outcome is decided does not concern the job.
IngestStep ==
  \/ PollReady \/ PollNot \/ PollAgain \/ Resolve \/ SourceRejected \/ AlreadyPublished
  \/ Acquire \/ FetchMeta \/ FetchFile \/ FetchAgain \/ NotFound \/ Validate
  \/ RecheckMeta \/ RecheckFile \/ PublishRun \/ PublishReturned \/ Alarm \/ Raised \/ Finally

IngNext ==
  \/ IngestStep
  \/ /\ job.at \notin {"release", "over"}
     /\ \/ IngTick
        \/ \E f \in 0..FileCount : ProviderWrites(f)
        \/ \E c \in 1..2 : OtherJob(c)

IngSpec == IngInit /\ [][IngNext]_ingVars

-----------------------------------------------------------------------------
(***************************************************************************)
(* Properties.                                                             *)
(***************************************************************************)
\* A regional run that is published was built from what the provider offered at one
\* instant: when the recheck began, its metadata and every file were those the job had read.
OneSnapshot == job.committed /\ job.opt.regional => job.got = job.snap

\* A report that says "published" is of a committed run, and a committed run is reported
\* as that, or as ended by an alarm or a failure after its commit; and exit code 0 means
\* that the cycle is published, that work is paused, or that the layer skips it.
ReportTruth ==
  /\ job.outcome = "published" => job.committed /\ job.exit = 0
  /\ job.committed /\ job.at = "over" =>
       job.outcome \in {"published", "paused", "failed", "publication_failed"}
  /\ job.at = "over" /\ job.exit = 0 =>
       \/ job.outcome \in {"published", "already_published"} /\ newest >= job.cycle
       \/ job.outcome = "paused" /\ job.opt.paid
       \/ job.outcome = "source_unavailable" /\ job.opt.skips

\* A wait ends at its deadline: not before, so that a cycle complete a request's time
\* before it is found, and hardly later.
WaitsItsTime ==
  job.outcome = "source_wait_expired" =>
    /\ clock >= job.deadline
    /\ job.at = "release" => job.wake <= job.deadline + 2 * SlowStep
    /\ job.unanswered \/ readyAt >= job.deadline - SlowStep

=============================================================================
