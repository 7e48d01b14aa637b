--------------------------- MODULE RegionalWatch ---------------------------
(***************************************************************************)
(* What an operator is told of one regional layer: its freshness           *)
(* (src/ingest/regional_health.py), read off the pointer, and the score of *)
(* its canary (regional_canary.py), read off the reports that its jobs     *)
(* leave (regional_attempt.py) and that may be lost.  IngestJob has the    *)
(* jobs, with all the outcomes a report can give.                          *)
(*                                                                         *)
(* Time is in ticks, of which DayLength make a day; all times are of one   *)
(* layer that has the same lag for each of its cycles.                     *)
(***************************************************************************)
EXTENDS Integers, FiniteSets, FiniteSetsExt

CONSTANTS
  DayLength,
  CycleHours,     \* the hours of product.cycles
  CanarySet,      \* those selected for the canary
  SourceLag,      \* source_lag_s, supplied to freshness
  LagOf, WaitOf,  \* lag_minutes, wait_minutes
  Allowance,      \* ingestion_minutes
  WatchStart, WatchLength,  \* started_at, seven days
  WatchHorizon,   \* bound on the clock
  Reports         \* bound on commits and reports

ASSUME WatchConstants ==
  /\ {DayLength, WatchLength, WatchHorizon, Reports, Allowance} \subseteq Nat \ {0}
  /\ {SourceLag, LagOf, WaitOf, WatchStart} \subseteq Nat
  /\ CanarySet \subseteq CycleHours /\ CycleHours \subseteq 0..DayLength - 1 /\ CanarySet # {}

VARIABLES
  tick,       \* the clock
  committed,  \* cycles the pointer was moved to, and when
  running,    \* cycles published by jobs that have not ended
  reports     \* attempt reports that reached the operator

watchVars == <<tick, committed, running, reports>>

-----------------------------------------------------------------------------
Cycles(hours) == {c \in 0..WatchHorizon + 3 * DayLength : c % DayLength \in hours}
CanaryCycles == Cycles(CanarySet)
CurrentRun == Max({-1} \cup {p.cycle : p \in committed})
Report(c, outcome, confirmed, stamped, valid) ==
  [cycle |-> c, outcome |-> outcome, confirmed |-> confirmed, valid |-> valid,
   finished |-> IF stamped THEN tick ELSE -1]

WatchInit == tick = 0 /\ committed = {} /\ running = {} /\ reports = {}

WatchTick ==
  /\ tick < WatchHorizon /\ tick' = tick + 1
  /\ UNCHANGED <<committed, running, reports>>

\* The time and the findings of a report that does not say "published" are of no interest.
\* The pointer never goes back, and a regional cycle is published once.
JobCommits(c) ==
  /\ c \in Cycles(CycleHours) /\ c <= tick /\ c > CurrentRun
  /\ Cardinality(reports) + Cardinality(committed) < Reports
  /\ committed' = committed \cup {[cycle |-> c, at |-> tick]}
  /\ running' = running \cup {c}
  /\ UNCHANGED <<tick, reports>>

\* The end of a job that has published: its report says so, or that it was stopped after
\* the commit; it may be incomplete, or lost.
JobReports(c) ==
  /\ c \in running /\ running' = running \ {c}
  /\ \/ \E stamped, valid \in BOOLEAN :
          reports' = reports \cup {Report(c, "published", TRUE, stamped, valid)}
     \/ reports' = reports \cup {Report(c, "failed", FALSE, FALSE, FALSE)}
     \/ UNCHANGED reports
  /\ UNCHANGED <<tick, committed>>

\* The end of a job that did not.
JobEnds(c) ==
  /\ c \in Cycles(CycleHours) /\ c <= tick
  /\ Cardinality(reports) + Cardinality(committed) + 1 < Reports
  /\ reports' = reports \cup
       {Report(c, IF c <= CurrentRun THEN "already_published" ELSE "failed", FALSE, FALSE, FALSE)}
  /\ UNCHANGED <<tick, committed, running>>

WatchNext ==
  \/ WatchTick
  \/ \E c \in 0..tick : JobCommits(c) \/ JobReports(c) \/ JobEnds(c)
WatchSpec == WatchInit /\ [][WatchNext]_watchVars

-----------------------------------------------------------------------------
(***************************************************************************)
(* freshness: the first two selected cycles after the current one.         *)
(***************************************************************************)
FirstAfter(c) == Min({x \in CanaryCycles : x > c})
StaleOneMissed(c) == FirstAfter(c) + SourceLag   \* mutant: one missed opportunity is enough
StaleAt(c) == FirstAfter(FirstAfter(c)) + SourceLag
Freshness ==
  IF CurrentRun = -1 THEN "unknown"
  ELSE IF tick >= StaleAt(CurrentRun) THEN "stale" ELSE "fresh"

(***************************************************************************)
(* score_canary.                                                           *)
(***************************************************************************)
WatchEnds == WatchStart + WatchLength
Scheduled(c) == c + LagOf
Deadline(c) == Scheduled(c) + WaitOf + Allowance
Expected == {c \in CanaryCycles : WatchStart <= Scheduled(c) /\ Scheduled(c) < WatchEnds}

Confirmed(c) == {r \in reports : r.cycle = c /\ r.outcome = "published" /\ r.confirmed}
Finishes(c) == {r.finished : r \in {x \in Confirmed(c) : x.finished # -1}}
Status(c) ==
  IF \E r \in Confirmed(c) : ~r.valid THEN "invalid_published"
  ELSE IF Finishes(c) # {} THEN IF Min(Finishes(c)) <= Deadline(c) THEN "on_time" ELSE "late"
  ELSE IF tick < Deadline(c) THEN "pending"
  ELSE IF \E r \in reports : r.cycle = c /\ r.outcome # "already_published" THEN "failed"
  ELSE "unknown"

\* Publications without a time, anywhere, and bad ones, of whatever cycle, in the window.
UnknownPublications == {r \in reports : r.outcome = "published" /\ r.confirmed /\ r.finished = -1}
InvalidPublications ==
  {r \in reports : /\ r.outcome = "published" /\ r.confirmed /\ ~r.valid
                   /\ WatchStart <= r.finished /\ r.finished < WatchEnds}
Count(status) == Cardinality({c \in Expected : Status(c) = status})
AllKnown == Count("unknown") + Count("pending") = 0
TimelinessPassed ==
  /\ tick >= WatchEnds /\ AllKnown /\ Expected # {}
  /\ 100 * Count("on_time") >= 95 * Cardinality(Expected)
  /\ Count("invalid_published") = 0
  /\ InvalidPublications = {} /\ UnknownPublications = {}

-----------------------------------------------------------------------------
\* No verdict is better than the truth: a cycle scored on time was committed by its
\* deadline, a passed canary is one whose expected cycles were (all but a twentieth), however
\* many reports are lost; and a layer is called stale exactly when two selected cycles newer
\* than its own could have been there.
CommittedBy(c, t) == \E p \in committed : p.cycle = c /\ p.at <= t
VerdictsTrue ==
  /\ \A c \in Expected : Status(c) = "on_time" => CommittedBy(c, Deadline(c))
  /\ TimelinessPassed =>
       100 * Cardinality({c \in Expected : CommittedBy(c, Deadline(c))})
         >= 95 * Cardinality(Expected)
  /\ CurrentRun # -1 =>
       (Freshness = "stale" <=>
          Cardinality({c \in CanaryCycles : c > CurrentRun /\ c + SourceLag <= tick}) >= 2)

=============================================================================
