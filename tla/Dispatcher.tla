----------------------------- MODULE Dispatcher -----------------------------
(***************************************************************************)
(* The cron Worker of dispatcher/src: from the time a cron fires to the    *)
(* workflows GitHub starts, and the two places of the ingest that repeat   *)
(* its timetable: next_dispatch of src/ingest/regional_schedule.py, with   *)
(* the lags of the Open-Meteo registry, and fallback_cycle of              *)
(* src/ingest/ecmwf_short_fallback.py.                                     *)
(*                                                                         *)
(* Times are minutes since some midnight.                                  *)
(***************************************************************************)
EXTENDS Integers, FiniteSets, FiniteSetsExt

CONSTANTS
  Days,         \* bound: crons fire on days 1..Days
  Delays,       \* minutes a fire may be late
  RegionalModels   \* REGIONAL_MODELS

ASSUME DispatcherConstants ==
  /\ Days \in Nat \ {0} /\ Delays \subseteq Nat
  /\ RegionalModels \subseteq {"arome", "icon-eu", "ukv"}

VARIABLES
  fire,        \* the cron's own minute, how late it started, REGIONAL_FULL_CADENCE
  due,         \* dispatches still to be made
  posting,     \* the one under way, and where dispatchWorkflow is
  failedLayers,\* what runScheduled will throw
  disabled,    \* workflows GitHub has disabled for inactivity
  started      \* dispatches GitHub accepted

dispVars == <<fire, due, posting, failedLayers, disabled, started>>

-----------------------------------------------------------------------------
(***************************************************************************)
(* timetable.ts and wrangler.toml.                                         *)
(***************************************************************************)
Hm(h, m) == h * 60 + m
Midnight(t) == (t \div 1440) * 1440
HourOf(t) == (t % 1440) \div 60
Row(l, hs, m, lag, wait) ==
  [layer |-> l, hours |-> hs, minute |-> m, lag |-> lag, wait |-> wait]

Timetable ==
  { Row("weather", {4, 10, 16, 22}, 25, Hm(4, 25), 90),
    Row("waves", {5, 11, 17, 23}, 0, Hm(5, 0), 90),
    Row("ensemble", {0, 6, 12, 18}, 15, Hm(6, 15), 90),
    Row("ecmwf-short", {0, 12}, 15, Hm(6, 15), 120),
    Row("ecmwf", {7, 19}, 20, Hm(7, 20), 120),
    Row("currents", {5}, 45, Hm(5, 45), 240),
    Row("currents-ibi", {9}, 45, Hm(9, 45), 180),
    Row("arome", {5}, 45, Hm(2, 45), 90),
    Row("arome", {13}, 15, Hm(4, 15), 90),
    Row("arome", {18}, 45, Hm(3, 45), 90),
    Row("arome", {1}, 15, Hm(4, 15), 90),
    Row("icon-eu", {3, 9, 15, 21}, 25, Hm(3, 25), 45),
    Row("ukv", {4, 10, 16, 22}, 15, Hm(4, 15), 120) }

\* The crons of wrangler.toml.
Cron(m, hs) == {Hm(h, m) : h \in hs}
Crons ==
  Cron(25, {3, 4, 9, 10, 15, 16, 21, 22}) \cup Cron(0, {5, 11, 17, 23})
    \cup Cron(15, {0, 1, 4, 6, 10, 12, 13, 16, 18, 22}) \cup Cron(20, {7, 19})
    \cup Cron(45, {5, 9, 18})

MaxLate == 4
RegionalLayers == {"arome", "icon-eu", "ukv"}

EntriesAt(t) == {e \in Timetable : e.minute = t % 60 /\ HourOf(t) \in e.hours}

\* slotAt: the latest slot at most MaxLate minutes ago, or -1.
SlotAt(t) == Max({s \in (t - MaxLate)..t : EntriesAt(s) # {}} \cup {-1})

DispatchOf(slot, e) == [layer |-> e.layer, cycle |-> slot - e.lag, wait |-> e.wait]
DueAt(t) ==
  IF SlotAt(t) = -1 THEN {} ELSE {DispatchOf(SlotAt(t), e) : e \in EntriesAt(SlotAt(t))}

CanaryHours(l) == IF l = "arome" THEN {3, 15} ELSE {0, 12}
Selected(d) ==
  d.layer \in RegionalLayers =>
    /\ d.layer \in RegionalModels
    /\ fire.full \/ HourOf(d.cycle) \in CanaryHours(d.layer)

-----------------------------------------------------------------------------
(***************************************************************************)
(* regional_schedule.py and ecmwf_short_fallback.py.                       *)
(***************************************************************************)
\* lag_minutes of the registry, cut to the canary's hours by product().
RegistryLag(l) ==
  IF l = "arome"
    THEN [h \in {3, 9, 15, 21} |-> IF h = 3 THEN 165 ELSE IF h = 15 THEN 225 ELSE 255]
    ELSE [h \in {0, 6, 12, 18} |-> IF l = "icon-eu" THEN 205 ELSE 255]
RegistryCycles(l) == IF fire.full THEN DOMAIN RegistryLag(l) ELSE CanaryHours(l)

\* The cycles of the layer that day and the next.
RegionalCycles(l, cycle) ==
  {Midnight(cycle) + Hm(24 * day + h, 0) : day \in 0..1, h \in RegistryCycles(l)}

\* mutant: the cycle itself counts as the next one
NextDispatchOfSame(l, cycle) ==
  Min({c + RegistryLag(l)[HourOf(c)] : c \in {x \in RegionalCycles(l, cycle) : x >= cycle}})
NextDispatch(l, cycle) ==
  Min({c + RegistryLag(l)[HourOf(c)] : c \in {x \in RegionalCycles(l, cycle) : x > cycle}})

FallbackCycle(now) ==
  IF HourOf(now) < 6 THEN Midnight(now) - 1440 + Hm(18, 0)
  ELSE Midnight(now) + Hm(IF HourOf(now) >= 18 THEN 18 ELSE 6, 0)

-----------------------------------------------------------------------------
(***************************************************************************)
(* dispatch.ts.                                                            *)
(***************************************************************************)
NoPost == [dispatch |-> [layer |-> "none", cycle |-> 0, wait |-> 0], at |-> "idle"]
Workflow(l) == IF l \in RegionalLayers THEN "openmeteo" ELSE l
AllLayers == {e.layer : e \in Timetable}

DispInit ==
  /\ fire \in [cron : {1440 * day + m : day \in 1..Days, m \in Crons}, late : Delays,
               full : BOOLEAN]
  /\ due = {} /\ posting = [NoPost EXCEPT !.at = "fire"]
  /\ failedLayers = {} /\ started = {}
  /\ \E l \in AllLayers : disabled \in {{}, {Workflow(l)}}

\* runScheduled up to its loop.  A fire that matches no slot is an error.
Fire ==
  /\ posting.at = "fire"
  /\ due' = {d \in DueAt(fire.cron + fire.late) : Selected(d)}
  /\ posting' = [NoPost EXCEPT
                  !.at = IF SlotAt(fire.cron + fire.late) = -1 THEN "missed" ELSE "idle"]
  /\ UNCHANGED <<fire, failedLayers, disabled, started>>

Begin ==
  /\ posting.at = "idle" /\ due # {}
  /\ \E d \in due : posting' = [dispatch |-> d, at |-> "post"] /\ due' = due \ {d}
  /\ UNCHANGED <<fire, failedLayers, disabled, started>>

\* One failed dispatch is noted, and the next one is made.
Failed == failedLayers \cup {posting.dispatch.layer}
FailLast == due' = {} /\ posting' = NoPost /\ failedLayers' = Failed   \* mutant: the loop ends
Fail == due' = due /\ posting' = NoPost /\ failedLayers' = Failed

\* The POST, the first or the one after enabling: accepted, or refused because of the
\* token or a server error.  If no answer comes it fails, and may have been accepted.
Accepted ==
  /\ posting.at \in {"post", "again"}
  /\ Workflow(posting.dispatch.layer) \notin disabled
  /\ started' = started \cup {posting.dispatch}
  /\ \/ posting' = NoPost /\ UNCHANGED <<due, failedLayers>>
     \/ Fail
  /\ UNCHANGED <<fire, disabled>>

Rejected ==
  /\ posting.at \in {"post", "again"}
  /\ Fail
  /\ UNCHANGED <<fire, disabled, started>>

\* Any other refusal of the first POST: ask for the workflow's state.
Ask ==
  /\ posting.at = "post"
  /\ posting' = [posting EXCEPT !.at = "ask"]
  /\ UNCHANGED <<fire, due, failedLayers, disabled, started>>

\* disabled_inactivity: enable it and post again; anything else fails.
Enable ==
  /\ posting.at = "ask" /\ Workflow(posting.dispatch.layer) \in disabled
  /\ disabled' = disabled \ {Workflow(posting.dispatch.layer)}
  /\ posting' = [posting EXCEPT !.at = "again"]
  /\ UNCHANGED <<fire, due, failedLayers, started>>

AskFails ==
  /\ posting.at = "ask"
  /\ Fail
  /\ UNCHANGED <<fire, disabled, started>>

DispNext == Fire \/ Begin \/ Accepted \/ Rejected \/ Ask \/ Enable \/ AskFails

DispSpec == DispInit /\ [][DispNext]_dispVars

-----------------------------------------------------------------------------
(***************************************************************************)
(* Properties.                                                             *)
(***************************************************************************)
\* The layers whose provider publishes for this cron minute, and their cycles.
OwnDue == {d \in {DispatchOf(fire.cron, e) : e \in EntriesAt(fire.cron)} : Selected(d)}

\* What the tables give: NextOf is the next minute at which the Worker dispatches l.
NextOf(l, t) ==
  Min({s \in t + 1..t + 2880 : \E e \in EntriesAt(s) :
         e.layer = l /\ (fire.full \/ HourOf(s - e.lag) \in CanaryHours(l))})
TimetablesAgree ==
  posting.at = "fire" => \A d \in OwnDue :
    /\ d.layer \in RegionalLayers => NextDispatch(d.layer, d.cycle) = NextOf(d.layer, fire.cron)
    /\ d.layer = "ecmwf-short" => FallbackCycle(fire.cron + fire.late) = d.cycle

\* A fire at most four minutes late starts what its own minute is for, and nothing but
\* that; when the Worker is done, each of these dispatches was accepted by GitHub or its
\* layer is in the error it throws: a layer that fails keeps no other from being started.
\* A later fire starts nothing of its own minute: it is missed, or, ten minutes late, taken
\* for another slot, whose dispatches it repeats.
\* Beside it the three timetables agree: after any regional dispatch, the slot the ingest
\* protects is the next minute at which the Worker dispatches that layer, for a newer cycle;
\* and the fallback of the short ECMWF run names the very cycle the Worker last dispatched.
StartsItsSlot ==
  /\ TimetablesAgree
  /\ IF fire.late <= MaxLate
       THEN /\ posting.at # "missed" /\ started \cup due \subseteq OwnDue
            /\ posting.at = "idle" /\ due = {} =>
                 \A d \in OwnDue : d \in started \/ d.layer \in failedLayers
       ELSE \A d \in started \cup due : d \notin OwnDue

=============================================================================
