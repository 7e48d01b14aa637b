----------------------------- MODULE PaidWork -----------------------------
(***************************************************************************)
(* The usage ledger of optional producers, ops/paid-work.json: Guard of    *)
(* src/ingest/paid_work.py and the steps of main and _run_forecast         *)
(* (src/ingest/cli.py) that use it, next to the operator's pause, review   *)
(* (paid_work_review.py) and recovery of a failed cycle                    *)
(* (forecast_recovery.py).                                                 *)
(*                                                                         *)
(* Policy and usage are one document, rewritten by compare-and-swap on its *)
(* content, and a lease in it is a time.  Every process reads the same     *)
(* clock, now; how far a process may run beyond its alarm, skew included,  *)
(* is Overrun.  A read and the checks on it are one step: what the ledger  *)
(* says counts at the put, which it must still equal, while the clock goes *)
(* on between the two.                                                     *)
(***************************************************************************)
EXTENDS Integers, FiniteSets, FiniteSetsExt

CONSTANTS
  Jobs,       \* runs of the ingest command; a job acquires once, so it is its own token
  Channels,   \* the layers, each a channel of the ledger
  Works,      \* the provider cycles of the layers
  Layer,      \* work -> its channel
  Work,       \* job -> its work
  CatchUps,   \* jobs that protect the next scheduled slot
  Slot,       \* channel -> that slot
  Allowance,  \* channel -> seconds a job reserves, and its alarm
  Grace,      \* added to a lease, 60 s
  Overrun,    \* how long a job may go on after its alarm
  Interval,   \* min_interval_seconds
  Day,        \* the length of a day
  Daily,      \* daily_starts
  MaxStarts, MaxSeconds,   \* max_starts, max_seconds
  Permitted,  \* seconds a recovery asks for, 14400 whatever the layer
  ReviewLife, \* how long a billing review is good for, 72 h
  Tries,      \* attempts of a compare-and-swap, 6
  Lossy,      \* whether answers may be lost and jobs killed
  MaxTime,    \* bound on the clock
  NoJob       \* no token

ASSUME PaidNumbers ==
  /\ {Interval, Day, Daily, MaxStarts, MaxSeconds, Permitted, ReviewLife, Tries} \subseteq Nat \ {0}
  /\ {Grace, Overrun, MaxTime} \subseteq Nat /\ MaxTime > 0
  /\ Allowance \in [Channels -> Nat \ {0}]
  /\ Slot \in [Channels -> Nat]
ASSUME PaidJobs ==
  /\ IsFiniteSet(Jobs) /\ NoJob \notin Jobs
  /\ Works # {} /\ Work \in [Jobs -> Works] /\ Layer \in [Works -> Channels]
  /\ CatchUps \subseteq Jobs
ASSUME OverrunAssumption == Overrun < Grace
ASSUME PaidLossy == Lossy \in BOOLEAN

VARIABLES
  now,        \* the clock
  doc,        \* the ledger
  inflight,   \* writes whose answer was lost, neither applied nor dropped yet
  stage,      \* job -> where it is
  due,        \* job -> when its alarm goes off
  held,       \* job -> the ledger it read, and the one it writes
  tries,      \* job -> attempts of the write under way
  published,  \* works whose run the pointer holds, or a newer one
  op,         \* the operator's command
  started,    \* job -> when its admission was decided, once it is in the ledger; else 0
  permitted   \* work -> how often a recovery has removed it

ledgerVars == <<doc, inflight, started, permitted>>
paidVars == <<now, ledgerVars, stage, due, held, tries, published, op>>

-----------------------------------------------------------------------------
Time == 1..MaxTime   \* of the clock; in the ledger, 0 is never
DayOf(t) == t \div Day
DayNo == 0..DayOf(MaxTime)
Token == Jobs \cup {NoJob}
Channel(j) == Layer[Work[j]]

Lease == [token : Token, until : Nat]
NoLease == [token |-> NoJob, until |-> 0]
Account == [last : Time \cup {0}, days : [DayNo -> Nat], active : Lease]
Ledger ==
  [paused : BOOLEAN, single : BOOLEAN, reviewed : Time, starts : Nat, seconds : Nat,
   seen : [Works -> Token], channel : [Channels -> Account]]
Request == [base : Ledger, want : Ledger]

\* A ledger as it is provisioned, reviewed in the first second.
Provision(single) ==
  [paused |-> FALSE, single |-> single, reviewed |-> 1, starts |-> 0, seconds |-> 0,
   seen |-> [w \in Works |-> NoJob],
   channel |-> [c \in Channels |->
                 [last |-> 0, days |-> [d \in DayNo |-> 0], active |-> NoLease]]]
NoRequest == [base |-> Provision(FALSE), want |-> Provision(FALSE)]

Alarmed == {"acquire", "put", "working"}

Command ==
  [stage : {"idle", "look", "looked", "review", "permit"}, work : Works, held : Request, tries : 1..Tries]
NoCommand == [stage |-> "idle", work |-> CHOOSE w \in Works : TRUE, held |-> NoRequest, tries |-> 1]

PaidTypeOK ==
  /\ now \in Time
  /\ doc \in Ledger
  /\ inflight \subseteq Request
  /\ stage \in [Jobs -> {"new", "release", "unlock", "over"} \cup Alarmed]
  /\ due \in [Jobs -> Nat]
  /\ held \in [Jobs -> Request]
  /\ tries \in [Jobs -> 1..Tries]
  /\ published \subseteq Works
  /\ op \in Command
  /\ started \in [Jobs -> Time \cup {0}]
  /\ permitted \in [Works -> Nat]

PaidInit ==
  /\ now = 1
  /\ \E single \in BOOLEAN : doc = Provision(single)
  /\ inflight = {}
  /\ stage = [j \in Jobs |-> "new"]
  /\ due = [j \in Jobs |-> 0]
  /\ held = [j \in Jobs |-> NoRequest]
  /\ tries = [j \in Jobs |-> 1]
  /\ published = {}
  /\ op = NoCommand
  /\ started = [j \in Jobs |-> 0]
  /\ permitted = [w \in Works |-> 0]

-----------------------------------------------------------------------------
(***************************************************************************)
(* What the ledger says.                                                   *)
(***************************************************************************)

\* Guard.validate: not paused, and a review that is neither ahead nor stale.
Valid(ledger) ==
  /\ ~ledger.paused
  /\ ledger.reviewed <= now /\ now < ledger.reviewed + ReviewLife

Leased(ledger, c) == ledger.channel[c].active.until > now

ChannelFree(ledger, c) == ~Leased(ledger, c)   \* mutant: single_active is not looked at
Free(ledger, c) ==
  /\ ~Leased(ledger, c)
  /\ ledger.single => \A d \in Channels : ~Leased(ledger, d)

\* The frequency and the daily starts of a channel.
Rested(ledger, c) ==
  LET account == ledger.channel[c]
  IN  /\ account.last # 0 => now - account.last >= Interval
      /\ account.days[DayOf(now)] < Daily

\* The starts and the seconds of the whole ledger.
AffordableAtLimit(ledger, seconds) ==   \* mutant: off by one
  ledger.starts <= MaxStarts /\ ledger.seconds + seconds <= MaxSeconds
Affordable(ledger, seconds) ==
  ledger.starts < MaxStarts /\ ledger.seconds + seconds <= MaxSeconds

\* A catch-up leaves the next scheduled slot its interval, its lease and its start.
YieldsLease(ledger, c) ==   \* mutant: its interval is not looked at
  /\ now + Allowance[c] + Grace <= Slot[c]
  /\ DayOf(Slot[c]) = DayOf(now) => ledger.channel[c].days[DayOf(now)] + 1 < Daily
Yields(ledger, c) ==
  /\ now + Max({Interval, Allowance[c] + Grace}) <= Slot[c]
  /\ DayOf(Slot[c]) = DayOf(now) => ledger.channel[c].days[DayOf(now)] + 1 < Daily

\* Everything Guard.acquire asks.
AnyWork(ledger, j) == TRUE   \* mutant: duplicates are not looked for
NewWork(ledger, j) == ledger.seen[Work[j]] = NoJob
Admissible(ledger, j) ==
  LET c == Channel(j)
  IN  /\ Valid(ledger)
      /\ ledger.channel[c].last <= now
      /\ Free(ledger, c)
      /\ NewWork(ledger, j)
      /\ Rested(ledger, c)
      /\ Affordable(ledger, Allowance[c])
      /\ j \in CatchUps => Yields(ledger, c)

LeaseEndBare(c) == now + Allowance[c]   \* mutant: no grace
LeaseEnd(c) == now + Allowance[c] + Grace

\* The whole allowance is charged before the work starts, and never given back.
Charged(ledger, j) ==
  LET c == Channel(j)
      account == ledger.channel[c]
  IN  [ledger EXCEPT
         !.starts = @ + 1,
         !.seconds = @ + Allowance[c],
         !.seen[Work[j]] = j,
         !.channel[c] = [last |-> now,
                         days |-> [account.days EXCEPT ![DayOf(now)] = @ + 1],
                         active |-> [token |-> j, until |-> LeaseEnd(c)]]]

Released(ledger, c) == [ledger EXCEPT !.channel[c].active = NoLease]

\* permit_failed_cycle drops the identity of one work, and nothing else.
PermissibleAlways(ledger, w) == ledger.seen[w] # NoJob   \* mutant: whatever is running
Permissible(ledger, w) ==
  /\ Valid(ledger)
  /\ ledger.seen[w] # NoJob
  /\ Free(ledger, Layer[w])
  /\ now - ledger.channel[Layer[w]].last >= Interval
  /\ ledger.channel[Layer[w]].days[DayOf(now)] < Daily
  /\ Affordable(ledger, Permitted)

Permit(ledger, w) == [ledger EXCEPT !.seen[w] = NoJob]

-----------------------------------------------------------------------------
(***************************************************************************)
(* The jobs.                                                               *)
(***************************************************************************)

\* The store compares the ledger with the one that was read.
UnconditionalWrite(ledger) == TRUE   \* mutant: no If-Match
Same(ledger) == doc = ledger

\* A ledger is stored; the admission it brings and the identity it drops are noted.
Store(new) ==
  /\ doc' = new
  /\ started' = [j \in Jobs |->
       IF new.channel[Channel(j)].active.token = j THEN new.channel[Channel(j)].last ELSE started[j]]
  /\ permitted' = [w \in Works |->
       IF doc.seen[w] # NoJob /\ new.seen[w] = NoJob THEN permitted[w] + 1 ELSE permitted[w]]

\* The alarm is on until the job has its outcome.
Goto(j, s) ==
  /\ stage' = [stage EXCEPT ![j] = s]
  /\ due' = [due EXCEPT ![j] = IF s \in Alarmed THEN @ ELSE 0]

Hold(j, request) == held' = [held EXCEPT ![j] = request]

\* The job is over, one way or another.
End(j) ==
  /\ Goto(j, "over")
  /\ Hold(j, NoRequest)
  /\ tries' = [tries EXCEPT ![j] = 1]

\* The ledger must be open before anything else; the alarm is set before the wait.
Check(j) ==
  /\ stage[j] = "new"
  /\ IF Valid(doc)
       THEN /\ stage' = [stage EXCEPT ![j] = "acquire"]
            /\ due' = [due EXCEPT ![j] = now + Allowance[Channel(j)]]
            /\ UNCHANGED <<held, tries>>
       ELSE End(j)
  /\ UNCHANGED <<now, ledgerVars, published, op>>

\* The wait ends, or the cycle is published already: nothing is bought.
Leave(j) ==
  /\ stage[j] = "acquire" /\ tries[j] = 1
  /\ End(j)
  /\ UNCHANGED <<now, ledgerVars, published, op>>

\* The provider's cycle is there, or a retry.
Acquire(j) ==
  /\ stage[j] = "acquire"
  /\ IF Admissible(doc, j)
       THEN /\ Hold(j, [base |-> doc, want |-> Charged(doc, j)])
            /\ Goto(j, "put")
            /\ UNCHANGED tries
       ELSE End(j)
  /\ UNCHANGED <<now, ledgerVars, published, op>>

\* Guard.finish: only a lease that is still this job's.
Release(j) ==
  /\ stage[j] = "release"
  /\ IF doc.channel[Channel(j)].active.token = j
       THEN /\ Hold(j, [base |-> doc, want |-> Released(doc, Channel(j))])
            /\ Goto(j, "unlock")
            /\ UNCHANGED tries
       ELSE End(j)
  /\ UNCHANGED <<now, ledgerVars, published, op>>

\* Both writes are conditional on the ledger that was read.
Written(j) ==
  /\ stage[j] \in {"put", "unlock"}
  /\ Same(held[j].base)
  /\ Store(held[j].want)
  /\ IF stage[j] = "put"
       THEN Goto(j, "working") /\ Hold(j, NoRequest) /\ tries' = [tries EXCEPT ![j] = 1]
       ELSE End(j)
  /\ UNCHANGED <<now, inflight, published, op>>

MayRetry(t) == t < Tries

\* 412: the ledger is read again, up to Tries times.
Refused(j) ==
  /\ stage[j] \in {"put", "unlock"}
  /\ ~Same(held[j].base)
  /\ IF MayRetry(tries[j])
       THEN /\ Goto(j, IF stage[j] = "put" THEN "acquire" ELSE "release")
            /\ Hold(j, NoRequest)
            /\ tries' = [tries EXCEPT ![j] = @ + 1]
       ELSE End(j)
  /\ UNCHANGED <<now, ledgerVars, published, op>>

\* A put that is cut off may be applied all the same.
CutOff(j) ==
  \/ UNCHANGED inflight
  \/ stage[j] \in {"put", "unlock"} /\ inflight' = inflight \cup {held[j]}

\* A put of unknown outcome is never repeated: the job does not work, or leaves its
\* lease to run out.  So it is when a read fails or the job is killed.
Stop(j) ==
  /\ Lossy
  /\ stage[j] \notin {"new", "over"}
  /\ CutOff(j)
  /\ End(j)
  /\ UNCHANGED <<now, doc, started, permitted, published, op>>

\* Built and published, or failed on the way: the lease is given up either way.
Finish(j) ==
  /\ stage[j] = "working"
  /\ published' \in {published, published \cup {Work[j]}}
  /\ Goto(j, "release")
  /\ UNCHANGED <<now, ledgerVars, held, tries, op>>

\* The alarm: a job whose admission it cuts off does not know its token.
Expire(j) ==
  /\ stage[j] \in Alarmed
  /\ now >= due[j]
  /\ IF stage[j] = "working"
       THEN Goto(j, "release") /\ UNCHANGED <<inflight, held, tries>>
       ELSE CutOff(j) /\ End(j)
  /\ UNCHANGED <<now, doc, started, permitted, published, op>>

-----------------------------------------------------------------------------
(***************************************************************************)
(* The operator, the store and the clock.                                  *)
(***************************************************************************)
Operate(s, w, request, t) == op' = [stage |-> s, work |-> w, held |-> request, tries |-> t]

\* A pause, and its end, by hand.
Pause ==
  /\ Store([doc EXCEPT !.paused = ~@])
  /\ UNCHANGED <<now, inflight, stage, due, held, tries, published, op>>

\* renew_review, of a review that has just been made.
Review ==
  LET renewed == [doc EXCEPT !.reviewed = now]
  IN  /\ op.stage = "idle"
      /\ doc.reviewed < now
      /\ Valid(renewed)
      /\ Operate("review", op.work, [base |-> doc, want |-> renewed], 1)
      /\ UNCHANGED <<now, ledgerVars, stage, due, held, tries, published>>

\* permit_failed_cycle looks at the pointer, then at the ledger.
Look(w) ==
  /\ op.stage = "idle" \/ (op.stage = "look" /\ op.work = w)
  /\ w \notin published
  /\ Operate("looked", w, NoRequest, op.tries)
  /\ UNCHANGED <<now, ledgerVars, stage, due, held, tries, published>>

PermitRead ==
  /\ op.stage = "looked"
  /\ Permissible(doc, op.work)
  /\ Operate("permit", op.work, [base |-> doc, want |-> Permit(doc, op.work)], op.tries)
  /\ UNCHANGED <<now, ledgerVars, stage, due, held, tries, published>>

\* Any of the checks may also end the command: a complete run, for one.
GiveUp ==
  /\ op.stage \in {"look", "looked"}
  /\ op' = NoCommand
  /\ UNCHANGED <<now, ledgerVars, stage, due, held, tries, published>>

OpWritten ==
  /\ op.stage \in {"review", "permit"}
  /\ Same(op.held.base)
  /\ Store(op.held.want)
  /\ op' = NoCommand
  /\ UNCHANGED <<now, inflight, stage, due, held, tries, published>>

\* A recovery that lost a race starts over; a review does not.
OpRefused ==
  /\ op.stage \in {"review", "permit"}
  /\ ~Same(op.held.base)
  /\ IF op.stage = "permit" /\ MayRetry(op.tries)
       THEN Operate("look", op.work, NoRequest, op.tries + 1)
       ELSE op' = NoCommand
  /\ UNCHANGED <<now, ledgerVars, stage, due, held, tries, published>>

OpUnknown ==
  /\ Lossy
  /\ op.stage \in {"review", "permit"}
  /\ inflight' = inflight \cup {op.held}
  /\ op' = NoCommand
  /\ UNCHANGED <<now, doc, started, permitted, stage, due, held, tries, published>>

\* A lost write reaches the store after all, or never does.
LateWrite ==
  \E r \in inflight :
    /\ inflight' = inflight \ {r}
    /\ (Same(r.base) /\ Store(r.want)) \/ UNCHANGED <<doc, started, permitted>>
    /\ UNCHANGED <<now, stage, due, held, tries, published, op>>

\* Time passes; no job goes on beyond its alarm for longer than Overrun.
Tick ==
  /\ now < MaxTime
  /\ \A j \in Jobs : stage[j] \in Alarmed => now < due[j] + Overrun
  /\ now' = now + 1
  /\ UNCHANGED <<ledgerVars, stage, due, held, tries, published, op>>

JobStep(j) ==
  \/ Check(j) \/ Leave(j) \/ Acquire(j) \/ Release(j)
  \/ Written(j) \/ Refused(j) \/ Stop(j) \/ Finish(j) \/ Expire(j)

OperatorStep ==
  \/ Pause \/ Review \/ (\E w \in Works : Look(w)) \/ PermitRead \/ GiveUp
  \/ OpWritten \/ OpRefused \/ OpUnknown

PaidNext == (\E j \in Jobs : JobStep(j)) \/ OperatorStep \/ LateWrite \/ Tick

PaidSpec == PaidInit /\ [][PaidNext]_paidVars

-----------------------------------------------------------------------------
(***************************************************************************)
(* Properties.                                                             *)
(***************************************************************************)
Admitted == {j \in Jobs : started[j] # 0}
Working == {j \in Jobs : stage[j] = "working"}

\* A job works only on an admission that is in the ledger, and two work at once only
\* on different channels, and never when single_active is set: leases outlast the
\* work they stand for, although they are decided before the put and run out by the clock.
OneProducer ==
  /\ Working \subseteq Admitted
  /\ \A j, k \in Working : j # k => Channel(j) # Channel(k) /\ ~doc.single

\* No sequence of retries, late writes and recoveries takes usage beyond a limit.
WithinLimits ==
  /\ doc.starts <= MaxStarts /\ doc.seconds <= MaxSeconds
  /\ \A c \in Channels, d \in DayNo : doc.channel[c].days[d] <= Daily

\* A work is admitted once, and once more for each recovery of it.
OncePerWork ==
  \A w \in Works : Cardinality({j \in Admitted : Work[j] = w}) <= 1 + permitted[w]

\* Under an operator's pause nothing is admitted, and no job, review or recovery lifts
\* it: the ledger that comes after a pause differs from it in nothing else.
PauseHolds ==
  [][doc.paused =>
       \/ doc' = [doc EXCEPT !.paused = FALSE]
       \/ doc'.paused /\ doc'.starts = doc.starts]_paidVars

\* A work is permitted again only when no job is working on it.
RecoversStopped ==
  [][\A j \in Working : permitted'[Work[j]] = permitted[Work[j]]]_paidVars

\* The scheduled job of a channel on which a catch-up was the last to start finds, from
\* its slot on, no lease, its interval and a start of the day left.
CatchUpsYield ==
  \A j \in CatchUps :
    LET c == Channel(j)
    IN  /\ started[j] # 0 /\ doc.channel[c].last = started[j]
        /\ now >= Slot[c] /\ DayOf(now) = DayOf(Slot[c])
        => ~Leased(doc, c) /\ Rested(doc, c)

=============================================================================
