--------------------------- MODULE PaidWorkProofs ---------------------------
(***************************************************************************)
(* Proofs about the usage ledger of optional producers (PaidWork).         *)
(*                                                                         *)
(* A lease is decided before the put that brings it into the ledger, and   *)
(* runs out by the clock.  The inductive invariant, PaidInv, carries with  *)
(* every write that is under way or lost the time at which it was decided  *)
(* and the checks it passed then, on the ledger that it expects: when the  *)
(* conditional put applies it, the checks hold of the ledger in the store. *)
(***************************************************************************)
EXTENDS PaidWork, FiniteSetTheorems, TLAPS

-----------------------------------------------------------------------------
(***************************************************************************)
(* A request is decided at a time t of the past, on the ledger it carries; *)
(* what was true of that ledger then is true of the store's when the       *)
(* request is applied, as the two are equal.                               *)
(***************************************************************************)
Last(ledger, c) == ledger.channel[c].last
Days(ledger, c) == ledger.channel[c].days
Holder(ledger, c) == ledger.channel[c].active.token
Until(ledger, c) == ledger.channel[c].active.until

FreeAt(ledger, c, t) ==
  /\ Until(ledger, c) <= t
  /\ ledger.single => \A d \in Channels : Until(ledger, d) <= t

\* Guard.acquire of job j at t.
ChargeAt(ledger, new, j, t) ==
  LET c == Channel(j)
  IN  /\ ~ledger.paused
      /\ ledger.seen[Work[j]] = NoJob
      /\ FreeAt(ledger, c, t)
      /\ Last(ledger, c) <= t
      /\ Last(ledger, c) # 0 => Last(ledger, c) + Interval <= t
      /\ Days(ledger, c)[DayOf(t)] < Daily
      /\ ledger.starts < MaxStarts /\ ledger.seconds + Allowance[c] <= MaxSeconds
      /\ j \in CatchUps =>
           /\ t + Interval <= Slot[c] /\ t + Allowance[c] + Grace <= Slot[c]
           /\ DayOf(Slot[c]) = DayOf(t) => Days(ledger, c)[DayOf(t)] + 1 < Daily
      /\ new = [ledger EXCEPT
                  !.starts = @ + 1,
                  !.seconds = @ + Allowance[c],
                  !.seen[Work[j]] = j,
                  !.channel[c] = [last |-> t,
                                  days |-> [Days(ledger, c) EXCEPT ![DayOf(t)] = @ + 1],
                                  active |-> [token |-> j, until |-> t + Allowance[c] + Grace]]]

\* Guard.finish.
Releases(ledger, new, j) ==
  /\ Holder(ledger, Channel(j)) = j
  /\ new = Released(ledger, Channel(j))

\* renew_review.
Renews(ledger, new) ==
  /\ ~ledger.paused
  /\ \E t \in Time : new = [ledger EXCEPT !.reviewed = t]

\* permit_failed_cycle of work w at t.
PermitAt(ledger, new, w, t) ==
  /\ ~ledger.paused
  /\ ledger.seen[w] # NoJob
  /\ FreeAt(ledger, Layer[w], t)
  /\ new = Permit(ledger, w)

Decided(ledger, new) ==
  \/ \E j \in Jobs, t \in Time : t <= now /\ ChargeAt(ledger, new, j, t)
  \/ \E j \in Jobs : stage[j] = "over" /\ Releases(ledger, new, j)
  \/ Renews(ledger, new)
  \/ \E w \in Works, t \in Time : t <= now /\ PermitAt(ledger, new, w, t)

-----------------------------------------------------------------------------
(***************************************************************************)
(* The inductive invariant.                                                *)
(***************************************************************************)

\* Every write, under way or lost, was decided on the ledger it expects.
Deciding ==
  /\ \A j \in Jobs : stage[j] = "put" =>
       \E t \in Time : /\ t <= now /\ due[j] <= t + Allowance[Channel(j)]
                       /\ ChargeAt(held[j].base, held[j].want, j, t)
  /\ \A j \in Jobs : stage[j] = "unlock" => Releases(held[j].base, held[j].want, j)
  /\ op.stage = "review" => Renews(op.held.base, op.held.want)
  /\ op.stage = "permit" =>
       \E w \in Works, t \in Time : t <= now /\ PermitAt(op.held.base, op.held.want, w, t)
  /\ \A r \in inflight : Decided(r.base, r.want)

\* The alarm was set at a time of the past, and ends a job Overrun after it at the latest.
OnTime ==
  \A j \in Jobs : stage[j] \in Alarmed =>
    /\ due[j] <= now + Allowance[Channel(j)]
    /\ now <= due[j] + Overrun

\* A lease stands for the last start of its channel; days are counted up to that start.
Accounted ==
  \A c \in Channels :
    /\ Holder(doc, c) = NoJob => Until(doc, c) = 0
    /\ Holder(doc, c) # NoJob =>
         /\ Channel(Holder(doc, c)) = c
         /\ started[Holder(doc, c)] = Last(doc, c)
         /\ Last(doc, c) # 0
         /\ Until(doc, c) = Last(doc, c) + Allowance[c] + Grace
    /\ \A d \in DayNo : Days(doc, c)[d] # 0 => Last(doc, c) # 0 /\ d <= DayOf(Last(doc, c))

\* The last start of a channel is the latest; a catch-up that is it left room for the slot.
LastStarts ==
  \A j \in Jobs : started[j] # 0 =>
    LET c == Channel(j)
    IN  /\ started[j] <= Last(doc, c)
        /\ j \in CatchUps /\ Last(doc, c) = started[j] =>
             /\ started[j] + Interval <= Slot[c] /\ started[j] + Allowance[c] + Grace <= Slot[c]
             /\ DayOf(Slot[c]) = DayOf(started[j]) => Days(doc, c)[DayOf(started[j])] < Daily

\* The identity of a work in the ledger stands for its last admission.
Starters(w) == {j \in Admitted : Work[j] = w}
Counted ==
  \A w \in Works :
    /\ doc.seen[w] = NoJob => Cardinality(Starters(w)) <= permitted[w]
    /\ doc.seen[w] # NoJob => Cardinality(Starters(w)) <= 1 + permitted[w]

\* A working job has its lease, longer than its alarm and what it may run beyond it.
HasLease ==
  \A j \in Jobs : stage[j] = "working" =>
    /\ Holder(doc, Channel(j)) = j
    /\ due[j] + Grace <= Until(doc, Channel(j))
Alone == \A j, k \in Jobs : stage[j] = "working" /\ stage[k] = "working" /\ j # k => ~doc.single

PaidInv ==
  PaidTypeOK /\ Deciding /\ OnTime /\ Accounted /\ LastStarts /\ Counted /\ HasLease /\ Alone /\ WithinLimits

-----------------------------------------------------------------------------
(***************************************************************************)
(* What a step does to the ledger, and to the notes of its admissions.     *)
(***************************************************************************)
Kept == doc' = doc /\ started' = started /\ permitted' = permitted
Starts(j, t) ==
  /\ t <= now
  /\ ChargeAt(doc, doc', j, t)
  /\ started' = [started EXCEPT ![j] = t] /\ permitted' = permitted
Frees(j) ==
  /\ stage[j] \in {"unlock", "over"} /\ Releases(doc, doc', j)
  /\ started' = started /\ permitted' = permitted
Renewed == Renews(doc, doc') /\ started' = started /\ permitted' = permitted
Toggled ==
  /\ doc' = [doc EXCEPT !.paused = ~@]
  /\ started' = started /\ permitted' = permitted
Again(w) ==
  /\ \E t \in Time : t <= now /\ PermitAt(doc, doc', w, t)
  /\ started' = started /\ permitted' = [permitted EXCEPT ![w] = @ + 1]

Move ==
  \/ Kept
  \/ now' = now /\ \/ \E j \in Jobs, t \in Time : Starts(j, t)
                   \/ \E j \in Jobs : Frees(j)
                   \/ Renewed \/ Toggled
                   \/ \E w \in Works : Again(w)
-----------------------------------------------------------------------------
(***************************************************************************)
(* Arithmetic.                                                             *)
(***************************************************************************)
\* A later time is of the same day or a later one.
LEMMA DaysInOrder ==
  ASSUME NEW s \in Nat, NEW t \in Nat, s <= t
  PROVE  DayOf(s) \in Nat /\ DayOf(t) \in Nat /\ DayOf(s) <= DayOf(t)
<1>1. Day \in Nat /\ Day > 0
  BY PaidNumbers
<1> QED  BY <1>1, SMT DEF DayOf

\* Every time of the clock is of a counted day.
LEMMA DaysCounted ==
  ASSUME NEW t \in Time
  PROVE  t \in Nat \ {0} /\ DayOf(t) \in DayNo
<1>1. MaxTime \in Nat /\ t \in Nat \ {0} /\ t <= MaxTime
  BY PaidNumbers DEF Time
<1> QED  BY <1>1, DaysInOrder DEF DayNo

\* The greater of two numbers bounds both.
LEMMA MaxOfTwo ==
  ASSUME NEW x \in Nat, NEW y \in Nat
  PROVE  Max({x, y}) \in Nat /\ x <= Max({x, y}) /\ y <= Max({x, y})
<1>1. \E m \in {x, y} : \A n \in {x, y} : m >= n
  OBVIOUS
<1>2. Max({x, y}) \in {x, y} /\ \A n \in {x, y} : Max({x, y}) >= n
  BY <1>1 DEF Max
<1> QED  BY <1>2

-----------------------------------------------------------------------------
(***************************************************************************)
(* What each decision makes of a ledger.                                   *)
(***************************************************************************)
SameAccount(ledger, new, c) ==
  /\ Last(new, c) = Last(ledger, c) /\ Days(new, c) = Days(ledger, c)
  /\ Holder(new, c) = Holder(ledger, c) /\ Until(new, c) = Until(ledger, c)

\* What the constants are.
LEMMA PaidConstants ==
  /\ {Interval, Day, Daily, MaxStarts, MaxSeconds, Permitted, ReviewLife, Tries} \subseteq Nat \ {0}
  /\ Grace \in Nat /\ Overrun \in Nat /\ MaxTime \in Nat \ {0} /\ Overrun < Grace
  /\ Allowance \in [Channels -> Nat \ {0}] /\ Slot \in [Channels -> Nat]
  /\ IsFiniteSet(Jobs) /\ NoJob \notin Jobs /\ Works # {} /\ CatchUps \subseteq Jobs
  /\ Work \in [Jobs -> Works] /\ Layer \in [Works -> Channels]
  /\ \A j \in Jobs : Channel(j) \in Channels
<1>1. Work \in [Jobs -> Works] /\ Layer \in [Works -> Channels]
  BY PaidJobs
<1>2. \A j \in Jobs : Channel(j) \in Channels
  BY <1>1 DEF Channel
<1> QED  BY <1>1, <1>2, PaidNumbers, PaidJobs, OverrunAssumption

\* The fields of a channel's account have their types.
LEMMA AccountFields ==
  ASSUME NEW ledger \in Ledger, NEW c \in Channels
  PROVE  /\ Last(ledger, c) \in Time \cup {0} /\ Last(ledger, c) \in Nat
         /\ Days(ledger, c) \in [DayNo -> Nat]
         /\ Holder(ledger, c) \in Token /\ Until(ledger, c) \in Nat
<1>1. ledger.channel[c] \in Account
  BY DEF Ledger
<1>2. ledger.channel[c].active \in Lease
  BY <1>1 DEF Account
<1> QED  BY <1>1, <1>2, DaysCounted DEF Account, Lease, Last, Days, Holder, Until

OneMore(days, d) == [days EXCEPT ![d] = days[d] + 1]
\* A day that is counted is one more; the other days are as they were.
LEMMA OneMoreCounts ==
  ASSUME NEW days \in [DayNo -> Nat], NEW d \in DayNo
  PROVE  /\ OneMore(days, d)[d] = days[d] + 1
         /\ \A e \in DayNo \ {d} : OneMore(days, d)[e] = days[e]
BY DEF OneMore

ChargedIs(ledger, new, j, t) ==
  /\ new \in Ledger
  /\ new.paused = ledger.paused /\ new.single = ledger.single
  /\ new.reviewed = ledger.reviewed
  /\ new.starts = ledger.starts + 1
  /\ new.seconds = ledger.seconds + Allowance[Channel(j)]
  /\ new.seen = [ledger.seen EXCEPT ![Work[j]] = j]
  /\ \A d \in Channels \ {Channel(j)} : SameAccount(ledger, new, d)
  /\ Last(new, Channel(j)) = t
  /\ Days(new, Channel(j)) = OneMore(Days(ledger, Channel(j)), DayOf(t))
  /\ Holder(new, Channel(j)) = j
  /\ Until(new, Channel(j)) = t + Allowance[Channel(j)] + Grace

\* The ledger that is charged.
LEMMA ChargeIs ==
  ASSUME NEW ledger \in Ledger, NEW new, NEW j \in Jobs, NEW t \in Time, ChargeAt(ledger, new, j, t)
  PROVE  ChargedIs(ledger, new, j, t)
<1> DEFINE c == Channel(j)
           days == Days(ledger, c)
           account == [last |-> t,
                       days |-> [days EXCEPT ![DayOf(t)] = days[DayOf(t)] + 1],
                       active |-> [token |-> j, until |-> t + Allowance[c] + Grace]]
<1>1. /\ c \in Channels /\ Work[j] \in Works /\ Allowance[c] \in Nat /\ Grace \in Nat
      /\ t \in Nat \ {0} /\ DayOf(t) \in DayNo
  BY PaidConstants, DaysCounted
<1>2. /\ ledger.starts \in Nat /\ ledger.seconds \in Nat
      /\ ledger.seen \in [Works -> Token] /\ ledger.channel \in [Channels -> Account]
      /\ ledger.paused \in BOOLEAN /\ ledger.single \in BOOLEAN /\ ledger.reviewed \in Time
  BY DEF Ledger
<1>3. days \in [DayNo -> Nat]
  BY <1>1, AccountFields
<1>4. [days EXCEPT ![DayOf(t)] = days[DayOf(t)] + 1] \in [DayNo -> Nat]
  BY <1>1, <1>3
<1>5. account \in Account
  BY <1>1, <1>4 DEF Account, Lease, Token
<1>6. new = [ledger EXCEPT
               !.starts = ledger.starts + 1,
               !.seconds = ledger.seconds + Allowance[c],
               !.seen = [ledger.seen EXCEPT ![Work[j]] = j],
               !.channel = [ledger.channel EXCEPT ![c] = account]]
  BY DEF ChargeAt, Ledger
<1>7. /\ [ledger.seen EXCEPT ![Work[j]] = j] \in [Works -> Token]
      /\ [ledger.channel EXCEPT ![c] = account] \in [Channels -> Account]
  BY <1>1, <1>2, <1>5 DEF Token
<1> DEFINE seen == [ledger.seen EXCEPT ![Work[j]] = j]
           channel == [ledger.channel EXCEPT ![c] = account]
           starts == ledger.starts + 1
           seconds == ledger.seconds + Allowance[c]
<1>10. starts \in Nat /\ seconds \in Nat
  BY <1>1, <1>2
<1> HIDE DEF account, c, seen, channel, starts, seconds
<1>11. /\ new.paused = ledger.paused /\ new.single = ledger.single
       /\ new.reviewed = ledger.reviewed /\ new.starts = starts /\ new.seconds = seconds
       /\ new.seen = seen /\ new.channel = channel
       /\ new \in Ledger
  BY <1>2, <1>6, <1>7, <1>10 DEF Ledger, seen, channel, starts, seconds
<1>8. /\ new.paused = ledger.paused /\ new.single = ledger.single
      /\ new.reviewed = ledger.reviewed
      /\ new.starts = ledger.starts + 1 /\ new.seconds = ledger.seconds + Allowance[c]
      /\ new.seen = [ledger.seen EXCEPT ![Work[j]] = j]
      /\ new.channel = [ledger.channel EXCEPT ![c] = account]
      /\ new \in Ledger
  BY <1>11 DEF seen, channel, starts, seconds
<1>9. new.channel[c] = account /\ \A d \in Channels \ {c} : new.channel[d] = ledger.channel[d]
  BY <1>1, <1>2, <1>8
<1>12. \A d \in Channels \ {c} : SameAccount(ledger, new, d)
  BY <1>9 DEF SameAccount, Last, Days, Holder, Until
<1>13. /\ Last(new, c) = account.last /\ Days(new, c) = account.days
       /\ Holder(new, c) = account.active.token /\ Until(new, c) = account.active.until
  BY <1>9 DEF Last, Days, Holder, Until
<1>14. /\ account.last = t /\ account.days = [days EXCEPT ![DayOf(t)] = days[DayOf(t)] + 1]
       /\ account.active.token = j /\ account.active.until = t + Allowance[c] + Grace
  BY DEF account
<1>15. /\ Last(new, c) = t /\ Days(new, c) = [days EXCEPT ![DayOf(t)] = days[DayOf(t)] + 1]
       /\ Holder(new, c) = j /\ Until(new, c) = t + Allowance[c] + Grace
  BY <1>13, <1>14
<1> QED  BY <1>8, <1>12, <1>15 DEF c, OneMore, ChargedIs

\* The ledger whose lease is given up.
LEMMA ReleaseIs ==
  ASSUME NEW ledger \in Ledger, NEW c \in Channels
  PROVE  LET new == Released(ledger, c)
         IN  /\ new \in Ledger
             /\ new.paused = ledger.paused /\ new.single = ledger.single
             /\ new.reviewed = ledger.reviewed
             /\ new.starts = ledger.starts /\ new.seconds = ledger.seconds
             /\ new.seen = ledger.seen
             /\ \A d \in Channels \ {c} : SameAccount(ledger, new, d)
             /\ Last(new, c) = Last(ledger, c) /\ Days(new, c) = Days(ledger, c)
             /\ Holder(new, c) = NoJob /\ Until(new, c) = 0
<1> DEFINE new == Released(ledger, c)
           account == [ledger.channel[c] EXCEPT !.active = NoLease]
<1>1. /\ ledger.starts \in Nat /\ ledger.seconds \in Nat
      /\ ledger.seen \in [Works -> Token] /\ ledger.channel \in [Channels -> Account]
      /\ ledger.paused \in BOOLEAN /\ ledger.single \in BOOLEAN /\ ledger.reviewed \in Time
      /\ ledger.channel[c] \in Account
  BY DEF Ledger
<1>2. /\ account \in Account
      /\ account.last = ledger.channel[c].last /\ account.days = ledger.channel[c].days
      /\ account.active.token = NoJob /\ account.active.until = 0
  BY <1>1 DEF Account, Lease, NoLease, Token
<1>3. new = [ledger EXCEPT !.channel = [ledger.channel EXCEPT ![c] = account]]
  BY <1>1 DEF Released, Ledger
<1> HIDE DEF account
<1>4. [ledger.channel EXCEPT ![c] = account] \in [Channels -> Account]
  BY <1>1, <1>2
<1>5. /\ new.paused = ledger.paused /\ new.single = ledger.single
      /\ new.reviewed = ledger.reviewed
      /\ new.starts = ledger.starts /\ new.seconds = ledger.seconds
      /\ new.seen = ledger.seen
      /\ new.channel = [ledger.channel EXCEPT ![c] = account]
      /\ new \in Ledger
  BY <1>1, <1>3, <1>4 DEF Ledger
<1>6. new.channel[c] = account /\ \A d \in Channels \ {c} : new.channel[d] = ledger.channel[d]
  BY <1>1, <1>5
<1> HIDE DEF new
<1>7. /\ Last(new, c) = Last(ledger, c) /\ Days(new, c) = Days(ledger, c)
      /\ Holder(new, c) = NoJob /\ Until(new, c) = 0
  BY <1>2, <1>6 DEF Last, Days, Holder, Until
<1>8. \A d \in Channels \ {c} : SameAccount(ledger, new, d)
  BY <1>6 DEF SameAccount, Last, Days, Holder, Until
<1> QED  BY <1>5, <1>7, <1>8 DEF new

\* The ledger that is reviewed again.
LEMMA ReviewIs ==
  ASSUME NEW ledger \in Ledger, NEW t \in Time
  PROVE  LET new == [ledger EXCEPT !.reviewed = t]
         IN  /\ new \in Ledger
             /\ new.paused = ledger.paused /\ new.single = ledger.single
             /\ new.starts = ledger.starts /\ new.seconds = ledger.seconds
             /\ new.seen = ledger.seen /\ \A c \in Channels : SameAccount(ledger, new, c)
             /\ new.reviewed = t
BY DEF Ledger, SameAccount, Last, Days, Holder, Until

\* The ledger that is paused, or no longer.
LEMMA ToggleIs ==
  ASSUME NEW ledger \in Ledger
  PROVE  LET new == [ledger EXCEPT !.paused = ~@]
         IN  /\ new \in Ledger
             /\ new.single = ledger.single /\ new.reviewed = ledger.reviewed
             /\ new.starts = ledger.starts /\ new.seconds = ledger.seconds
             /\ new.seen = ledger.seen /\ \A c \in Channels : SameAccount(ledger, new, c)
             /\ new.paused = ~ledger.paused
<1> DEFINE on == ~ledger.paused
           new == [ledger EXCEPT !.paused = on]
<1>1. on \in BOOLEAN
  OBVIOUS
<1> HIDE DEF on
<1>2. /\ new \in Ledger
      /\ new.single = ledger.single /\ new.reviewed = ledger.reviewed
      /\ new.starts = ledger.starts /\ new.seconds = ledger.seconds
      /\ new.seen = ledger.seen /\ new.channel = ledger.channel
      /\ new.paused = on
  BY <1>1 DEF Ledger
<1>3. new = [ledger EXCEPT !.paused = ~@]
  BY DEF on
<1>4. \A c \in Channels : SameAccount(ledger, new, c)
  BY <1>2 DEF SameAccount, Last, Days, Holder, Until
<1> QED  BY <1>2, <1>3, <1>4 DEF on

\* The ledger that forgets a work.
LEMMA PermitIs ==
  ASSUME NEW ledger \in Ledger, NEW w \in Works
  PROVE  LET new == Permit(ledger, w)
         IN  /\ new \in Ledger
             /\ new.paused = ledger.paused /\ new.single = ledger.single
             /\ new.reviewed = ledger.reviewed
             /\ new.starts = ledger.starts /\ new.seconds = ledger.seconds
             /\ new.seen = [ledger.seen EXCEPT ![w] = NoJob]
             /\ \A c \in Channels : SameAccount(ledger, new, c)
<1>1. [ledger.seen EXCEPT ![w] = NoJob] \in [Works -> Token]
  BY DEF Ledger, Token
<1>2. Permit(ledger, w) = [ledger EXCEPT !.seen = [ledger.seen EXCEPT ![w] = NoJob]]
  BY DEF Permit, Ledger
<1> QED  BY <1>1, <1>2 DEF Ledger, SameAccount, Last, Days, Holder, Until

-----------------------------------------------------------------------------
(***************************************************************************)
(* A decision that is applied on the ledger it was made on.                *)
(***************************************************************************)
\* What the type says of the variables.
LEMMA PaidTypes ==
  ASSUME PaidTypeOK
  PROVE  /\ now \in Time /\ now \in Nat \ {0} /\ doc \in Ledger /\ inflight \subseteq Request
         /\ stage \in [Jobs -> {"new", "release", "unlock", "over"} \cup Alarmed]
         /\ due \in [Jobs -> Nat] /\ held \in [Jobs -> Request]
         /\ op \in Command /\ op.held \in Request
         /\ started \in [Jobs -> Time \cup {0}] /\ permitted \in [Works -> Nat]
         /\ \A j \in Jobs : started[j] \in Nat
BY DaysCounted DEF PaidTypeOK, Command

\* The job that holds a lease started when its channel last did.
LEMMA TokenNoted ==
  ASSUME PaidTypeOK, Accounted, NEW k \in Jobs, NEW c \in Channels, Holder(doc, c) = k
  PROVE  Channel(k) = c /\ started[k] = Last(doc, c) /\ started[k] # 0
BY PaidConstants DEF Accounted

\* A charge that is applied notes the start of its job, and of no other.
LEMMA ChargeMoves ==
  ASSUME PaidTypeOK, Accounted, NEW new, NEW j \in Jobs, NEW t \in Time,
         t <= now, ChargeAt(doc, new, j, t), Store(new)
  PROVE  Starts(j, t)
<1> DEFINE c == Channel(j)
<1>1. /\ doc \in Ledger /\ started \in [Jobs -> Time \cup {0}] /\ permitted \in [Works -> Nat]
      /\ doc.seen \in [Works -> Token] /\ NoJob \notin Jobs /\ c \in Channels
  BY PaidTypes, PaidConstants DEF Ledger
<1>2. /\ new.seen = [doc.seen EXCEPT ![Work[j]] = j]
      /\ \A d \in Channels \ {c} : SameAccount(doc, new, d)
      /\ Last(new, c) = t /\ Holder(new, c) = j
  BY <1>1, ChargeIs DEF ChargedIs
<1>3. doc' = new
  BY DEF Store
<1>4. ASSUME NEW k \in Jobs
      PROVE  started'[k] = IF k = j THEN t ELSE started[k]
  <2>1. started'[k] = IF Holder(new, Channel(k)) = k THEN Last(new, Channel(k)) ELSE started[k]
    BY DEF Store, Holder, Last
  <2>2. CASE Channel(k) = c
    BY <1>2, <2>1, <2>2
  <2>3. CASE Channel(k) # c
    <3>1. /\ Channel(k) \in Channels /\ k # j
          /\ Holder(new, Channel(k)) = Holder(doc, Channel(k))
          /\ Last(new, Channel(k)) = Last(doc, Channel(k))
      BY <1>2, <2>3, PaidConstants DEF SameAccount
    <3> QED  BY <2>1, <3>1, TokenNoted
  <2> QED  BY <2>2, <2>3
<1>5. started' = [started EXCEPT ![j] = t]
  <2>1. started' = [k \in Jobs |-> started'[k]]
    BY DEF Store
  <2>2. started' = [k \in Jobs |-> IF k = j THEN t ELSE started[k]]
    BY <1>4, <2>1
  <2> QED  BY <1>1, <2>2
<1>6. permitted' = permitted
  <2>1. \A w \in Works : ~(doc.seen[w] # NoJob /\ new.seen[w] = NoJob)
    BY <1>1, <1>2
  <2>2. permitted' = [w \in Works |-> permitted[w]]
    BY <2>1 DEF Store
  <2> QED  BY <1>1, <2>2
<1> QED  BY <1>3, <1>5, <1>6 DEF Starts

\* A ledger in which no lease is new leaves the notes of the admissions as they are.
LEMMA NoneStarts ==
  ASSUME PaidTypeOK, Accounted, NEW new, Store(new),
         \A k \in Jobs, c \in Channels : Holder(new, c) = k =>
           Holder(doc, c) = k /\ Last(new, c) = Last(doc, c)
  PROVE  started' = started
<1>1. started \in [Jobs -> Time \cup {0}] /\ \A k \in Jobs : Channel(k) \in Channels
  BY PaidTypes, PaidConstants
<1>2. ASSUME NEW k \in Jobs  PROVE started'[k] = started[k]
  <2>1. started'[k] = IF Holder(new, Channel(k)) = k THEN Last(new, Channel(k)) ELSE started[k]
    BY DEF Store, Holder, Last
  <2> QED  BY <1>1, <2>1, TokenNoted
<1>3. started' = [k \in Jobs |-> started'[k]]
  BY DEF Store
<1>4. started' = [k \in Jobs |-> started[k]]
  BY <1>2, <1>3
<1> QED  BY <1>1, <1>4

\* A ledger that forgets no work leaves the notes of the recoveries as they are.
LEMMA NoneForgotten ==
  ASSUME PaidTypeOK, NEW new, Store(new), new.seen = doc.seen
  PROVE  permitted' = permitted
<1>1. permitted \in [Works -> Nat]
  BY PaidTypes
<1>2. permitted' = [w \in Works |-> permitted[w]]
  BY DEF Store
<1> QED  BY <1>1, <1>2

\* A release that is applied notes nothing.
LEMMA ReleaseMoves ==
  ASSUME PaidTypeOK, Accounted, NEW new, NEW j \in Jobs, stage[j] \in {"unlock", "over"},
         Releases(doc, new, j), Store(new)
  PROVE  Frees(j)
<1>1. doc \in Ledger /\ NoJob \notin Jobs /\ Channel(j) \in Channels
  BY PaidTypes, PaidConstants
<1>2. /\ new = Released(doc, Channel(j))
      /\ new.seen = doc.seen
      /\ \A d \in Channels \ {Channel(j)} : SameAccount(doc, new, d)
      /\ Holder(new, Channel(j)) = NoJob
  BY <1>1, ReleaseIs DEF Releases
<1>3. started' = started
  BY <1>1, <1>2, NoneStarts DEF SameAccount
<1>4. permitted' = permitted
  BY <1>2, NoneForgotten
<1> QED  BY <1>3, <1>4 DEF Frees, Store

\* Nor does a review.
LEMMA RenewMoves ==
  ASSUME PaidTypeOK, Accounted, NEW new, Renews(doc, new), Store(new)
  PROVE  Renewed
<1>1. doc \in Ledger
  BY PaidTypes
<1>2. new.seen = doc.seen /\ \A c \in Channels : SameAccount(doc, new, c)
  BY <1>1, ReviewIs DEF Renews
<1> QED  BY <1>2, NoneStarts, NoneForgotten DEF Renewed, Store, SameAccount

\* Nor does a pause, or its end.
LEMMA ToggleMoves ==
  ASSUME PaidTypeOK, Accounted, NEW new, new = [doc EXCEPT !.paused = ~@], Store(new)
  PROVE  Toggled
<1>1. doc \in Ledger
  BY PaidTypes
<1>2. new.seen = doc.seen /\ \A c \in Channels : SameAccount(doc, new, c)
  BY <1>1, ToggleIs
<1>3. started' = started
  BY <1>2, NoneStarts DEF SameAccount
<1>4. permitted' = permitted
  BY <1>2, NoneForgotten
<1> QED  BY <1>3, <1>4 DEF Toggled, Store

\* A recovery that is applied notes the work it permits again.
LEMMA PermitMoves ==
  ASSUME PaidTypeOK, Accounted, NEW new, NEW w \in Works, NEW t \in Time,
         t <= now, PermitAt(doc, new, w, t), Store(new)
  PROVE  Again(w)
<1>1. doc \in Ledger /\ permitted \in [Works -> Nat] /\ doc.seen \in [Works -> Token]
  BY PaidTypes DEF Ledger
<1>2. new.seen = [doc.seen EXCEPT ![w] = NoJob] /\ \A c \in Channels : SameAccount(doc, new, c)
  BY <1>1, PermitIs DEF PermitAt
<1>3. started' = started
  BY <1>2, NoneStarts DEF SameAccount
<1>4. permitted' = [permitted EXCEPT ![w] = @ + 1]
  <2>1. doc.seen[w] # NoJob
    BY DEF PermitAt
  <2>2. permitted' = [v \in Works |-> IF v = w THEN permitted[v] + 1 ELSE permitted[v]]
    BY <1>1, <1>2, <2>1 DEF Store
  <2> QED  BY <1>1, <2>2
<1> QED  BY <1>3, <1>4 DEF Again, Store

\* A lost write that reaches the store is one of the moves.
LEMMA DecidedMoves ==
  ASSUME PaidTypeOK, Accounted, NEW new, Decided(doc, new), Store(new), now' = now
  PROVE  Move
<1>1. ASSUME NEW j \in Jobs, NEW t \in Time, t <= now, ChargeAt(doc, new, j, t)  PROVE Move
  BY <1>1, ChargeMoves DEF Move
<1>2. ASSUME NEW j \in Jobs, stage[j] = "over", Releases(doc, new, j)  PROVE Move
  BY <1>2, ReleaseMoves DEF Move
<1>3. CASE Renews(doc, new)
  BY <1>3, RenewMoves DEF Move
<1>4. ASSUME NEW w \in Works, NEW t \in Time, t <= now, PermitAt(doc, new, w, t)  PROVE Move
  BY <1>4, PermitMoves DEF Move
<1> QED  BY <1>1, <1>2, <1>3, <1>4 DEF Decided

-----------------------------------------------------------------------------
(***************************************************************************)
(* The guards of the code decide as the definitions above say.             *)
(***************************************************************************)
\* A channel that Free finds free is free at this moment.
LEMMA FreeNow ==
  ASSUME NEW ledger \in Ledger, NEW c \in Channels, now \in Nat, Free(ledger, c)
  PROVE  FreeAt(ledger, c, now)
<1>1. \A d \in Channels : Until(ledger, d) \in Nat
  BY AccountFields
<1>2. \A d \in Channels : ~Leased(ledger, d) => Until(ledger, d) <= now
  BY <1>1 DEF Leased, Until
<1> QED  BY <1>2 DEF Free, FreeAt

\* What Acquire writes is charged at this moment.
LEMMA AdmissibleCharges ==
  ASSUME PaidTypeOK, NEW j \in Jobs, Admissible(doc, j)
  PROVE  ChargeAt(doc, Charged(doc, j), j, now)
<1> DEFINE c == Channel(j)
<1>1. /\ doc \in Ledger /\ c \in Channels /\ now \in Time /\ now \in Nat
      /\ Slot[c] \in Nat /\ Interval \in Nat /\ Allowance[c] \in Nat /\ Grace \in Nat
  BY PaidTypes, PaidConstants
<1>2. Last(doc, c) \in Nat
  BY <1>1, AccountFields
<1>3. ~doc.paused
  BY DEF Admissible, Valid
<1>4. doc.seen[Work[j]] = NoJob
  BY DEF Admissible, NewWork
<1>5. FreeAt(doc, c, now)
  BY <1>1, FreeNow DEF Admissible
<1>6. /\ Last(doc, c) <= now
      /\ Last(doc, c) # 0 => Last(doc, c) + Interval <= now
      /\ Days(doc, c)[DayOf(now)] < Daily
  <2>1. Rested(doc, c) /\ Last(doc, c) <= now
    BY DEF Admissible, Last
  <2>2. Last(doc, c) # 0 => now - Last(doc, c) >= Interval
    BY <2>1 DEF Rested, Last
  <2>3. Days(doc, c)[DayOf(now)] < Daily
    BY <2>1 DEF Rested, Days
  <2> QED  BY <1>1, <1>2, <2>1, <2>2, <2>3
<1>7. doc.starts < MaxStarts /\ doc.seconds + Allowance[c] <= MaxSeconds
  BY DEF Admissible, Affordable
<1>8. j \in CatchUps =>
        /\ now + Interval <= Slot[c] /\ now + Allowance[c] + Grace <= Slot[c]
        /\ DayOf(Slot[c]) = DayOf(now) => Days(doc, c)[DayOf(now)] + 1 < Daily
  <2> SUFFICES ASSUME j \in CatchUps
               PROVE  /\ now + Interval <= Slot[c] /\ now + Allowance[c] + Grace <= Slot[c]
                      /\ DayOf(Slot[c]) = DayOf(now) => Days(doc, c)[DayOf(now)] + 1 < Daily
    OBVIOUS
  <2> DEFINE m == Max({Interval, Allowance[c] + Grace})
  <2>1. now + m <= Slot[c]
    BY DEF Admissible, Yields
  <2>2. DayOf(Slot[c]) = DayOf(now) => Days(doc, c)[DayOf(now)] + 1 < Daily
    BY DEF Admissible, Yields, Days
  <2>3. Allowance[c] + Grace \in Nat
    BY <1>1
  <2>4. m \in Nat /\ Interval <= m /\ Allowance[c] + Grace <= m
    BY <1>1, <2>3, MaxOfTwo
  <2> HIDE DEF m
  <2>5. now + Interval <= Slot[c] /\ now + Allowance[c] + Grace <= Slot[c]
    BY <1>1, <2>1, <2>3, <2>4
  <2> QED  BY <2>2, <2>5
<1>9. Charged(doc, j) =
        [doc EXCEPT !.starts = @ + 1, !.seconds = @ + Allowance[c], !.seen[Work[j]] = j,
                    !.channel[c] = [last |-> now,
                                    days |-> [Days(doc, c) EXCEPT ![DayOf(now)] = @ + 1],
                                    active |-> [token |-> j, until |-> now + Allowance[c] + Grace]]]
  BY DEF Charged, LeaseEnd, Days
<1> QED  BY <1>1, <1>3, <1>4, <1>5, <1>6, <1>7, <1>8, <1>9 DEF ChargeAt

\* What a recovery writes is permitted at this moment.
LEMMA PermissiblePermits ==
  ASSUME PaidTypeOK, NEW w \in Works, Permissible(doc, w)
  PROVE  PermitAt(doc, Permit(doc, w), w, now)
<1>1. doc \in Ledger /\ now \in Time /\ now \in Nat /\ Layer[w] \in Channels
  BY PaidTypes, PaidConstants
<1>2. FreeAt(doc, Layer[w], now)
  BY <1>1, FreeNow DEF Permissible
<1> QED  BY <1>2 DEF PermitAt, Permissible, Valid

-----------------------------------------------------------------------------
(***************************************************************************)
(* Every step moves the ledger in one of these ways, or not at all.        *)
(***************************************************************************)
\* A lost write that is applied after all moves the ledger.
LEMMA LateMoves ==
  ASSUME PaidTypeOK, Accounted, Deciding, NEW r \in inflight, Same(r.base), Store(r.want), now' = now
  PROVE  Move
<1>1. doc = r.base /\ Decided(r.base, r.want)
  BY DEF Same, Deciding
<1> QED  BY <1>1, DecidedMoves

\* An admission that is written is a start, no earlier than its alarm less the allowance.
LEMMA PutMoves ==
  ASSUME PaidTypeOK, Accounted, Deciding, NEW j \in Jobs, stage[j] = "put", Written(j)
  PROVE  \E t \in Time : Starts(j, t) /\ due[j] <= t + Allowance[Channel(j)]
<1>1. doc = held[j].base /\ Store(held[j].want)
  BY DEF Written, Same
<1>2. PICK t \in Time : /\ t <= now /\ due[j] <= t + Allowance[Channel(j)]
                        /\ ChargeAt(held[j].base, held[j].want, j, t)
  BY DEF Deciding
<1>3. ChargeAt(doc, held[j].want, j, t)
  BY <1>1, <1>2
<1> QED  BY <1>1, <1>2, <1>3, ChargeMoves

\* A lease that is given up is freed.
LEMMA UnlockMoves ==
  ASSUME PaidTypeOK, Accounted, Deciding, NEW j \in Jobs, stage[j] = "unlock", Written(j)
  PROVE  Frees(j)
<1>1. doc = held[j].base /\ Store(held[j].want)
  BY DEF Written, Same
<1>2. Releases(doc, held[j].want, j)
  BY <1>1 DEF Deciding
<1> QED  BY <1>1, <1>2, ReleaseMoves

\* What the operator writes renews the review or permits a work again.
LEMMA OperatorMoves ==
  ASSUME PaidTypeOK, Accounted, Deciding, OpWritten
  PROVE  Renewed \/ \E w \in Works : Again(w)
<1>1. doc = op.held.base /\ Store(op.held.want) /\ op.stage \in {"review", "permit"}
  BY DEF OpWritten, Same
<1>2. CASE op.stage = "review"
  BY <1>1, <1>2, RenewMoves DEF Deciding
<1>3. CASE op.stage = "permit"
  <2>1. PICK w \in Works, t \in Time : t <= now /\ PermitAt(op.held.base, op.held.want, w, t)
    BY <1>3 DEF Deciding
  <2> QED  BY <1>1, <2>1, PermitMoves
<1> QED  BY <1>1, <1>2, <1>3

\* So every step of the specification moves the ledger, or leaves it.
LEMMA PaidMoves ==
  ASSUME PaidTypeOK, Accounted, Deciding, PaidNext
  PROVE  Move
<1>1. ASSUME NEW j \in Jobs, JobStep(j)  PROVE Move
  <2>1. CASE Written(j)
    <3>1. stage[j] \in {"put", "unlock"} /\ now' = now
      BY <2>1 DEF Written
    <3> QED  BY <2>1, <3>1, PutMoves, UnlockMoves DEF Move
  <2>2. CASE Check(j) \/ Leave(j) \/ Acquire(j) \/ Release(j) \/ Refused(j) \/ Stop(j) \/ Finish(j) \/ Expire(j)
    BY <2>2 DEF Check, Leave, Acquire, Release, Refused, Stop, Finish, Expire, ledgerVars, Move,
       Kept
  <2> QED  BY <1>1, <2>1, <2>2 DEF JobStep
<1>2. CASE OperatorStep
  <2>1. CASE Pause
    BY <2>1, ToggleMoves DEF Pause, Move
  <2>2. CASE OpWritten
    <3>1. now' = now
      BY <2>2 DEF OpWritten
    <3> QED  BY <2>2, <3>1, OperatorMoves DEF Move
  <2>3. CASE Review \/ (\E w \in Works : Look(w)) \/ PermitRead \/ GiveUp \/ OpRefused \/ OpUnknown
    BY <2>3 DEF Review, Look, PermitRead, GiveUp, OpRefused, OpUnknown, ledgerVars, Move, Kept
  <2> QED  BY <1>2, <2>1, <2>2, <2>3 DEF OperatorStep
<1>3. CASE LateWrite
  <2>1. PICK r \in inflight :
          /\ (Same(r.base) /\ Store(r.want)) \/ UNCHANGED <<doc, started, permitted>>
          /\ now' = now
    BY <1>3 DEF LateWrite
  <2> QED  BY <2>1, LateMoves DEF Move, Kept
<1>4. CASE Tick
  BY <1>4 DEF Tick, ledgerVars, Move, Kept
<1> QED  BY <1>1, <1>2, <1>3, <1>4 DEF PaidNext

-----------------------------------------------------------------------------
(***************************************************************************)
(* Types.                                                                  *)
(***************************************************************************)
\* Every move keeps the types of the ledger and of its notes.
LEMMA MoveTyped ==
  ASSUME PaidTypeOK, Move
  PROVE  doc' \in Ledger /\ started' \in [Jobs -> Time \cup {0}] /\ permitted' \in [Works -> Nat]
<1>0. doc \in Ledger /\ started \in [Jobs -> Time \cup {0}] /\ permitted \in [Works -> Nat]
  BY PaidTypes
<1>1. CASE Kept
  BY <1>0, <1>1 DEF Kept
<1>2. ASSUME NEW j \in Jobs, NEW t \in Time, Starts(j, t)
      PROVE  doc' \in Ledger /\ started' \in [Jobs -> Time \cup {0}] /\ permitted' \in [Works -> Nat]
  <2>1. doc' \in Ledger
    BY <1>0, <1>2, ChargeIs DEF Starts, ChargedIs
  <2> QED  BY <1>0, <1>2, <2>1 DEF Starts
<1>3. ASSUME NEW j \in Jobs, Frees(j)
      PROVE  doc' \in Ledger /\ started' \in [Jobs -> Time \cup {0}] /\ permitted' \in [Works -> Nat]
  BY <1>0, <1>3, ReleaseIs, PaidConstants DEF Frees, Releases
<1>4. CASE Renewed
  BY <1>0, <1>4, ReviewIs DEF Renewed, Renews
<1>5. CASE Toggled
  BY <1>0, <1>5, ToggleIs DEF Toggled
<1>6. ASSUME NEW w \in Works, Again(w)
      PROVE  doc' \in Ledger /\ started' \in [Jobs -> Time \cup {0}] /\ permitted' \in [Works -> Nat]
  <2>1. doc' \in Ledger
    BY <1>0, <1>6, PermitIs DEF Again, PermitAt
  <2> QED  BY <1>0, <1>6, <2>1 DEF Again
<1> QED  BY <1>1, <1>2, <1>3, <1>4, <1>5, <1>6 DEF Move

Stages == {"new", "release", "unlock", "over"} \cup Alarmed

\* The request of a job that writes nothing is a request.
LEMMA NoRequestTyped == NoRequest \in Request
<1>1. 1 \in Time
  BY PaidConstants DEF Time
<1>2. [w \in Works |-> NoJob] \in [Works -> Token]
  BY DEF Token
<1> DEFINE account == [last |-> 0, days |-> [d \in DayNo |-> 0], active |-> NoLease]
<1>3. account \in Account
  BY DEF Account, Lease, NoLease, Token
<1>4. [c \in Channels |-> account] \in [Channels -> Account]
  BY <1>3
<1>5. \A single \in BOOLEAN : Provision(single) \in Ledger
  BY <1>1, <1>2, <1>4 DEF Provision, Ledger
<1> QED  BY <1>5 DEF NoRequest, Request

\* The command of an idle operator is a command.
LEMMA NoCommandTyped == NoCommand \in Command
<1>1. (CHOOSE w \in Works : TRUE) \in Works
  BY PaidConstants
<1>2. 1 \in 1..Tries
  BY PaidConstants
<1> QED  BY <1>1, <1>2, NoRequestTyped DEF NoCommand, Command

\* The part of the type that a job's steps write.
JobTyped ==
  /\ stage \in [Jobs -> Stages] /\ due \in [Jobs -> Nat]
  /\ held \in [Jobs -> Request] /\ tries \in [Jobs -> 1..Tries]

\* A job that goes on has a stage and an alarm.
LEMMA GotoTyped ==
  ASSUME JobTyped, NEW j \in Jobs, NEW s \in Stages, Goto(j, s)
  PROVE  stage' \in [Jobs -> Stages] /\ due' \in [Jobs -> Nat]
BY DEF JobTyped, Goto

\* A job that takes a request holds one.
LEMMA HoldTyped ==
  ASSUME JobTyped, NEW j \in Jobs, NEW r \in Request, Hold(j, r)
  PROVE  held' \in [Jobs -> Request]
BY DEF JobTyped, Hold

\* A job that ends keeps the types.
LEMMA EndTyped ==
  ASSUME JobTyped, NEW j \in Jobs, End(j)
  PROVE  JobTyped'
<1>1. "over" \in Stages /\ 1 \in 1..Tries
  BY PaidConstants DEF Stages
<1>2. stage' \in [Jobs -> Stages] /\ due' \in [Jobs -> Nat]
  BY <1>1, GotoTyped DEF End
<1>3. held' \in [Jobs -> Request]
  BY HoldTyped, NoRequestTyped DEF End
<1>4. tries' \in [Jobs -> 1..Tries]
  BY <1>1 DEF End, JobTyped
<1> QED  BY <1>2, <1>3, <1>4 DEF JobTyped

\* Two ledgers make a request.
LEMMA RequestTyped ==
  ASSUME NEW base \in Ledger, NEW want \in Ledger
  PROVE  [base |-> base, want |-> want] \in Request
BY DEF Request

\* Every step of a job keeps the types of the jobs.
LEMMA JobTypedKept ==
  ASSUME PaidTypeOK, NEW j \in Jobs, JobStep(j)
  PROVE  JobTyped'
<1>0. /\ JobTyped /\ doc \in Ledger /\ now \in Nat /\ Tries \in Nat /\ Tries > 0
      /\ Channel(j) \in Channels /\ Allowance[Channel(j)] \in Nat
  BY PaidTypes, PaidConstants DEF PaidTypeOK, JobTyped, Stages
<1>10. /\ "acquire" \in Stages /\ "put" \in Stages /\ "working" \in Stages /\ "release" \in Stages
      /\ "unlock" \in Stages /\ 1 \in 1..Tries
  BY <1>0 DEF Stages, Alarmed
<1>1. CASE Check(j)
  <2>1. CASE Valid(doc)
    BY <1>0, <1>10, <1>1, <2>1 DEF Check, JobTyped
  <2>2. CASE ~Valid(doc)
    BY <1>0, <1>1, <2>2, EndTyped DEF Check
  <2> QED  BY <2>1, <2>2
<1>2. CASE Leave(j)
  BY <1>0, <1>2, EndTyped DEF Leave
<1>3. CASE Acquire(j)
  <2>1. CASE Admissible(doc, j)
    <3>1. Charged(doc, j) \in Ledger
      BY <1>0, <2>1, AdmissibleCharges, ChargeIs, PaidTypes DEF ChargedIs
    <3>2. held' \in [Jobs -> Request]
      BY <1>0, <1>3, <2>1, <3>1, HoldTyped, RequestTyped DEF Acquire
    <3>3. stage' \in [Jobs -> Stages] /\ due' \in [Jobs -> Nat] /\ tries' = tries
      BY <1>0, <1>10, <1>3, <2>1, GotoTyped DEF Acquire
    <3> QED  BY <1>0, <3>2, <3>3 DEF JobTyped
  <2>2. CASE ~Admissible(doc, j)
    BY <1>0, <1>3, <2>2, EndTyped DEF Acquire
  <2> QED  BY <2>1, <2>2
<1>4. CASE Release(j)
  <2>1. CASE doc.channel[Channel(j)].active.token = j
    <3>1. Released(doc, Channel(j)) \in Ledger
      BY <1>0, ReleaseIs
    <3>2. held' \in [Jobs -> Request]
      BY <1>0, <1>4, <2>1, <3>1, HoldTyped, RequestTyped DEF Release
    <3>3. stage' \in [Jobs -> Stages] /\ due' \in [Jobs -> Nat] /\ tries' = tries
      BY <1>0, <1>10, <1>4, <2>1, GotoTyped DEF Release
    <3> QED  BY <1>0, <3>2, <3>3 DEF JobTyped
  <2>2. CASE doc.channel[Channel(j)].active.token # j
    BY <1>0, <1>4, <2>2, EndTyped DEF Release
  <2> QED  BY <2>1, <2>2
<1>5. CASE Written(j)
  <2>1. CASE stage[j] = "put"
    <3>1. held' \in [Jobs -> Request]
      BY <1>0, <1>5, <2>1, HoldTyped, NoRequestTyped DEF Written
    <3>2. stage' \in [Jobs -> Stages] /\ due' \in [Jobs -> Nat]
      BY <1>0, <1>10, <1>5, <2>1, GotoTyped DEF Written
    <3>3. tries' \in [Jobs -> 1..Tries]
      BY <1>0, <1>10, <1>5, <2>1 DEF Written, JobTyped
    <3> QED  BY <3>1, <3>2, <3>3 DEF JobTyped
  <2>2. CASE stage[j] # "put"
    BY <1>0, <1>5, <2>2, EndTyped DEF Written
  <2> QED  BY <2>1, <2>2
<1>6. CASE Refused(j)
  <2>1. CASE MayRetry(tries[j])
    <3>1. held' \in [Jobs -> Request]
      BY <1>0, <1>6, <2>1, HoldTyped, NoRequestTyped DEF Refused
    <3>2. stage' \in [Jobs -> Stages] /\ due' \in [Jobs -> Nat]
      BY <1>0, <1>10, <1>6, <2>1, GotoTyped DEF Refused
    <3>3. tries' \in [Jobs -> 1..Tries]
      BY <1>0, <1>6, <2>1 DEF Refused, JobTyped, MayRetry
    <3> QED  BY <3>1, <3>2, <3>3 DEF JobTyped
  <2>2. CASE ~MayRetry(tries[j])
    BY <1>0, <1>6, <2>2, EndTyped DEF Refused
  <2> QED  BY <2>1, <2>2
<1>7. CASE Stop(j)
  BY <1>0, <1>7, EndTyped DEF Stop
<1>8. CASE Finish(j)
  <2>1. Goto(j, "release") /\ held' = held /\ tries' = tries
    BY <1>8 DEF Finish
  <2> QED  BY <1>0, <1>10, <2>1, GotoTyped DEF JobTyped
<1>9. CASE Expire(j)
  <2>1. CASE stage[j] = "working"
    <3>1. Goto(j, "release") /\ held' = held /\ tries' = tries
      BY <1>9, <2>1 DEF Expire
    <3> QED  BY <1>0, <1>10, <3>1, GotoTyped DEF JobTyped
  <2>2. CASE stage[j] # "working"
    BY <1>0, <1>9, <2>2, EndTyped DEF Expire
  <2> QED  BY <2>1, <2>2
<1> QED  BY <1>1, <1>2, <1>3, <1>4, <1>5, <1>6, <1>7, <1>8, <1>9 DEF JobStep

\* What the operator begins is a command.
LEMMA CommandTyped ==
  ASSUME NEW s \in {"idle", "look", "looked", "review", "permit"}, NEW w \in Works,
         NEW r \in Request, NEW t \in 1..Tries, Operate(s, w, r, t)
  PROVE  op' \in Command
BY DEF Operate, Command

\* Every step of the operator keeps the types of commands and lost writes.
LEMMA OperatorTypedKept ==
  ASSUME PaidTypeOK, OperatorStep
  PROVE  op' \in Command /\ inflight' \subseteq Request
<1>0. /\ op \in Command /\ op.work \in Works /\ op.held \in Request /\ op.tries \in 1..Tries
      /\ inflight \subseteq Request /\ doc \in Ledger /\ now \in Time
      /\ Tries \in Nat /\ Tries > 0
  BY PaidTypes, PaidConstants DEF PaidTypeOK, Command
<1>1. CASE Pause
  BY <1>0, <1>1 DEF Pause
<1>2. CASE Review
  <2>1. [doc EXCEPT !.reviewed = now] \in Ledger /\ 1 \in 1..Tries
    BY <1>0, ReviewIs
  <2>2. [base |-> doc, want |-> [doc EXCEPT !.reviewed = now]] \in Request
    BY <1>0, <2>1, RequestTyped
  <2>3. op' \in Command
    BY <1>0, <1>2, <2>1, <2>2, CommandTyped DEF Review
  <2> QED  BY <1>0, <1>2, <2>3 DEF Review, ledgerVars
<1>3. ASSUME NEW w \in Works, Look(w)  PROVE op' \in Command /\ inflight' \subseteq Request
  <2>1. op' \in Command
    BY <1>0, <1>3, NoRequestTyped, CommandTyped DEF Look
  <2> QED  BY <1>0, <1>3, <2>1 DEF Look, ledgerVars
<1>4. CASE PermitRead
  <2>1. [base |-> doc, want |-> Permit(doc, op.work)] \in Request
    BY <1>0, PermitIs, RequestTyped
  <2>2. op' \in Command
    BY <1>0, <1>4, <2>1, CommandTyped DEF PermitRead
  <2> QED  BY <1>0, <1>4, <2>2 DEF PermitRead, ledgerVars
<1>5. CASE GiveUp
  BY <1>0, <1>5, NoCommandTyped DEF GiveUp, ledgerVars
<1>6. CASE OpWritten
  BY <1>0, <1>6, NoCommandTyped DEF OpWritten
<1>7. CASE OpRefused
  <2>1. inflight' = inflight
    BY <1>7 DEF OpRefused, ledgerVars
  <2>2. CASE op.stage = "permit" /\ MayRetry(op.tries)
    <3>1. Operate("look", op.work, NoRequest, op.tries + 1) /\ op.tries + 1 \in 1..Tries
      BY <1>0, <1>7, <2>2 DEF OpRefused, MayRetry
    <3> QED  BY <1>0, <2>1, <3>1, NoRequestTyped, CommandTyped
  <2>3. CASE ~(op.stage = "permit" /\ MayRetry(op.tries))
    BY <1>0, <1>7, <2>1, <2>3, NoCommandTyped DEF OpRefused
  <2> QED  BY <2>2, <2>3
<1>8. CASE OpUnknown
  BY <1>0, <1>8, NoCommandTyped DEF OpUnknown
<1> QED  BY <1>1, <1>2, <1>3, <1>4, <1>5, <1>6, <1>7, <1>8 DEF OperatorStep

\* Every step keeps the types.
LEMMA PaidTypedKept ==
  ASSUME PaidTypeOK, Accounted, Deciding, PaidNext
  PROVE  PaidTypeOK'
<1>1. doc' \in Ledger /\ started' \in [Jobs -> Time \cup {0}] /\ permitted' \in [Works -> Nat]
  BY PaidMoves, MoveTyped
<1>0. /\ JobTyped /\ now \in Time /\ inflight \subseteq Request /\ held \in [Jobs -> Request]
      /\ published \subseteq Works /\ op \in Command
  BY DEF PaidTypeOK, JobTyped, Stages
<1>2. ASSUME NEW j \in Jobs, JobStep(j)  PROVE PaidTypeOK'
  <2>1. JobTyped'
    BY <1>2, JobTypedKept
  <2>2. inflight' \in {inflight, inflight \cup {held[j]}} /\ now' = now /\ op' = op
    BY <1>2 DEF JobStep, Check, Leave, Acquire, Release, Written, Refused, Stop, Finish, Expire,
                CutOff, ledgerVars
  <2>3. published' \subseteq Works
    <3>1. Work[j] \in Works
      BY PaidConstants
    <3>2. published' \in {published, published \cup {Work[j]}}
      BY <1>2 DEF JobStep, Check, Leave, Acquire, Release, Written, Refused, Stop, Finish, Expire,
                  ledgerVars
    <3> QED  BY <1>0, <3>1, <3>2
  <2>4. inflight' \subseteq Request
    BY <1>0, <2>2
  <2> QED  BY <1>0, <1>1, <2>1, <2>2, <2>3, <2>4 DEF PaidTypeOK, JobTyped, Stages
<1>3. CASE OperatorStep
  <2>1. UNCHANGED <<now, stage, due, held, tries, published>>
    BY <1>3 DEF OperatorStep, Pause, Review, Look, PermitRead, GiveUp, OpWritten, OpRefused,
       OpUnknown
  <2>2. op' \in Command /\ inflight' \subseteq Request
    BY <1>3, OperatorTypedKept
  <2> QED  BY <1>0, <1>1, <2>1, <2>2 DEF PaidTypeOK, JobTyped, Stages
<1>4. CASE LateWrite
  <2>1. inflight' \subseteq inflight /\ UNCHANGED <<now, stage, due, held, tries, published, op>>
    BY <1>4 DEF LateWrite
  <2> QED  BY <1>0, <1>1, <2>1 DEF PaidTypeOK, JobTyped, Stages
<1>5. CASE Tick
  <2>1. now' \in Time
    BY <1>0, <1>5, PaidConstants DEF Tick, Time
  <2>2. UNCHANGED <<inflight, stage, due, held, tries, published, op>>
    BY <1>5 DEF Tick, ledgerVars
  <2> QED  BY <1>0, <1>1, <2>1, <2>2 DEF PaidTypeOK, JobTyped, Stages
<1> QED  BY <1>2, <1>3, <1>4, <1>5 DEF PaidNext

-----------------------------------------------------------------------------
(***************************************************************************)
(* The jobs: their alarms, and who goes on working.                        *)
(***************************************************************************)
\* The clock never goes back.
LEMMA ClockGoesOn ==
  ASSUME PaidTypeOK, PaidNext
  PROVE  now' \in Nat /\ now <= now'
<1>1. now \in Nat
  BY PaidTypes
<1>2. now' = now \/ now' = now + 1
  BY DEF PaidNext, JobStep, Check, Leave, Acquire, Release, Written, Refused, Stop, Finish, Expire,
         OperatorStep, Pause, Review, Look, PermitRead, GiveUp, OpWritten, OpRefused, OpUnknown,
         LateWrite, Tick
<1> QED  BY <1>1, <1>2

\* A step of a job writes the stage and the alarm of that job only, and sets the alarm
\* in Check only.
LEMMA OneJobSteps ==
  ASSUME PaidTypeOK, NEW j \in Jobs, JobStep(j)
  PROVE  /\ now' = now
         /\ \A k \in Jobs \ {j} : stage'[k] = stage[k] /\ due'[k] = due[k] /\ held'[k] = held[k]
         /\ stage'[j] \in Alarmed =>
              \/ Check(j) /\ stage'[j] = "acquire" /\ due'[j] = now + Allowance[Channel(j)]
              \/ stage[j] \in Alarmed /\ due'[j] = due[j]
         /\ stage'[j] = "working" => stage[j] = "put" /\ Written(j)
<1>1. /\ stage \in [Jobs -> {"new", "release", "unlock", "over"} \cup Alarmed]
      /\ due \in [Jobs -> Nat] /\ held \in [Jobs -> Request]
  BY PaidTypes
<1> USE DEF Goto, Hold, End, Alarmed
<1>2. CASE Check(j)
  BY <1>1, <1>2 DEF Check
<1>3. CASE Leave(j)
  BY <1>1, <1>3 DEF Leave
<1>4. CASE Acquire(j)
  BY <1>1, <1>4 DEF Acquire
<1>5. CASE Release(j)
  BY <1>1, <1>5 DEF Release
<1>6. CASE Written(j)
  BY <1>1, <1>6 DEF Written
<1>7. CASE Refused(j)
  BY <1>1, <1>7 DEF Refused
<1>8. CASE Stop(j)
  BY <1>1, <1>8 DEF Stop
<1>9. CASE Finish(j)
  BY <1>1, <1>9 DEF Finish
<1>10. CASE Expire(j)
  BY <1>1, <1>10 DEF Expire
<1> QED  BY <1>2, <1>3, <1>4, <1>5, <1>6, <1>7, <1>8, <1>9, <1>10 DEF JobStep

\* Only jobs write what belongs to the jobs.
LEMMA OthersStep ==
  ASSUME OperatorStep \/ LateWrite \/ Tick
  PROVE  UNCHANGED <<stage, due, held>>
BY DEF OperatorStep, Pause, Review, Look, PermitRead, GiveUp, OpWritten, OpRefused, OpUnknown,
       LateWrite, Tick

\* Every step keeps the alarms on time; the clock waits for them.
LEMMA OnTimeKept ==
  ASSUME PaidTypeOK, OnTime, PaidNext
  PROVE  OnTime'
<1>0. /\ now \in Nat /\ now' \in Nat /\ now <= now' /\ due \in [Jobs -> Nat] /\ Overrun \in Nat
      /\ \A k \in Jobs : Allowance[Channel(k)] \in Nat
  BY PaidTypes, ClockGoesOn, PaidConstants
<1>1. ASSUME NEW j \in Jobs, JobStep(j)  PROVE OnTime'
  <2> SUFFICES ASSUME NEW k \in Jobs, stage'[k] \in Alarmed
               PROVE  due'[k] <= now' + Allowance[Channel(k)] /\ now' <= due'[k] + Overrun
    BY DEF OnTime, Alarmed
  <2>1. now' = now /\ \/ stage[k] \in Alarmed /\ due'[k] = due[k]
                      \/ due'[k] = now + Allowance[Channel(k)]
    BY <1>1, OneJobSteps
  <2> QED  BY <1>0, <2>1 DEF OnTime
<1>2. CASE OperatorStep \/ LateWrite
  <2>1. stage' = stage /\ due' = due
    BY <1>2, OthersStep
  <2>2. now' = now
    BY <1>2 DEF OperatorStep, Pause, Review, Look, PermitRead, GiveUp, OpWritten, OpRefused,
       OpUnknown,
                LateWrite
  <2> QED  BY <2>1, <2>2 DEF OnTime, Alarmed
<1>3. CASE Tick
  <2>1. /\ stage' = stage /\ due' = due /\ now' = now + 1
        /\ \A k \in Jobs : stage[k] \in Alarmed => now < due[k] + Overrun
    BY <1>3 DEF Tick
  <2> SUFFICES ASSUME NEW k \in Jobs, stage[k] \in Alarmed
               PROVE  due[k] <= now' + Allowance[Channel(k)] /\ now' <= due[k] + Overrun
    BY <2>1 DEF OnTime, Alarmed
  <2>2. due[k] <= now + Allowance[Channel(k)] /\ now < due[k] + Overrun
    BY <2>1 DEF OnTime
  <2> QED  BY <1>0, <2>1, <2>2
<1> QED  BY <1>1, <1>2, <1>3 DEF PaidNext

\* A job that works after a step worked before it, or its admission has just been written.
LEMMA Workers ==
  ASSUME PaidTypeOK, Accounted, Deciding, PaidNext
  PROVE  \/ \A k \in Jobs : stage'[k] = "working" => stage[k] = "working" /\ due'[k] = due[k]
         \/ \E j \in Jobs :
              /\ \E t \in Time : Starts(j, t) /\ due'[j] <= t + Allowance[Channel(j)]
              /\ \A k \in Jobs \ {j} : stage'[k] = "working" =>
                   stage[k] = "working" /\ due'[k] = due[k]
<1>1. CASE OperatorStep \/ LateWrite \/ Tick
  BY <1>1, OthersStep
<1>2. ASSUME NEW j \in Jobs, JobStep(j), stage'[j] # "working"
      PROVE  \A k \in Jobs : stage'[k] = "working" => stage[k] = "working" /\ due'[k] = due[k]
  BY <1>2, OneJobSteps
<1>3. ASSUME NEW j \in Jobs, JobStep(j), stage'[j] = "working"
      PROVE  /\ \E t \in Time : Starts(j, t) /\ due'[j] <= t + Allowance[Channel(j)]
             /\ \A k \in Jobs \ {j} : stage'[k] = "working" => stage[k] = "working" /\ due'[k] = due[k]
  <2>1. stage[j] = "put" /\ Written(j)
    BY <1>3, OneJobSteps
  <2>2. due'[j] = due[j]
    BY <1>3, <2>1, OneJobSteps DEF Check, Alarmed
  <2>3. \A k \in Jobs \ {j} : stage'[k] = "working" => stage[k] = "working" /\ due'[k] = due[k]
    BY <1>3, OneJobSteps
  <2> QED  BY <2>1, <2>2, <2>3, PutMoves
<1> QED  BY <1>1, <1>2, <1>3 DEF PaidNext

-----------------------------------------------------------------------------
(***************************************************************************)
(* Every write was decided on the ledger it expects.                       *)
(***************************************************************************)
\* A job that is over stays over.
LEMMA OverForGood ==
  ASSUME PaidTypeOK, PaidNext, NEW k \in Jobs, stage[k] = "over"
  PROVE  stage'[k] = "over"
<1>1. ASSUME NEW j \in Jobs, JobStep(j)  PROVE stage'[k] = "over"
  <2>1. CASE j = k
    BY <1>1, <2>1 DEF JobStep, Check, Leave, Acquire, Release, Written, Refused, Stop, Finish,
       Expire, Alarmed
  <2>2. CASE j # k
    BY <1>1, <2>2, OneJobSteps
  <2> QED  BY <2>1, <2>2
<1>2. CASE OperatorStep \/ LateWrite \/ Tick
  BY <1>2, OthersStep
<1> QED  BY <1>1, <1>2 DEF PaidNext

\* What was decided at a time of the past stays so.
LEMMA DecidedStays ==
  ASSUME PaidTypeOK, PaidNext, NEW ledger, NEW new, Decided(ledger, new)
  PROVE  Decided(ledger, new)'
<1>1. \A t \in Time : t <= now => t <= now'
  <2>1. now \in Nat /\ now' \in Nat /\ now <= now' /\ \A t \in Time : t \in Nat
    BY PaidTypes, ClockGoesOn, DaysCounted
  <2> QED  BY <2>1
<1>2. \A j \in Jobs : stage[j] = "over" => stage'[j] = "over"
  BY OverForGood
<1>3. ASSUME NEW j \in Jobs, NEW t \in Time, t <= now, ChargeAt(ledger, new, j, t)
      PROVE  Decided(ledger, new)'
  BY <1>1, <1>3 DEF Decided
<1>4. ASSUME NEW j \in Jobs, stage[j] = "over", Releases(ledger, new, j)
      PROVE  Decided(ledger, new)'
  BY <1>2, <1>4 DEF Decided
<1>5. ASSUME NEW w \in Works, NEW t \in Time, t <= now, PermitAt(ledger, new, w, t)
      PROVE  Decided(ledger, new)'
  BY <1>1, <1>5 DEF Decided
<1>6. CASE Renews(ledger, new)
  BY <1>6 DEF Decided
<1> QED  BY <1>3, <1>4, <1>5, <1>6 DEF Decided

\* The parts of Deciding, one kind of writer each.
PutDecided(j) ==
  stage[j] = "put" =>
    \E t \in Time : /\ t <= now /\ due[j] <= t + Allowance[Channel(j)]
                    /\ ChargeAt(held[j].base, held[j].want, j, t)
UnlockDecided(j) == stage[j] = "unlock" => Releases(held[j].base, held[j].want, j)
OpDecided ==
  /\ op.stage = "review" => Renews(op.held.base, op.held.want)
  /\ op.stage = "permit" =>
       \E w \in Works, t \in Time : t <= now /\ PermitAt(op.held.base, op.held.want, w, t)

\* Deciding is the sum of its parts.
LEMMA DecidingParts ==
  Deciding <=> /\ \A j \in Jobs : PutDecided(j) /\ UnlockDecided(j)
               /\ OpDecided
               /\ \A r \in inflight : Decided(r.base, r.want)
BY DEF Deciding, PutDecided, UnlockDecided, OpDecided

\* A job that takes no step keeps its part.
LEMMA OthersDecided ==
  ASSUME PaidTypeOK, Deciding, PaidNext, NEW k \in Jobs,
         stage'[k] = stage[k], due'[k] = due[k], held'[k] = held[k]
  PROVE  PutDecided(k)' /\ UnlockDecided(k)'
<1>1. \A t \in Time : t <= now => t <= now'
  <2>1. now \in Nat /\ now' \in Nat /\ now <= now' /\ \A t \in Time : t \in Nat
    BY PaidTypes, ClockGoesOn, DaysCounted
  <2> QED  BY <2>1
<1>2. PutDecided(k) /\ UnlockDecided(k)
  BY DecidingParts
<1> QED  BY <1>1, <1>2 DEF PutDecided, UnlockDecided

\* A job that takes a step decides on the ledger as it is.
LEMMA JobDecided ==
  ASSUME PaidTypeOK, Deciding, OnTime, NEW j \in Jobs, JobStep(j)
  PROVE  PutDecided(j)' /\ UnlockDecided(j)'
<1>1. /\ stage \in [Jobs -> {"new", "release", "unlock", "over"} \cup Alarmed]
      /\ due \in [Jobs -> Nat] /\ held \in [Jobs -> Request] /\ now \in Time /\ now <= now
  BY PaidTypes
<1>2. now' = now
  BY OneJobSteps
<1>3. CASE Acquire(j) /\ Admissible(doc, j)
  <2>1. /\ held'[j] = [base |-> doc, want |-> Charged(doc, j)] /\ stage'[j] = "put" /\ due'[j] = due[j]
    BY <1>1, <1>3 DEF Acquire, Hold, Goto, Alarmed
  <2>2. ChargeAt(doc, Charged(doc, j), j, now)
    BY <1>3, AdmissibleCharges
  <2>3. due[j] <= now + Allowance[Channel(j)]
    BY <1>3 DEF Acquire, OnTime, Alarmed
  <2>4. held'[j].base = doc /\ held'[j].want = Charged(doc, j)
    BY <2>1
  <2> QED  BY <1>1, <1>2, <2>1, <2>2, <2>3, <2>4 DEF PutDecided, UnlockDecided
<1>4. CASE Release(j) /\ doc.channel[Channel(j)].active.token = j
  <2>1. held'[j] = [base |-> doc, want |-> Released(doc, Channel(j))] /\ stage'[j] = "unlock"
    BY <1>1, <1>4 DEF Release, Hold, Goto
  <2>2. held'[j].base = doc /\ held'[j].want = Released(doc, Channel(j))
    BY <2>1
  <2>3. Releases(doc, Released(doc, Channel(j)), j)
    BY <1>4 DEF Releases, Holder
  <2> QED  BY <2>1, <2>2, <2>3 DEF PutDecided, UnlockDecided
<1>5. CASE \/ Check(j) \/ Leave(j) \/ (Acquire(j) /\ ~Admissible(doc, j))
           \/ (Release(j) /\ doc.channel[Channel(j)].active.token # j)
           \/ Written(j) \/ Refused(j) \/ Stop(j) \/ Finish(j) \/ Expire(j)
  <2>1. stage'[j] \notin {"put", "unlock"}
    BY <1>1, <1>5 DEF Check, Leave, Acquire, Release, Written, Refused, Stop, Finish, Expire,
       Goto, End
  <2> QED  BY <2>1 DEF PutDecided, UnlockDecided
<1> QED  BY <1>3, <1>4, <1>5 DEF JobStep

\* A write that is lost was decided, by a job that is over or by the operator.
LEMMA FlightsDecided ==
  ASSUME PaidTypeOK, Deciding, PaidNext, NEW r \in inflight'
  PROVE  Decided(r.base, r.want)'
<1>0. stage \in [Jobs -> {"new", "release", "unlock", "over"} \cup Alarmed] /\ now \in Nat
  BY PaidTypes
<1>1. CASE r \in inflight
  BY <1>1, DecidedStays DEF Deciding
<1>2. ASSUME r \notin inflight, NEW j \in Jobs, JobStep(j)
      PROVE  Decided(r.base, r.want)'
  <2>1. stage[j] \in {"put", "unlock"} /\ r = held[j] /\ stage'[j] = "over" /\ now' = now
    BY <1>0, <1>2 DEF JobStep, Check, Leave, Acquire, Release, Written, Refused, Stop, Finish,
       Expire,
                      CutOff, ledgerVars, End, Goto
  <2>2. CASE stage[j] = "put"
    <3>1. PICK t \in Time : t <= now /\ ChargeAt(r.base, r.want, j, t)
      BY <2>1, <2>2 DEF Deciding
    <3>2. t <= now'
      BY <2>1, <3>1
    <3> QED  BY <3>1, <3>2 DEF Decided
  <2>3. CASE stage[j] = "unlock"
    <3>1. Releases(r.base, r.want, j)
      BY <2>1, <2>3 DEF Deciding
    <3> QED  BY <2>1, <3>1 DEF Decided
  <2> QED  BY <2>1, <2>2, <2>3
<1>3. ASSUME r \notin inflight, OperatorStep
      PROVE  Decided(r.base, r.want)'
  <2>1. op.stage \in {"review", "permit"} /\ r = op.held /\ now' = now
    BY <1>3 DEF OperatorStep, Pause, Review, Look, PermitRead, GiveUp, OpWritten, OpRefused,
       OpUnknown,
                ledgerVars
  <2>2. CASE op.stage = "review"
    <3>1. Renews(r.base, r.want)
      BY <2>1, <2>2 DEF Deciding
    <3> QED  BY <3>1 DEF Decided
  <2>3. CASE op.stage = "permit"
    <3>1. PICK w \in Works, t \in Time : t <= now /\ PermitAt(r.base, r.want, w, t)
      BY <2>1, <2>3 DEF Deciding
    <3>2. t <= now'
      BY <2>1, <3>1
    <3> QED  BY <3>1, <3>2 DEF Decided
  <2> QED  BY <2>1, <2>2, <2>3
<1>4. CASE LateWrite \/ Tick
  <2>1. inflight' \subseteq inflight
    BY <1>4 DEF LateWrite, Tick, ledgerVars
  <2> QED  BY <1>1, <2>1
<1> QED  BY <1>1, <1>2, <1>3, <1>4 DEF PaidNext

\* The operator decides on the ledger as it is.
LEMMA OpDecidedKept ==
  ASSUME PaidTypeOK, Deciding, PaidNext
  PROVE  OpDecided'
<1>0. /\ now \in Time /\ now <= now /\ doc \in Ledger /\ op.work \in Works
      /\ \A t \in Time : t <= now => t <= now'
  <2>1. now \in Nat /\ now' \in Nat /\ now <= now' /\ \A t \in Time : t \in Nat
    BY PaidTypes, ClockGoesOn, DaysCounted
  <2> QED  BY <2>1, PaidTypes DEF Command
<1>1. CASE op' = op
  <2>1. OpDecided
    BY DecidingParts
  <2> QED  BY <1>0, <1>1, <2>1 DEF OpDecided
<1>2. CASE Review
  <2>1. op'.stage = "review" /\ op'.held.base = doc /\ op'.held.want = [doc EXCEPT !.reviewed = now]
    BY <1>2 DEF Review, Operate
  <2>2. ~doc.paused
    <3>1. Valid([doc EXCEPT !.reviewed = now])
      BY <1>2 DEF Review
    <3> QED  BY <1>0, <3>1, ReviewIs DEF Valid
  <2>3. Renews(doc, [doc EXCEPT !.reviewed = now])
    BY <1>0, <2>2 DEF Renews
  <2> QED  BY <2>1, <2>3 DEF OpDecided
<1>3. CASE PermitRead
  <2>1. /\ op'.stage = "permit" /\ op'.held.base = doc /\ op'.held.want = Permit(doc, op.work)
        /\ now' = now
    BY <1>3 DEF PermitRead, Operate
  <2>2. PermitAt(doc, Permit(doc, op.work), op.work, now)
    BY <1>0, <1>3, PermissiblePermits DEF PermitRead
  <2> QED  BY <1>0, <2>1, <2>2 DEF OpDecided
<1>4. CASE op'.stage \notin {"review", "permit"}
  BY <1>4 DEF OpDecided
<1>5. CASE OperatorStep
  <2>1. CASE Pause
    BY <1>1, <2>1 DEF Pause
  <2>2. CASE (\E w \in Works : Look(w)) \/ GiveUp \/ OpWritten \/ OpRefused \/ OpUnknown
    <3>1. op'.stage \in {"idle", "look", "looked"}
      BY <2>2 DEF Look, GiveUp, OpWritten, OpRefused, OpUnknown, NoCommand, Operate
    <3> QED  BY <1>4, <3>1
  <2> QED  BY <1>2, <1>3, <1>5, <2>1, <2>2 DEF OperatorStep
<1>6. CASE (\E j \in Jobs : JobStep(j)) \/ LateWrite \/ Tick
  BY <1>1, <1>6 DEF JobStep, Check, Leave, Acquire, Release, Written, Refused, Stop, Finish, Expire,
                    LateWrite, Tick
<1> QED  BY <1>5, <1>6 DEF PaidNext

\* Every step keeps the decisions.
LEMMA DecidingKept ==
  ASSUME PaidTypeOK, Deciding, OnTime, PaidNext
  PROVE  Deciding'
<1>1. \A k \in Jobs : PutDecided(k)' /\ UnlockDecided(k)'
  <2>1. ASSUME NEW j \in Jobs, JobStep(j), NEW k \in Jobs  PROVE PutDecided(k)' /\ UnlockDecided(k)'
    BY <2>1, JobDecided, OneJobSteps, OthersDecided
  <2>2. ASSUME OperatorStep \/ LateWrite \/ Tick, NEW k \in Jobs  PROVE PutDecided(k)' /\ UnlockDecided(k)'
    BY <2>2, OthersStep, OthersDecided
  <2> QED  BY <2>1, <2>2 DEF PaidNext
<1>2. OpDecided' /\ \A r \in inflight' : Decided(r.base, r.want)'
  BY OpDecidedKept, FlightsDecided
<1> QED  BY <1>1, <1>2 DEF Deciding, PutDecided, UnlockDecided, OpDecided

-----------------------------------------------------------------------------
(***************************************************************************)
(* The accounts, the notes of the admissions and the limits.               *)
(***************************************************************************)
\* A start is later than the last one of its channel.
LEMMA StartsLater ==
  ASSUME PaidTypeOK, NEW j \in Jobs, NEW t \in Time, Starts(j, t)
  PROVE  /\ ChargeAt(doc, doc', j, t) /\ ChargedIs(doc, doc', j, t) /\ t \in Nat /\ t > 0 /\ t <= now /\ now \in Nat
         /\ Channel(j) \in Channels /\ Last(doc, Channel(j)) \in Nat
         /\ Last(doc, Channel(j)) < t
<1>1. /\ t \in Nat /\ t > 0 /\ now \in Nat /\ Channel(j) \in Channels /\ doc \in Ledger
      /\ Interval \in Nat /\ Interval > 0
  BY PaidTypes, PaidConstants, DaysCounted
<1>2. ChargeAt(doc, doc', j, t) /\ t <= now
  BY DEF Starts
<1>3. Last(doc, Channel(j)) \in Nat
  BY <1>1, AccountFields
<1>4. Last(doc, Channel(j)) # 0 => Last(doc, Channel(j)) + Interval <= t
  BY <1>2 DEF ChargeAt
<1>5. ChargedIs(doc, doc', j, t)
  BY <1>1, <1>2, ChargeIs
<1> QED  BY <1>1, <1>2, <1>3, <1>4, <1>5

\* What the moves other than a start leave of the accounts.
LEMMA MovesKeep ==
  ASSUME PaidTypeOK, Move
  PROVE  \/ \E j \in Jobs, t \in Time : Starts(j, t)
         \/ /\ started' = started
            /\ \A c \in Channels : Last(doc', c) = Last(doc, c) /\ Days(doc', c) = Days(doc, c)
            /\ doc'.starts = doc.starts /\ doc'.seconds = doc.seconds
            /\ \/ \A c \in Channels : SameAccount(doc, doc', c)
               \/ \E j \in Jobs : /\ Frees(j) /\ Holder(doc, Channel(j)) = j
                                  /\ Holder(doc', Channel(j)) = NoJob /\ Until(doc', Channel(j)) = 0
                                  /\ \A c \in Channels \ {Channel(j)} : SameAccount(doc, doc', c)
<1>0. doc \in Ledger /\ \A j \in Jobs : Channel(j) \in Channels
  BY PaidTypes, PaidConstants
<1>1. CASE Kept
  BY <1>1 DEF Kept, SameAccount
<1>2. ASSUME NEW j \in Jobs, Frees(j)
      PROVE  /\ started' = started /\ doc'.starts = doc.starts /\ doc'.seconds = doc.seconds
             /\ \A c \in Channels : Last(doc', c) = Last(doc, c) /\ Days(doc', c) = Days(doc, c)
             /\ Holder(doc, Channel(j)) = j
             /\ Holder(doc', Channel(j)) = NoJob /\ Until(doc', Channel(j)) = 0
             /\ \A c \in Channels \ {Channel(j)} : SameAccount(doc, doc', c)
  BY <1>0, <1>2, ReleaseIs DEF Frees, Releases, SameAccount
<1>3. CASE Renewed
  BY <1>0, <1>3, ReviewIs DEF Renewed, Renews, SameAccount
<1>4. CASE Toggled
  BY <1>0, <1>4, ToggleIs DEF Toggled, SameAccount
<1>5. ASSUME NEW w \in Works, Again(w)
      PROVE  /\ started' = started /\ doc'.starts = doc.starts /\ doc'.seconds = doc.seconds
             /\ \A c \in Channels : SameAccount(doc, doc', c)
  BY <1>0, <1>5, PermitIs DEF Again, PermitAt
<1> QED  BY <1>1, <1>2, <1>3, <1>4, <1>5 DEF Move, SameAccount

\* Every move keeps leases and days in step with the last starts.
LEMMA AccountedKept ==
  ASSUME PaidTypeOK, Accounted, Move
  PROVE  Accounted'
<1>0. /\ doc \in Ledger /\ NoJob \notin Jobs /\ started \in [Jobs -> Time \cup {0}]
      /\ \A c \in Channels : /\ Last(doc, c) \in Nat /\ Days(doc, c) \in [DayNo -> Nat]
                             /\ Holder(doc, c) \in Jobs \cup {NoJob}
                             /\ Allowance[c] \in Nat
  BY PaidTypes, PaidConstants, AccountFields DEF Token
<1>1. ASSUME NEW j \in Jobs, NEW t \in Time, Starts(j, t)
      PROVE  Accounted'
  <2> DEFINE b == Channel(j)
  <2>1. /\ ChargeAt(doc, doc', j, t) /\ ChargedIs(doc, doc', j, t) /\ t \in Nat /\ t > 0 /\ b \in Channels
        /\ Last(doc, b) < t
    BY <1>1, StartsLater
  <2>2. started' = [started EXCEPT ![j] = t]
    BY <1>1 DEF Starts
  <2>3. /\ Last(doc', b) = t /\ Holder(doc', b) = j /\ Until(doc', b) = t + Allowance[b] + Grace
        /\ Days(doc', b) = OneMore(Days(doc, b), DayOf(t))
        /\ \A c \in Channels \ {b} : SameAccount(doc, doc', c)
    BY <2>1 DEF ChargedIs
  <2>4. \A d \in DayNo : Days(doc', b)[d] # 0 => d <= DayOf(t)
    <3>1. SUFFICES ASSUME NEW d \in DayNo, Days(doc', b)[d] # 0, d # DayOf(t)  PROVE d <= DayOf(t)
      <4>1. DayOf(t) \in Nat
        BY <2>1, DaysInOrder
      <4> QED  BY <4>1
    <3>2. Days(doc, b)[d] # 0
      BY <1>0, <2>1, <2>3, <3>1, DaysCounted, OneMoreCounts
    <3>3. d <= DayOf(Last(doc, b))
      BY <2>1, <3>2 DEF Accounted
    <3>4. DayOf(Last(doc, b)) \in Nat /\ DayOf(t) \in Nat /\ DayOf(Last(doc, b)) <= DayOf(t)
      BY <1>0, <2>1, DaysInOrder
    <3>5. d \in Int
      BY DEF DayNo
    <3> QED  BY <3>3, <3>4, <3>5
  <2> SUFFICES ASSUME NEW c \in Channels
               PROVE  /\ Holder(doc', c) = NoJob => Until(doc', c) = 0
                      /\ Holder(doc', c) # NoJob =>
                           /\ Channel(Holder(doc', c)) = c
                           /\ started'[Holder(doc', c)] = Last(doc', c)
                           /\ Last(doc', c) # 0
                           /\ Until(doc', c) = Last(doc', c) + Allowance[c] + Grace
                      /\ \A d \in DayNo : Days(doc', c)[d] # 0 =>
                           Last(doc', c) # 0 /\ d <= DayOf(Last(doc', c))
    BY DEF Accounted, Last, Days, Holder, Until, Channel
  <2>5. CASE c = b
    BY <1>0, <2>1, <2>2, <2>3, <2>4, <2>5
  <2>6. CASE c # b
    <3>1. /\ Last(doc', c) = Last(doc, c) /\ Days(doc', c) = Days(doc, c)
          /\ Holder(doc', c) = Holder(doc, c) /\ Until(doc', c) = Until(doc, c)
      BY <2>3, <2>6 DEF SameAccount
    <3>2. Holder(doc, c) # NoJob => Channel(Holder(doc, c)) = c /\ Holder(doc, c) # j
      BY <2>6 DEF Accounted
    <3>3. Holder(doc, c) # NoJob => started'[Holder(doc, c)] = started[Holder(doc, c)]
      BY <1>0, <2>2, <3>2
    <3> QED  BY <3>1, <3>2, <3>3 DEF Accounted
  <2> QED  BY <2>5, <2>6
<1>2. ASSUME started' = started, NEW c \in Channels, SameAccount(doc, doc', c)
      PROVE  /\ Holder(doc', c) = NoJob => Until(doc', c) = 0
             /\ Holder(doc', c) # NoJob =>
                  /\ Channel(Holder(doc', c)) = c
                  /\ started'[Holder(doc', c)] = Last(doc', c)
                  /\ Last(doc', c) # 0
                  /\ Until(doc', c) = Last(doc', c) + Allowance[c] + Grace
             /\ \A d \in DayNo : Days(doc', c)[d] # 0 => Last(doc', c) # 0 /\ d <= DayOf(Last(doc', c))
  BY <1>2 DEF SameAccount, Accounted
<1>3. CASE /\ started' = started
           /\ \A c \in Channels : SameAccount(doc, doc', c)
  <2>1. \A c \in Channels :
          /\ Holder(doc', c) = NoJob => Until(doc', c) = 0
          /\ Holder(doc', c) # NoJob =>
               /\ Channel(Holder(doc', c)) = c
               /\ started'[Holder(doc', c)] = Last(doc', c)
               /\ Last(doc', c) # 0
               /\ Until(doc', c) = Last(doc', c) + Allowance[c] + Grace
          /\ \A d \in DayNo : Days(doc', c)[d] # 0 => Last(doc', c) # 0 /\ d <= DayOf(Last(doc', c))
    BY <1>2, <1>3
  <2> QED  BY <2>1 DEF Accounted, Last, Days, Holder, Until, Channel
<1>4. ASSUME NEW j \in Jobs, started' = started,
             Last(doc', Channel(j)) = Last(doc, Channel(j)), Days(doc', Channel(j)) = Days(doc, Channel(j)),
             Holder(doc', Channel(j)) = NoJob, Until(doc', Channel(j)) = 0,
             \A c \in Channels \ {Channel(j)} : SameAccount(doc, doc', c)
      PROVE  Accounted'
  <2>1. \A c \in Channels :
          /\ Holder(doc', c) = NoJob => Until(doc', c) = 0
          /\ Holder(doc', c) # NoJob =>
               /\ Channel(Holder(doc', c)) = c
               /\ started'[Holder(doc', c)] = Last(doc', c)
               /\ Last(doc', c) # 0
               /\ Until(doc', c) = Last(doc', c) + Allowance[c] + Grace
          /\ \A d \in DayNo : Days(doc', c)[d] # 0 => Last(doc', c) # 0 /\ d <= DayOf(Last(doc', c))
    <3> TAKE c \in Channels
    <3>1. CASE c = Channel(j)
      <4>1. \A d \in DayNo : Days(doc, c)[d] # 0 => Last(doc, c) # 0 /\ d <= DayOf(Last(doc, c))
        BY DEF Accounted
      <4> QED  BY <1>4, <3>1, <4>1
    <3>2. CASE c # Channel(j)
      BY <1>2, <1>4, <3>2
    <3> QED  BY <3>1, <3>2
  <2> QED  BY <2>1 DEF Accounted, Last, Days, Holder, Until, Channel
<1> QED
  <2>1. \A j \in Jobs : Channel(j) \in Channels
    BY PaidConstants
  <2> QED  BY <1>1, <1>3, <1>4, <2>1, MovesKeep

\* Every move keeps the room that a catch-up left.
LEMMA LastStartsKept ==
  ASSUME PaidTypeOK, Accounted, LastStarts, Move
  PROVE  LastStarts'
<1>0. /\ doc \in Ledger /\ started \in [Jobs -> Time \cup {0}] /\ \A k \in Jobs : started[k] \in Nat
      /\ \A k \in Jobs : Channel(k) \in Channels
      /\ \A c \in Channels : Last(doc, c) \in Nat /\ Days(doc, c) \in [DayNo -> Nat]
      /\ \A c \in Channels : Slot[c] \in Nat /\ Allowance[c] \in Nat
      /\ Interval \in Nat /\ Grace \in Nat
  BY PaidTypes, PaidConstants, AccountFields
<1>1. ASSUME NEW j \in Jobs, NEW t \in Time, Starts(j, t)
      PROVE  LastStarts'
  <2> DEFINE b == Channel(j)
  <2>1. /\ ChargeAt(doc, doc', j, t) /\ ChargedIs(doc, doc', j, t) /\ t \in Nat /\ t > 0 /\ b \in Channels
        /\ Last(doc, b) < t /\ DayOf(t) \in DayNo
    BY <1>1, StartsLater, DaysCounted
  <2>2. started' = [started EXCEPT ![j] = t]
    BY <1>1 DEF Starts
  <2>3. /\ Last(doc', b) = t
        /\ Days(doc', b) = OneMore(Days(doc, b), DayOf(t))
        /\ \A c \in Channels \ {b} : Last(doc', c) = Last(doc, c) /\ Days(doc', c) = Days(doc, c)
    BY <2>1 DEF ChargedIs, SameAccount
  <2> SUFFICES ASSUME NEW k \in Jobs, started'[k] # 0
               PROVE  /\ started'[k] <= Last(doc', Channel(k))
                      /\ k \in CatchUps /\ Last(doc', Channel(k)) = started'[k] =>
                           /\ started'[k] + Interval <= Slot[Channel(k)]
                           /\ started'[k] + Allowance[Channel(k)] + Grace <= Slot[Channel(k)]
                           /\ DayOf(Slot[Channel(k)]) = DayOf(started'[k]) =>
                                Days(doc', Channel(k))[DayOf(started'[k])] < Daily
    BY DEF LastStarts, Last, Days, Channel, DayOf
  <2>4. CASE k = j
    <3>1. started'[k] = t
      BY <1>0, <2>2, <2>4
    <3>2. Days(doc', b)[DayOf(t)] = Days(doc, b)[DayOf(t)] + 1
      BY <1>0, <2>1, <2>3, OneMoreCounts
    <3>3. k \in CatchUps =>
            /\ t + Interval <= Slot[b] /\ t + Allowance[b] + Grace <= Slot[b]
            /\ DayOf(Slot[b]) = DayOf(t) => Days(doc, b)[DayOf(t)] + 1 < Daily
      BY <2>1, <2>4 DEF ChargeAt
    <3>4. started'[k] <= Last(doc', b)
      BY <2>1, <2>3, <3>1
    <3> QED  BY <2>4, <3>1, <3>2, <3>3, <3>4
  <2>5. CASE k # j /\ Channel(k) = b
    <3>1. started'[k] = started[k] /\ started[k] <= Last(doc, b)
      BY <1>0, <2>2, <2>5 DEF LastStarts
    <3> QED  BY <1>0, <2>1, <2>3, <2>5, <3>1
  <2>6. CASE k # j /\ Channel(k) # b
    <3>1. /\ started'[k] = started[k] /\ Last(doc', Channel(k)) = Last(doc, Channel(k))
          /\ Days(doc', Channel(k)) = Days(doc, Channel(k))
      BY <1>0, <2>2, <2>3, <2>6
    <3> QED  BY <3>1 DEF LastStarts
  <2> QED  BY <2>4, <2>5, <2>6
<1>2. CASE /\ started' = started
           /\ \A c \in Channels : Last(doc', c) = Last(doc, c) /\ Days(doc', c) = Days(doc, c)
  <2> SUFFICES ASSUME NEW k \in Jobs, started'[k] # 0
               PROVE  /\ started'[k] <= Last(doc', Channel(k))
                      /\ k \in CatchUps /\ Last(doc', Channel(k)) = started'[k] =>
                           /\ started'[k] + Interval <= Slot[Channel(k)]
                           /\ started'[k] + Allowance[Channel(k)] + Grace <= Slot[Channel(k)]
                           /\ DayOf(Slot[Channel(k)]) = DayOf(started'[k]) =>
                                Days(doc', Channel(k))[DayOf(started'[k])] < Daily
    BY DEF LastStarts, Last, Days, Channel, DayOf
  <2>1. /\ started'[k] = started[k] /\ Last(doc', Channel(k)) = Last(doc, Channel(k))
        /\ Days(doc', Channel(k)) = Days(doc, Channel(k))
    BY <1>0, <1>2
  <2> QED  BY <2>1 DEF LastStarts
<1> QED  BY <1>1, <1>2, MovesKeep

\* Every move stays within the limits.
LEMMA LimitsKept ==
  ASSUME PaidTypeOK, WithinLimits, Move
  PROVE  WithinLimits'
<1>0. /\ doc \in Ledger /\ doc.starts \in Nat /\ MaxStarts \in Nat
      /\ \A k \in Jobs : Channel(k) \in Channels
      /\ \A c \in Channels : Days(doc, c) \in [DayNo -> Nat]
      /\ Daily \in Nat
  BY PaidTypes, PaidConstants, AccountFields DEF Ledger
<1>1. doc.starts <= MaxStarts /\ doc.seconds <= MaxSeconds
      /\ \A c \in Channels, d \in DayNo : Days(doc, c)[d] <= Daily
  BY DEF WithinLimits, Days
<1>2. SUFFICES /\ doc'.starts <= MaxStarts /\ doc'.seconds <= MaxSeconds
               /\ \A c \in Channels, d \in DayNo : Days(doc', c)[d] <= Daily
  BY DEF WithinLimits, Days
<1>3. ASSUME NEW j \in Jobs, NEW t \in Time, Starts(j, t)
      PROVE  /\ doc'.starts <= MaxStarts /\ doc'.seconds <= MaxSeconds
             /\ \A c \in Channels, d \in DayNo : Days(doc', c)[d] <= Daily
  <2> DEFINE b == Channel(j)
  <2>1. /\ ChargeAt(doc, doc', j, t) /\ ChargedIs(doc, doc', j, t)
        /\ b \in Channels /\ DayOf(t) \in DayNo
    BY <1>3, StartsLater, DaysCounted
  <2>2. /\ doc'.starts = doc.starts + 1 /\ doc'.seconds = doc.seconds + Allowance[b]
        /\ Days(doc', b) = OneMore(Days(doc, b), DayOf(t))
        /\ \A c \in Channels \ {b} : Days(doc', c) = Days(doc, c)
    <3>1. doc'.starts = doc.starts + 1 /\ doc'.seconds = doc.seconds + Allowance[b]
      BY <2>1 DEF ChargedIs
    <3> QED  BY <2>1, <3>1 DEF ChargedIs, SameAccount
  <2>3. /\ doc.starts < MaxStarts /\ doc.seconds + Allowance[b] <= MaxSeconds
        /\ Days(doc, b)[DayOf(t)] < Daily
    BY <2>1 DEF ChargeAt
  <2>4. \A d \in DayNo : Days(doc', b)[d] <= Daily
    BY <1>0, <1>1, <2>1, <2>2, <2>3, OneMoreCounts
  <2> QED  BY <1>0, <1>1, <2>2, <2>3, <2>4
<1>4. CASE /\ doc'.starts = doc.starts /\ doc'.seconds = doc.seconds
           /\ \A c \in Channels : Days(doc', c) = Days(doc, c)
  BY <1>1, <1>4
<1> QED  BY <1>3, <1>4, MovesKeep

\* What an admission adds to the jobs that started on a work.
LEMMA CountedKept ==
  ASSUME PaidTypeOK, Counted, Move
  PROVE  Counted'
<1>0. /\ doc \in Ledger /\ doc.seen \in [Works -> Token] /\ started \in [Jobs -> Time \cup {0}]
      /\ permitted \in [Works -> Nat] /\ IsFiniteSet(Jobs) /\ NoJob \notin Jobs
      /\ Work \in [Jobs -> Works]
  BY PaidTypes, PaidConstants DEF Ledger
<1>1. \A w \in Works : IsFiniteSet(Starters(w)) /\ Cardinality(Starters(w)) \in Nat
  <2> TAKE w \in Works
  <2>1. Starters(w) \subseteq Jobs
    BY DEF Starters, Admitted
  <2> QED  BY <1>0, <2>1, FS_Subset, FS_CardinalityType
<1>2. ASSUME NEW j \in Jobs, NEW t \in Time, Starts(j, t)
      PROVE  Counted'
  <2>1. /\ doc.seen[Work[j]] = NoJob /\ doc'.seen = [doc.seen EXCEPT ![Work[j]] = j]
        /\ started' = [started EXCEPT ![j] = t] /\ t # 0 /\ permitted' = permitted
    <3>1. ChargeAt(doc, doc', j, t) /\ ChargedIs(doc, doc', j, t) /\ t # 0
      BY <1>2, StartsLater
    <3>2. doc.seen[Work[j]] = NoJob
      BY <3>1 DEF ChargeAt
    <3>3. doc'.seen = [doc.seen EXCEPT ![Work[j]] = j]
      BY <3>1 DEF ChargedIs
    <3> QED  BY <1>2, <3>1, <3>2, <3>3 DEF Starts
  <2> SUFFICES ASSUME NEW w \in Works
               PROVE  /\ doc'.seen[w] = NoJob => Cardinality(Starters(w)') <= permitted'[w]
                      /\ doc'.seen[w] # NoJob => Cardinality(Starters(w)') <= 1 + permitted'[w]
    BY DEF Counted
  <2>2. CASE w = Work[j]
    <3>1. Starters(w)' = Starters(w) \cup {j}
      BY <1>0, <2>1, <2>2 DEF Starters, Admitted
    <3>2. Cardinality(Starters(w) \cup {j}) <= Cardinality(Starters(w)) + 1
      BY <1>1, FS_AddElement
    <3>3. doc'.seen[w] # NoJob
      BY <1>0, <2>1, <2>2
    <3>4. Cardinality(Starters(w)) <= permitted[w]
      BY <2>1, <2>2 DEF Counted
    <3>5. Cardinality(Starters(w) \cup {j}) \in Nat
      BY <1>1, FS_AddElement, FS_CardinalityType
    <3> QED  BY <1>0, <1>1, <2>1, <3>1, <3>2, <3>3, <3>4, <3>5
  <2>3. CASE w # Work[j]
    <3>1. Starters(w)' = Starters(w)
      BY <1>0, <2>1, <2>3 DEF Starters, Admitted
    <3>2. doc'.seen[w] = doc.seen[w]
      BY <1>0, <2>1, <2>3
    <3> QED  BY <2>1, <3>1, <3>2 DEF Counted
  <2> QED  BY <2>2, <2>3
<1>3. ASSUME NEW w \in Works, Again(w)
      PROVE  Counted'
  <2>1. /\ doc.seen[w] # NoJob /\ doc' = Permit(doc, w)
        /\ started' = started /\ permitted' = [permitted EXCEPT ![w] = @ + 1]
    BY <1>3 DEF Again, PermitAt
  <2>2. doc'.seen = [doc.seen EXCEPT ![w] = NoJob]
    BY <1>0, <2>1, PermitIs
  <2> SUFFICES ASSUME NEW v \in Works
               PROVE  /\ doc'.seen[v] = NoJob => Cardinality(Starters(v)') <= permitted'[v]
                      /\ doc'.seen[v] # NoJob => Cardinality(Starters(v)') <= 1 + permitted'[v]
    BY DEF Counted
  <2>3. Starters(v)' = Starters(v)
    BY <2>1 DEF Starters, Admitted
  <2>4. CASE v = w
    <3>1. doc'.seen[v] = NoJob /\ permitted'[v] = permitted[w] + 1
      BY <1>0, <2>1, <2>2, <2>4
    <3>2. Cardinality(Starters(v)) <= 1 + permitted[w]
      BY <2>1, <2>4 DEF Counted
    <3> QED  BY <1>0, <1>1, <2>3, <3>1, <3>2
  <2>5. CASE v # w
    <3>1. doc'.seen[v] = doc.seen[v] /\ permitted'[v] = permitted[v]
      BY <1>0, <2>1, <2>2, <2>5
    <3> QED  BY <2>3, <3>1 DEF Counted
  <2> QED  BY <2>4, <2>5
<1>4. ASSUME doc'.seen = doc.seen, started' = started, permitted' = permitted
      PROVE  Counted'
  BY <1>4 DEF Counted, Starters, Admitted
<1>5. CASE Kept
  BY <1>4, <1>5 DEF Kept
<1>6. ASSUME NEW j \in Jobs, Frees(j)  PROVE Counted'
  <2>1. doc'.seen = doc.seen
    BY <1>0, <1>6, ReleaseIs, PaidConstants DEF Frees, Releases
  <2> QED  BY <1>4, <1>6, <2>1 DEF Frees
<1>7. CASE Renewed
  <2>1. doc'.seen = doc.seen
    BY <1>0, <1>7, ReviewIs DEF Renewed, Renews
  <2> QED  BY <1>4, <1>7, <2>1 DEF Renewed
<1>8. CASE Toggled
  <2>1. doc'.seen = doc.seen
    BY <1>0, <1>8, ToggleIs DEF Toggled
  <2> QED  BY <1>4, <1>8, <2>1 DEF Toggled
<1> QED  BY <1>2, <1>3, <1>5, <1>6, <1>7, <1>8 DEF Move

-----------------------------------------------------------------------------
(***************************************************************************)
(* Leases.  A working job is within Overrun of its alarm, its lease ends   *)
(* Grace after that alarm at the earliest, and so the lease is not over:   *)
(* nothing that asks for a free channel can have been decided.             *)
(***************************************************************************)
\* The lease of a working job is not over.
LEMMA WorkingIsLeased ==
  ASSUME PaidTypeOK, OnTime, HasLease, NEW k \in Jobs, stage[k] = "working"
  PROVE  /\ Holder(doc, Channel(k)) = k
         /\ now < Until(doc, Channel(k))
<1>1. Holder(doc, Channel(k)) = k /\ due[k] + Grace <= Until(doc, Channel(k))
  BY DEF HasLease
<1>2. now <= due[k] + Overrun
  BY DEF OnTime, Alarmed
<1>3. /\ now \in Nat /\ due[k] \in Nat /\ Overrun \in Nat /\ Grace \in Nat /\ Overrun < Grace
      /\ Until(doc, Channel(k)) \in Nat
  BY PaidTypes, PaidConstants, AccountFields
<1> QED  BY <1>1, <1>2, <1>3

\* While a job works, its channel is not free at any time up to now.
LEMMA NotFreeWhileWorking ==
  ASSUME PaidTypeOK, OnTime, HasLease, NEW k \in Jobs, stage[k] = "working",
         NEW c \in Channels, NEW t \in Time, t <= now, FreeAt(doc, c, t)
  PROVE  c # Channel(k) /\ ~doc.single
<1>1. now \in Nat /\ t \in Nat /\ Until(doc, Channel(k)) \in Nat /\ Channel(k) \in Channels
  BY PaidTypes, PaidConstants, AccountFields, DaysCounted
<1>2. now < Until(doc, Channel(k))
  BY WorkingIsLeased
<1>3. ~(Until(doc, Channel(k)) <= t)
  BY <1>1, <1>2
<1> QED  BY <1>1, <1>3 DEF FreeAt

\* No move changes single_active.
LEMMA SingleKept ==
  ASSUME PaidTypeOK, Move
  PROVE  doc'.single = doc.single
<1>0. doc \in Ledger
  BY PaidTypes
<1>1. ASSUME NEW j \in Jobs, NEW t \in Time, Starts(j, t)  PROVE doc'.single = doc.single
  BY <1>1, StartsLater DEF ChargedIs
<1>2. ASSUME NEW j \in Jobs, Frees(j)  PROVE doc'.single = doc.single
  BY <1>0, <1>2, ReleaseIs, PaidConstants DEF Frees, Releases
<1>3. CASE Renewed
  BY <1>0, <1>3, ReviewIs DEF Renewed, Renews
<1>4. CASE Toggled
  BY <1>0, <1>4, ToggleIs DEF Toggled
<1>5. ASSUME NEW w \in Works, Again(w)  PROVE doc'.single = doc.single
  BY <1>0, <1>5, PermitIs DEF Again, PermitAt
<1> QED  BY <1>1, <1>2, <1>3, <1>4, <1>5 DEF Move, Kept

\* No move takes the lease of a working job.
LEMMA LeaseStays ==
  ASSUME PaidTypeOK, OnTime, HasLease, Move, NEW k \in Jobs, stage[k] = "working"
  PROVE  /\ Holder(doc', Channel(k)) = k
         /\ Until(doc', Channel(k)) = Until(doc, Channel(k))
<1>0. Channel(k) \in Channels /\ Holder(doc, Channel(k)) = k
  BY PaidConstants, WorkingIsLeased
<1>1. ASSUME NEW j \in Jobs, NEW t \in Time, Starts(j, t)
      PROVE  /\ Holder(doc', Channel(k)) = k /\ Until(doc', Channel(k)) = Until(doc, Channel(k))
  <2>1. t <= now /\ Channel(j) \in Channels /\ ChargedIs(doc, doc', j, t) /\ FreeAt(doc, Channel(j), t)
    BY <1>1, StartsLater DEF ChargeAt
  <2>2. Channel(j) # Channel(k)
    BY <2>1, NotFreeWhileWorking
  <2> QED  BY <1>0, <2>1, <2>2 DEF ChargedIs, SameAccount
<1>2. ASSUME NEW j \in Jobs, Frees(j), Holder(doc, Channel(j)) = j,
             \A c \in Channels \ {Channel(j)} : SameAccount(doc, doc', c)
      PROVE  /\ Holder(doc', Channel(k)) = k /\ Until(doc', Channel(k)) = Until(doc, Channel(k))
  <2>1. j # k
    BY <1>2 DEF Frees
  <2>2. Channel(j) # Channel(k)
    BY <1>0, <1>2, <2>1
  <2> QED  BY <1>0, <1>2, <2>2 DEF SameAccount
<1>3. CASE \A c \in Channels : SameAccount(doc, doc', c)
  BY <1>0, <1>3 DEF SameAccount
<1> QED  BY <1>1, <1>2, <1>3, MovesKeep

\* Every step keeps the leases of the working jobs.
LEMMA LeasesKept ==
  ASSUME PaidTypeOK, Accounted, Deciding, OnTime, HasLease, PaidNext
  PROVE  HasLease'
<1>0. Move
  BY PaidMoves
<1>1. ASSUME NEW k \in Jobs, stage[k] = "working", due'[k] = due[k]
      PROVE  /\ Holder(doc', Channel(k)) = k
             /\ due'[k] + Grace <= Until(doc', Channel(k))
  BY <1>0, <1>1, LeaseStays DEF HasLease
<1>2. ASSUME NEW j \in Jobs, NEW t \in Time, Starts(j, t), due'[j] <= t + Allowance[Channel(j)]
      PROVE  /\ Holder(doc', Channel(j)) = j
             /\ due'[j] + Grace <= Until(doc', Channel(j))
  <2>1. /\ Holder(doc', Channel(j)) = j
        /\ Until(doc', Channel(j)) = t + Allowance[Channel(j)] + Grace
        /\ t \in Nat /\ Allowance[Channel(j)] \in Nat /\ Grace \in Nat /\ due'[j] \in Nat
    <3>1. PaidTypeOK'
      BY PaidTypedKept
    <3>2. due' \in [Jobs -> Nat]
      BY <3>1 DEF PaidTypeOK
    <3> QED  BY <1>2, <3>2, StartsLater, PaidConstants DEF ChargedIs
  <2> QED  BY <1>2, <2>1
<1>3. \A k \in Jobs : stage'[k] = "working" =>
        /\ Holder(doc', Channel(k)) = k
        /\ due'[k] + Grace <= Until(doc', Channel(k))
  BY <1>1, <1>2, Workers
<1> QED  BY <1>3 DEF HasLease, Holder, Until, Channel

\* Every step keeps a job alone under single_active.
LEMMA AloneKept ==
  ASSUME PaidTypeOK, Accounted, Deciding, OnTime, HasLease, Alone, PaidNext
  PROVE  Alone'
<1>0. Move /\ doc'.single = doc.single
  BY PaidMoves, SingleKept
<1>1. ASSUME NEW j \in Jobs, NEW t \in Time, Starts(j, t), NEW k \in Jobs, stage[k] = "working"
      PROVE  ~doc.single
  <2>1. t <= now /\ Channel(j) \in Channels /\ FreeAt(doc, Channel(j), t)
    BY <1>1, StartsLater DEF ChargeAt
  <2> QED  BY <1>1, <2>1, NotFreeWhileWorking
<1>2. ASSUME NEW j \in Jobs, NEW k \in Jobs, j # k, stage'[j] = "working", stage'[k] = "working"
      PROVE  ~doc.single
  <2>1. CASE stage[j] = "working" /\ stage[k] = "working"
    BY <1>2, <2>1 DEF Alone
  <2>2. CASE ~(stage[j] = "working" /\ stage[k] = "working")
    BY <1>1, <1>2, <2>2, Workers
  <2> QED  BY <2>1, <2>2
<1> QED  BY <1>0, <1>2 DEF Alone

-----------------------------------------------------------------------------
(***************************************************************************)
(* The theorems.                                                           *)
(***************************************************************************)
\* The invariant holds at first, ...
LEMMA PaidInitInv ==
  ASSUME PaidInit
  PROVE  PaidInv
<1>0. /\ 1 \in Time /\ 1 \in 1..Tries /\ Overrun \in Nat /\ NoJob \in Token /\ NoJob \notin Jobs
      /\ MaxStarts \in Nat /\ MaxSeconds \in Nat /\ Daily \in Nat
  BY PaidConstants DEF Time, Token
<1> DEFINE account == [last |-> 0, days |-> [d \in DayNo |-> 0], active |-> NoLease]
<1>1. account \in Account /\ account.active.token = NoJob /\ account.active.until = 0
      /\ account.last = 0 /\ account.days = [d \in DayNo |-> 0]
  BY <1>0 DEF Account, Lease, NoLease
<1>2. PICK single \in BOOLEAN : doc = Provision(single)
  BY DEF PaidInit
<1>3. /\ doc.channel = [c \in Channels |-> account] /\ doc.seen = [w \in Works |-> NoJob]
      /\ doc.starts = 0 /\ doc.seconds = 0
      /\ doc = [paused |-> FALSE, single |-> single, reviewed |-> 1, starts |-> 0, seconds |-> 0,
                seen |-> [w \in Works |-> NoJob], channel |-> [c \in Channels |-> account]]
  BY <1>2 DEF Provision
<1>4. doc \in Ledger
  <2>1. [w \in Works |-> NoJob] \in [Works -> Token]
    BY <1>0
  <2>2. [c \in Channels |-> account] \in [Channels -> Account]
    BY <1>1
  <2> HIDE DEF account
  <2> QED  BY <1>0, <1>3, <2>1, <2>2 DEF Ledger
<1>5. \A c \in Channels : /\ Last(doc, c) = 0 /\ Days(doc, c) = [d \in DayNo |-> 0]
                          /\ Holder(doc, c) = NoJob /\ Until(doc, c) = 0
  BY <1>1, <1>3 DEF Last, Days, Holder, Until
<1>6. PaidTypeOK
  BY <1>0, <1>4, NoRequestTyped, NoCommandTyped DEF PaidInit, PaidTypeOK
<1>7. Deciding
  BY DEF PaidInit, Deciding, NoCommand
<1>8. OnTime
  BY DEF PaidInit, OnTime, Alarmed
<1>9. Accounted
  BY <1>5 DEF Accounted
<1>10. LastStarts
  BY DEF PaidInit, LastStarts
<1>11. Counted
  <2>1. \A w \in Works : Starters(w) = {} /\ permitted[w] = 0 /\ doc.seen[w] = NoJob
    BY <1>3 DEF PaidInit, Starters, Admitted
  <2>2. Cardinality({}) = 0
    BY FS_EmptySet
  <2> QED  BY <2>1, <2>2 DEF Counted
<1>12. HasLease /\ Alone
  BY DEF PaidInit, HasLease, Alone
<1>13. WithinLimits
  <2>1. \A c \in Channels, d \in DayNo : doc.channel[c].days[d] = 0
    BY <1>5 DEF Days
  <2> QED  BY <1>0, <1>3, <2>1 DEF WithinLimits
<1> QED  BY <1>6, <1>7, <1>8, <1>9, <1>10, <1>11, <1>12, <1>13 DEF PaidInv

\* The invariant is kept by every step, ...
LEMMA PaidInvKept ==
  ASSUME PaidInv, PaidNext
  PROVE  PaidInv'
<1> USE DEF PaidInv
<1>1. Move
  BY PaidMoves
<1>2. PaidTypeOK' /\ Deciding' /\ OnTime'
  BY PaidTypedKept, DecidingKept, OnTimeKept
<1>3. Accounted' /\ LastStarts' /\ Counted' /\ WithinLimits'
  BY <1>1, AccountedKept, LastStartsKept, CountedKept, LimitsKept
<1>4. HasLease' /\ Alone'
  BY LeasesKept, AloneKept
<1> QED  BY <1>2, <1>3, <1>4

\* ... and when nothing changes.
LEMMA PaidInvStutters ==
  ASSUME PaidInv, UNCHANGED paidVars
  PROVE  PaidInv'
<1>1. UNCHANGED <<now, doc, inflight, started, permitted, stage, due, held, tries, published, op>>
  BY DEF paidVars, ledgerVars
<1> QED
  BY <1>1 DEF PaidInv, PaidTypeOK, Deciding, Decided, OnTime, Accounted, LastStarts, Counted,
     Starters,
              Admitted, HasLease, Alone, WithinLimits

\* The state of jobs, ledger, lost writes and operator keeps the invariant in every behaviour.
THEOREM PaidInvariant == PaidSpec => []PaidInv
<1>1. PaidInv /\ [PaidNext]_paidVars => PaidInv'
  BY PaidInvKept, PaidInvStutters
<1> QED  BY <1>1, PaidInitInv, PTL DEF PaidSpec

\* The ledger and its commands keep their types.
THEOREM PaidTyped == PaidSpec => []PaidTypeOK
BY PaidInvariant, PTL DEF PaidInv

\* No retry, late write or recovery takes starts, seconds or days of Guard beyond a limit.
THEOREM LimitsHold == PaidSpec => []WithinLimits
BY PaidInvariant, PTL DEF PaidInv

\* A provider cycle is admitted once, and once more for each recovery of it.
THEOREM CyclesAreAdmittedOnce == PaidSpec => []OncePerWork
<1>1. PaidInv => OncePerWork
  <2> SUFFICES ASSUME PaidInv, NEW w \in Works
               PROVE  Cardinality({j \in Admitted : Work[j] = w}) <= 1 + permitted[w]
    BY DEF OncePerWork
  <2>1. Counted /\ permitted \in [Works -> Nat] /\ IsFiniteSet(Jobs) /\ Starters(w) \subseteq Jobs
    BY PaidTypes, PaidConstants DEF PaidInv, Starters, Admitted
  <2>2. Cardinality(Starters(w)) \in Nat
    BY <2>1, FS_Subset, FS_CardinalityType
  <2>3. Cardinality(Starters(w)) <= 1 + permitted[w]
    BY <2>1, <2>2 DEF Counted
  <2> QED  BY <2>3 DEF Starters
<1> QED  BY <1>1, PaidInvariant, PTL

\* Every job that works has its admission in the ledger; no two share a channel, and none
\* shares the ledger when single_active is set.
THEOREM LeasesOutlastTheWork == PaidSpec => []OneProducer
<1>1. PaidInv => OneProducer
  <2> SUFFICES ASSUME PaidInv
               PROVE  OneProducer
    OBVIOUS
  <2>1. ASSUME NEW j \in Jobs, stage[j] = "working"
        PROVE  Channel(j) \in Channels /\ Holder(doc, Channel(j)) = j /\ started[j] # 0
    <3>1. Channel(j) \in Channels /\ Holder(doc, Channel(j)) = j
      BY <2>1, PaidConstants, WorkingIsLeased DEF PaidInv
    <3> QED  BY <3>1, TokenNoted DEF PaidInv
  <2>2. ASSUME NEW j \in Jobs, NEW k \in Jobs, stage[j] = "working", stage[k] = "working", j # k
        PROVE  Channel(j) # Channel(k) /\ ~doc.single
    BY <2>1, <2>2 DEF PaidInv, Alone
  <2> QED  BY <2>1, <2>2 DEF OneProducer, Working, Admitted
<1> QED  BY <1>1, PaidInvariant, PTL

\* A catch-up that was the last to start on its channel leaves the scheduled slot its
\* lease, its interval and a start of the day.
THEOREM CatchUpsLeaveTheSlot == PaidSpec => []CatchUpsYield
<1>1. PaidInv => CatchUpsYield
  <2> SUFFICES ASSUME PaidInv, NEW j \in CatchUps,
                      started[j] # 0, doc.channel[Channel(j)].last = started[j],
                      now >= Slot[Channel(j)], DayOf(now) = DayOf(Slot[Channel(j)])
               PROVE  ~Leased(doc, Channel(j)) /\ Rested(doc, Channel(j))
    BY DEF CatchUpsYield
  <2> DEFINE c == Channel(j)
  <2>1. /\ j \in Jobs /\ c \in Channels /\ doc \in Ledger /\ now \in Time /\ now \in Nat
        /\ Slot[c] \in Nat /\ Allowance[c] \in Nat /\ Grace \in Nat /\ Interval \in Nat
        /\ Daily \in Nat /\ Daily > 0 /\ Interval > 0
    BY PaidTypes, PaidConstants DEF PaidInv
  <2>2. /\ Last(doc, c) \in Nat /\ Days(doc, c) \in [DayNo -> Nat] /\ Until(doc, c) \in Nat
        /\ Holder(doc, c) \in Token /\ Last(doc, c) = started[j]
    BY <2>1, AccountFields DEF Last
  <2>3. /\ started[j] + Interval <= Slot[c] /\ started[j] + Allowance[c] + Grace <= Slot[c]
        /\ DayOf(Slot[c]) = DayOf(started[j]) => Days(doc, c)[DayOf(started[j])] < Daily
    BY <2>1, <2>2 DEF PaidInv, LastStarts
  <2>4. Until(doc, c) = 0 \/ Until(doc, c) = Last(doc, c) + Allowance[c] + Grace
    BY <2>1 DEF PaidInv, Accounted
  <2>5. Until(doc, c) <= now
    BY <2>1, <2>2, <2>3, <2>4
  <2>6. ~Leased(doc, c)
    BY <2>1, <2>2, <2>5 DEF Leased, Until
  <2>7. now - Last(doc, c) >= Interval
    BY <2>1, <2>2, <2>3
  <2>8. Days(doc, c)[DayOf(now)] < Daily
    <3>1. DayOf(now) \in DayNo /\ DayOf(now) \in Nat
      BY <2>1, DaysCounted, DaysInOrder
    <3>2. CASE DayOf(Slot[c]) = DayOf(started[j])
      BY <2>3, <3>2
    <3>3. CASE DayOf(Slot[c]) # DayOf(started[j])
      <4>1. DayOf(started[j]) \in Nat /\ DayOf(started[j]) <= DayOf(Slot[c])
        BY <2>1, <2>2, <2>3, DaysInOrder
      <4>2. ~(DayOf(now) <= DayOf(Last(doc, c)))
        BY <2>2, <3>1, <3>3, <4>1
      <4>3. Days(doc, c)[DayOf(now)] = 0
        BY <2>1, <3>1, <4>2 DEF PaidInv, Accounted
      <4> QED  BY <2>1, <4>3
    <3> QED  BY <3>2, <3>3
  <2>9. Rested(doc, c)
    BY <2>7, <2>8 DEF Rested, Last, Days
  <2> QED  BY <2>6, <2>9
<1> QED  BY <1>1, PaidInvariant, PTL

\* Under a pause nothing is admitted, and only the operator ends it.
THEOREM PausesHold == PaidSpec => PauseHolds
<1> DEFINE Held == doc.paused => \/ doc' = [doc EXCEPT !.paused = FALSE]
                                 \/ doc'.paused /\ doc'.starts = doc.starts
<1>1. PaidInv /\ PaidNext => Held
  <2> SUFFICES ASSUME PaidInv, PaidNext, doc.paused
               PROVE  \/ doc' = [doc EXCEPT !.paused = FALSE]
                      \/ doc'.paused /\ doc'.starts = doc.starts
    OBVIOUS
  <2>1. Move /\ doc \in Ledger /\ \A j \in Jobs : Channel(j) \in Channels
    BY PaidMoves, PaidTypes, PaidConstants DEF PaidInv
  <2>2. \A j \in Jobs, t \in Time : ~Starts(j, t)
    BY DEF Starts, ChargeAt
  <2>3. ASSUME NEW j \in Jobs, Frees(j)  PROVE doc'.paused /\ doc'.starts = doc.starts
    BY <2>1, <2>3, ReleaseIs DEF Frees, Releases
  <2>4. ~Renewed /\ \A w \in Works : ~Again(w)
    BY DEF Renewed, Renews, Again, PermitAt
  <2>5. CASE Toggled
    <3>1. ~doc.paused = FALSE
      OBVIOUS
    <3>2. doc' = [doc EXCEPT !.paused = ~doc.paused]
      BY <2>5 DEF Toggled
    <3> QED  BY <3>1, <3>2
  <2>6. CASE Kept
    BY <2>6 DEF Kept
  <2> QED  BY <2>1, <2>2, <2>3, <2>4, <2>5, <2>6 DEF Move
<1>2. UNCHANGED paidVars => Held
  BY DEF paidVars, ledgerVars
<1>3. PaidInv /\ [PaidNext]_paidVars => [Held]_paidVars
  BY <1>1, <1>2
<1> HIDE DEF Held
<1>4. PaidSpec => [][Held]_paidVars
  BY <1>3, PaidInvariant, PTL DEF PaidSpec
<1> QED  BY <1>4 DEF PauseHolds, Held

\* A cycle is not permitted again while a job works on it.
THEOREM RecoveriesWait == PaidSpec => RecoversStopped
<1> DEFINE Left == \A j \in Working : permitted'[Work[j]] = permitted[Work[j]]
<1>1. PaidInv /\ PaidNext => Left
  <2> SUFFICES ASSUME PaidInv, PaidNext, NEW j \in Jobs, stage[j] = "working"
               PROVE  permitted'[Work[j]] = permitted[Work[j]]
    BY DEF Working
  <2>1. Move /\ permitted \in [Works -> Nat] /\ Work[j] \in Works
    BY PaidMoves, PaidTypes, PaidConstants DEF PaidInv
  <2>2. ASSUME NEW w \in Works, Again(w)  PROVE permitted'[Work[j]] = permitted[Work[j]]
    <3>1. PICK t \in Time : t <= now /\ FreeAt(doc, Layer[w], t)
      BY <2>2 DEF Again, PermitAt
    <3>2. Layer[w] # Channel(j)
      BY <3>1, NotFreeWhileWorking, PaidConstants DEF PaidInv
    <3>3. w # Work[j]
      BY <3>2 DEF Channel
    <3> QED  BY <2>1, <2>2, <3>3 DEF Again
  <2> QED  BY <2>1, <2>2 DEF Move, Kept, Starts, Frees, Renewed, Toggled
<1>2. UNCHANGED paidVars => Left
  BY DEF paidVars, ledgerVars
<1>3. PaidInv /\ [PaidNext]_paidVars => [Left]_paidVars
  BY <1>1, <1>2
<1> HIDE DEF Left
<1>4. PaidSpec => [][Left]_paidVars
  BY <1>3, PaidInvariant, PTL DEF PaidSpec
<1> QED  BY <1>4 DEF RecoversStopped, Left

=============================================================================
