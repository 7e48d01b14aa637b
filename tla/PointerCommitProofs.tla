------------------------ MODULE PointerCommitProofs ------------------------
(***************************************************************************)
(* Theorems about PointerCommit, for every set of layers, publishers and   *)
(* timestamps, every bound on the cycles and every number of attempts.     *)
(***************************************************************************)
EXTENDS PointerCommit, FiniteSetTheorems, TLAPS

-----------------------------------------------------------------------------
(***************************************************************************)
(* The inductive invariant.                                                *)
(***************************************************************************)

\* The previous run of an entry is older than its current one.
Ordered(e) == (e.run = 0 /\ e.prev = 0) \/ e.prev < e.run

EntriesOrdered == \A l \in Layers : Ordered(pointer.entry[l])

\* A prepared or delayed write never moves its layer back from what it read.
PreparedForward ==
  /\ \A p \in Pubs : pc[p] = "put" => base[p].entry[job[p].layer].run <= job[p].run
  /\ \A r \in pending : r.base.entry[r.job.layer].run <= r.job.run

\* A confirmed commit is still there as it was reported, or its run has become
\* the previous one of a newer run, or is older than that.
Kept(e, p) ==
  \/ e.run = job[p].run /\ e.prev = found[p]
  \/ e.run > job[p].run /\ e.prev >= job[p].run

CommitsKept ==
  \A p \in Pubs : pc[p] = "committed" => found[p] < job[p].run /\ Kept(EntryOf(p), p)

IInv == TypeOK /\ EntriesOrdered /\ PreparedForward /\ CommitsKept /\ StaleIsOvertaken

\* What any change of the stored document does.
Advance(j) ==
  /\ pointer.entry[j.layer].run <= j.run
  /\ pointer' = NewDoc(pointer, j)

-----------------------------------------------------------------------------
(***************************************************************************)
(* Facts about documents.                                                  *)
(***************************************************************************)

\* A new document is well formed, and replaces the entry of one layer only.
LEMMA NewDocType ==
  ASSUME NEW doc \in Doc, NEW j \in Job
  PROVE  /\ NewDoc(doc, j) \in Doc
         /\ NewDoc(doc, j).entry[j.layer] = NewEntry(doc.entry[j.layer], j)
         /\ \A l \in Layers : l # j.layer => NewDoc(doc, j).entry[l] = doc.entry[l]
<1>1. doc.entry[j.layer] \in Entry
  BY DEF Doc, Job
<1>2. NewEntry(doc.entry[j.layer], j) \in Entry
  BY <1>1, MaxCycleAssumption DEF Entry, NewEntry, Previous, Job, Cycle, Run
<1>3. QED
  BY <1>1, <1>2 DEF NewDoc, Doc, Job

\* The document before any commit is a document.
LEMMA NoDocType == NoDoc \in Doc
BY MaxCycleAssumption DEF NoDoc, Doc, NoEntry, Entry, Run

\* The store changes in one way only: by the next document of some job that does
\* not move its layer back.
LEMMA StepAdvances ==
  ASSUME TypeOK, PreparedForward, Next
  PROVE  pointer' = pointer \/ \E j \in Job : Advance(j)
<1>1. ASSUME NEW p \in Pubs, PutApplied(p)
      PROVE  \E j \in Job : Advance(j)
  <2>1. Advance(job[p])
    BY <1>1 DEF PutApplied, Unchanged, PreparedForward, Advance
  <2>2. QED
    BY <2>1 DEF TypeOK
<1>2. ASSUME NEW r \in pending, Land(r)
      PROVE  \E j \in Job : Advance(j)
  <2>1. Advance(r.job)
    BY <1>2 DEF Land, Unchanged, PreparedForward, Advance
  <2>2. QED
    BY <2>1 DEF TypeOK, Request
<1>3. QED
  BY <1>1, <1>2
  DEF Next, StoreStep, CommitStep, Begin, ReadRecovered, ReadStale, ReadPrepare,
      PutRefused, PutUnknown, SettleFound, SettleLost, Crash, Drop

-----------------------------------------------------------------------------
(***************************************************************************)
(* Type correctness.                                                       *)
(***************************************************************************)
LEMMA InitTypeOK == Init => TypeOK
BY NoDocType, MaxCycleAssumption, AttemptsAssumption
DEF Init, TypeOK, Run, Live, Ended

\* A call that ends keeps the types.
LEMMA FinishTypeOK ==
  ASSUME TypeOK, NEW p \in Pubs, NEW o \in Ended, NEW n \in Run, Finish(p, o, n)
  PROVE  /\ pc' \in [Pubs -> {"ready"} \cup Live \cup Ended]
         /\ attempt' \in [Pubs -> 0..Attempts]
         /\ base' \in [Pubs -> Doc]
         /\ found' \in [Pubs -> Run]
BY NoDocType, AttemptsAssumption DEF TypeOK, Finish

\* A refused attempt, the last one too, keeps the types.
LEMMA RetryTypeOK ==
  ASSUME TypeOK, NEW p \in Pubs, Retry(p)
  PROVE  /\ pc' \in [Pubs -> {"ready"} \cup Live \cup Ended]
         /\ attempt' \in [Pubs -> 0..Attempts]
         /\ base' \in [Pubs -> Doc]
         /\ found' \in [Pubs -> Run]
         /\ job' \in [Pubs -> Job]
BY NoDocType, AttemptsAssumption DEF TypeOK, Retry, Live

\* Every step of the protocol keeps the types.
LEMMA NextTypeOK == TypeOK /\ [Next]_commitVars => TypeOK'
<1> SUFFICES ASSUME TypeOK, [Next]_commitVars PROVE TypeOK'
  OBVIOUS
<1>1. \A p \in Pubs : EntryOf(p) \in Entry /\ EntryOf(p).prev \in Run
  BY DEF TypeOK, EntryOf, Doc, Job, Entry
<1>2. 0 \in Run
  BY MaxCycleAssumption DEF Run
<1>3. ASSUME NEW p \in Pubs, Begin(p)
      PROVE  TypeOK'
  BY <1>3, AttemptsAssumption DEF TypeOK, Begin, Live
<1>4. ASSUME NEW p \in Pubs, ReadRecovered(p)
      PROVE  TypeOK'
  BY <1>1, <1>4, FinishTypeOK DEF TypeOK, ReadRecovered, Ended
<1>5. ASSUME NEW p \in Pubs, ReadStale(p)
      PROVE  TypeOK'
  BY <1>2, <1>5, FinishTypeOK DEF TypeOK, ReadStale, Ended
<1>6. ASSUME NEW p \in Pubs, ReadPrepare(p)
      PROVE  TypeOK'
  BY <1>6 DEF TypeOK, ReadPrepare, Live
<1>7. ASSUME NEW p \in Pubs, PutApplied(p)
      PROVE  TypeOK'
  <2>1. job[p] \in Job /\ base[p] \in Doc
    BY DEF TypeOK
  <2>2. Previous(base[p].entry[job[p].layer], job[p].run) \in Run
    BY <2>1 DEF Previous, Doc, Job, Entry
  <2>3. pointer' \in Doc
    BY <1>7, <2>1, NewDocType DEF PutApplied
  <2>4. QED
    BY <1>7, <2>2, <2>3, FinishTypeOK DEF TypeOK, PutApplied, Ended
<1>8. ASSUME NEW p \in Pubs, PutRefused(p)
      PROVE  TypeOK'
  BY <1>8, RetryTypeOK DEF TypeOK, PutRefused
<1>9. ASSUME NEW p \in Pubs, PutUnknown(p)
      PROVE  TypeOK'
  BY <1>9, RetryTypeOK DEF TypeOK, PutUnknown, Request
<1>10. ASSUME NEW p \in Pubs, SettleFound(p)
       PROVE  TypeOK'
  BY <1>1, <1>10, FinishTypeOK DEF TypeOK, SettleFound, Ended
<1>11. ASSUME NEW p \in Pubs, SettleLost(p)
       PROVE  TypeOK'
  BY <1>2, <1>11, FinishTypeOK DEF TypeOK, SettleLost, Ended
<1>12. ASSUME NEW p \in Pubs, Crash(p)
       PROVE  TypeOK'
  BY <1>2, <1>12, FinishTypeOK DEF TypeOK, Crash, Ended
<1>13. ASSUME NEW r \in pending, Land(r)
       PROVE  TypeOK'
  <2>1. r.base \in Doc /\ r.job \in Job
    BY DEF TypeOK, Request
  <2>2. pointer' \in Doc
    BY <1>13, <2>1, NewDocType DEF Land
  <2>3. QED
    BY <1>13, <2>2 DEF TypeOK, Land
<1>14. ASSUME NEW r \in pending, Drop(r)
       PROVE  TypeOK'
  BY <1>14 DEF TypeOK, Drop
<1>15. CASE UNCHANGED commitVars
  BY <1>15 DEF TypeOK, commitVars
<1>16. QED
  BY <1>3, <1>4, <1>5, <1>6, <1>7, <1>8, <1>9, <1>10, <1>11, <1>12, <1>13, <1>14,
     <1>15 DEF Next, CommitStep, StoreStep

\* Every variable keeps its type, whatever the number of publishers and attempts.
THEOREM TypeCorrect == Spec => []TypeOK
BY InitTypeOK, NextTypeOK, PTL DEF Spec

-----------------------------------------------------------------------------
(***************************************************************************)
(* The safety invariants.                                                  *)
(***************************************************************************)

\* The next document of a job that does not move its layer back: no layer moves
\* back, and what replaces an entry retains at least what the entry retained.
LEMMA AdvanceForward ==
  ASSUME TypeOK, EntriesOrdered, NEW j \in Job, Advance(j), NEW l \in Layers
  PROVE  LET e == pointer.entry[l]
             f == pointer'.entry[l]
         IN  /\ e \in Entry /\ f \in Entry
             /\ Ordered(f)
             /\ f = NewEntry(e, j) \/ f = e
             /\ e.run <= f.run
             /\ f.run = e.run => f.prev = e.prev
             /\ f.run # e.run => f.prev = e.run
<1> DEFINE e == pointer.entry[l]
           f == pointer'.entry[l]
<1>1. pointer \in Doc /\ e \in Entry /\ Ordered(e)
  BY DEF TypeOK, Doc, EntriesOrdered
<1>2. pointer' \in Doc
  BY <1>1, NewDocType DEF Advance
<1>3. f \in Entry
  BY <1>2 DEF Doc
<1>4. CASE l = j.layer
  <2>1. f = NewEntry(e, j) /\ e.run <= j.run
    BY <1>1, <1>4, NewDocType DEF Advance
  <2>2. j.run \in Nat /\ j.run > 0
    BY MaxCycleAssumption DEF Job, Cycle
  <2>3. e.run \in Nat /\ e.prev \in Nat
    BY <1>1, MaxCycleAssumption DEF Entry, Run
  <2>4. QED
    BY <1>1, <1>3, <2>1, <2>2, <2>3 DEF Ordered, NewEntry, Previous
<1>5. CASE l # j.layer
  <2>1. f = e
    BY <1>1, <1>5, NewDocType DEF Advance
  <2>2. e.run \in Nat
    BY <1>1, MaxCycleAssumption DEF Entry, Run
  <2>3. QED
    BY <1>1, <2>1, <2>2
<1>6. QED
  BY <1>4, <1>5

\* The same for the step of the system, whatever it is.
LEMMA StepForward ==
  ASSUME TypeOK, EntriesOrdered, PreparedForward, [Next]_commitVars, NEW l \in Layers
  PROVE  LET e == pointer.entry[l]
             f == pointer'.entry[l]
         IN  /\ e \in Entry /\ f \in Entry
             /\ Ordered(f)
             /\ e.run <= f.run
             /\ f.run = e.run => f.prev = e.prev
             /\ f.run # e.run => f.prev = e.run
<1>1. CASE pointer' = pointer
  <2>1. pointer.entry[l] \in Entry
    BY DEF TypeOK, Doc
  <2>2. pointer.entry[l].run \in Nat
    BY <2>1, MaxCycleAssumption DEF Entry, Run
  <2>3. QED
    BY <1>1, <2>1, <2>2 DEF EntriesOrdered
<1>2. ASSUME NEW j \in Job, Advance(j)
      PROVE  LET e == pointer.entry[l]
                 f == pointer'.entry[l]
             IN  /\ e \in Entry /\ f \in Entry
                 /\ Ordered(f)
                 /\ e.run <= f.run
                 /\ f.run = e.run => f.prev = e.prev
                 /\ f.run # e.run => f.prev = e.run
  BY <1>2, AdvanceForward
<1>3. QED
  BY <1>1, <1>2, StepAdvances DEF commitVars

\* Every step keeps a layer's runs in order.
LEMMA NextEntriesOrdered ==
  TypeOK /\ EntriesOrdered /\ PreparedForward /\ [Next]_commitVars => EntriesOrdered'
BY StepForward DEF EntriesOrdered

\* Every step keeps prepared documents ahead of those they replace.
LEMMA NextPreparedForward ==
  TypeOK /\ PreparedForward /\ [Next]_commitVars => PreparedForward'
<1> SUFFICES ASSUME TypeOK, PreparedForward, [Next]_commitVars
             PROVE  PreparedForward'
  OBVIOUS
<1>1. \A p \in Pubs : job[p] \in Job /\ base[p] \in Doc
  BY DEF TypeOK
<1>2. ASSUME NEW p \in Pubs, ReadPrepare(p)
      PROVE  PreparedForward'
  <2>1. EntryOf(p).run \in Nat /\ job[p].run \in Nat
    BY <1>1, MaxCycleAssumption DEF TypeOK, Doc, Job, Entry, EntryOf, Cycle, Run
  <2>2. pointer.entry[job[p].layer].run <= job[p].run
    BY <1>2, <2>1 DEF ReadPrepare, Older, EntryOf
  <2>3. QED
    BY <1>2, <2>2 DEF ReadPrepare, PreparedForward, TypeOK
<1>3. ASSUME NEW p \in Pubs, PutUnknown(p)
      PROVE  PreparedForward'
  BY <1>3 DEF PutUnknown, Retry, PreparedForward, TypeOK
<1>4. ASSUME NEW p \in Pubs, PutRefused(p)
      PROVE  PreparedForward'
  BY <1>4 DEF PutRefused, Retry, PreparedForward, TypeOK
<1>5. ASSUME NEW p \in Pubs, Begin(p)
      PROVE  PreparedForward'
  BY <1>5 DEF Begin, PreparedForward, TypeOK
<1>6. ASSUME NEW p \in Pubs, NEW o \in Ended, NEW n, Finish(p, o, n),
             UNCHANGED <<pending, job>>
      PROVE  PreparedForward'
  BY <1>6 DEF Finish, PreparedForward, TypeOK, Ended
<1>7. ASSUME NEW r \in pending, pending' = pending \ {r},
             UNCHANGED <<job, pc, attempt, base, found>>
      PROVE  PreparedForward'
  BY <1>7 DEF PreparedForward
<1>8. CASE UNCHANGED commitVars
  BY <1>8 DEF commitVars, PreparedForward
<1>9. ASSUME NEW p \in Pubs,
             \/ ReadRecovered(p) \/ ReadStale(p) \/ PutApplied(p)
             \/ SettleFound(p) \/ SettleLost(p) \/ Crash(p)
      PROVE  PreparedForward'
  BY <1>6, <1>9
  DEF ReadRecovered, ReadStale, PutApplied, SettleFound, SettleLost, Crash, Ended
<1>10. QED
  BY <1>2, <1>3, <1>4, <1>5, <1>7, <1>8, <1>9 DEF Next, CommitStep, StoreStep, Land, Drop

\* A publisher that has ended stays ended, with the result it was given.
LEMMA EndedStays ==
  ASSUME TypeOK, [Next]_commitVars, NEW p \in Pubs, pc[p] \in Ended
  PROVE  pc'[p] = pc[p] /\ job'[p] = job[p] /\ found'[p] = found[p]
<1>1. CASE Next
  <2>1. ASSUME NEW q \in Pubs, Begin(q) \/ CommitStep(q) \/ Crash(q)
        PROVE  pc'[p] = pc[p] /\ job'[p] = job[p] /\ found'[p] = found[p]
    <3>1. pc[q] \notin Ended
      BY <2>1 DEF Begin, CommitStep, Crash, ReadRecovered, ReadStale, ReadPrepare,
                  PutApplied, PutRefused, PutUnknown, SettleFound, SettleLost, Live, Ended
    <3>2. q # p
      BY <3>1
    <3>3. QED
      BY <2>1, <3>2
      DEF Begin, CommitStep, Crash, ReadRecovered, ReadStale, ReadPrepare, PutApplied,
          PutRefused, PutUnknown, SettleFound, SettleLost, Finish, Retry, TypeOK
  <2>2. QED
    BY <1>1, <2>1 DEF Next, StoreStep, Land, Drop
<1>2. CASE UNCHANGED commitVars
  BY <1>2 DEF commitVars
<1>3. QED
  BY <1>1, <1>2

\* What a publisher that becomes committed or stale in this step finds.
LEMMA NewlyEnded ==
  ASSUME IInv, Next, NEW p \in Pubs, pc[p] \notin Ended
  PROVE  /\ pc'[p] = "committed" =>
               /\ found'[p] < job'[p].run
               /\ Kept(EntryOf(p), p)'
         /\ pc'[p] = "stale" => EntryOf(p)'.run > job'[p].run
<1> USE DEF IInv
<1>1. job[p] \in Job /\ pointer \in Doc /\ base[p] \in Doc
  BY DEF TypeOK
<1>2. /\ job[p].run \in Nat /\ job[p].run > 0 /\ job[p].layer \in Layers
      /\ EntryOf(p).run \in Nat /\ EntryOf(p).prev \in Nat /\ Ordered(EntryOf(p))
  BY <1>1, MaxCycleAssumption
  DEF Doc, Job, Entry, EntryOf, Cycle, Run, EntriesOrdered
<1>3. CASE ReadRecovered(p) \/ SettleFound(p)
  BY <1>2, <1>3
  DEF ReadRecovered, SettleFound, Finish, SameCommit, Kept, EntryOf, Ordered, TypeOK
<1>4. CASE ReadStale(p)
  BY <1>2, <1>4 DEF ReadStale, Finish, Older, EntryOf, TypeOK
<1>5. CASE PutApplied(p)
  <2>1. pointer.entry[job[p].layer].run <= job[p].run
    BY <1>5 DEF PutApplied, Unchanged, PreparedForward
  <2>2. pointer' = NewDoc(pointer, job[p])
    BY <1>5 DEF PutApplied, Unchanged
  <2>3. EntryOf(p)' = NewEntry(EntryOf(p), job[p])
    BY <1>1, <1>5, <2>2, NewDocType DEF PutApplied, EntryOf
  <2>4. found'[p] = Previous(EntryOf(p), job[p].run) /\ pc'[p] = "committed"
    BY <1>5 DEF PutApplied, Finish, Unchanged, EntryOf, TypeOK
  <2>5. job'[p] = job[p]
    BY <1>5 DEF PutApplied
  <2>6. QED
    BY <1>2, <2>1, <2>3, <2>4, <2>5
    DEF NewEntry, Previous, Kept, Ordered, EntryOf
<1>6. CASE \/ Begin(p) \/ ReadPrepare(p) \/ PutRefused(p) \/ PutUnknown(p)
           \/ SettleLost(p) \/ Crash(p)
  BY <1>6
  DEF Begin, ReadPrepare, PutRefused, PutUnknown, SettleLost, Crash, Retry, Finish, TypeOK
<1>7. ASSUME NEW q \in Pubs, q # p, Begin(q) \/ CommitStep(q) \/ Crash(q)
      PROVE  pc'[p] = pc[p]
  BY <1>7
  DEF Begin, CommitStep, Crash, ReadRecovered, ReadStale, ReadPrepare, PutApplied,
      PutRefused, PutUnknown, SettleFound, SettleLost, Finish, Retry, TypeOK
<1>8. CASE StoreStep
  BY <1>8 DEF StoreStep, Land, Drop, Ended
<1>9. QED
  BY <1>3, <1>4, <1>5, <1>6, <1>7, <1>8 DEF Next, CommitStep, Ended

\* Every step keeps confirmed commits in the history, and stale verdicts overtaken.
LEMMA NextCommitsKept ==
  IInv /\ [Next]_commitVars => CommitsKept' /\ StaleIsOvertaken'
<1> SUFFICES ASSUME IInv, [Next]_commitVars, NEW p \in Pubs
             PROVE  /\ pc'[p] = "committed" =>
                          found'[p] < job'[p].run /\ Kept(EntryOf(p), p)'
                    /\ pc'[p] = "stale" => EntryOf(p)'.run > job'[p].run
  BY DEF CommitsKept, StaleIsOvertaken
<1>1. job[p] \in Job /\ job[p].layer \in Layers /\ job[p].run \in Nat /\ found[p] \in Nat
  BY MaxCycleAssumption DEF IInv, TypeOK, Job, Cycle, Run
<1>2. CASE pc[p] \in Ended
  <2>1. pc'[p] = pc[p] /\ job'[p] = job[p] /\ found'[p] = found[p]
    BY <1>2, EndedStays DEF IInv
  <2> DEFINE e == pointer.entry[job[p].layer]
             f == pointer'.entry[job[p].layer]
  <2>2. /\ e \in Entry /\ f \in Entry /\ e.run <= f.run
        /\ f.run = e.run => f.prev = e.prev
        /\ f.run # e.run => f.prev = e.run
    BY <1>1, StepForward DEF IInv
  <2>3. e.run \in Nat /\ e.prev \in Nat /\ f.run \in Nat /\ f.prev \in Nat
    BY <2>2, MaxCycleAssumption DEF Entry, Run
  <2>4. EntryOf(p) = e /\ EntryOf(p)' = f
    BY <2>1 DEF EntryOf
  <2>5. pc[p] = "committed" => found[p] < job[p].run /\ Kept(e, p)
    BY <2>4 DEF IInv, CommitsKept
  <2>6. pc[p] = "stale" => e.run > job[p].run
    BY <2>4 DEF IInv, StaleIsOvertaken
  <2>7. QED
    BY <1>1, <2>1, <2>2, <2>3, <2>4, <2>5, <2>6 DEF Kept
<1>3. CASE pc[p] \notin Ended /\ Next
  BY <1>3, NewlyEnded
<1>4. CASE pc[p] \notin Ended /\ UNCHANGED commitVars
  BY <1>4 DEF commitVars, Ended
<1>5. QED
  BY <1>2, <1>3, <1>4

\* The inductive invariant holds at the start.
LEMMA InitIInv == Init => IInv
<1> SUFFICES ASSUME Init PROVE IInv
  OBVIOUS
<1>1. EntriesOrdered
  BY DEF Init, EntriesOrdered, NoDoc, NoEntry, Ordered
<1>2. PreparedForward /\ CommitsKept /\ StaleIsOvertaken
  BY DEF Init, PreparedForward, CommitsKept, StaleIsOvertaken
<1>3. QED
  BY <1>1, <1>2, InitTypeOK DEF IInv

\* Every step of the protocol keeps the inductive invariant.
LEMMA NextIInv == IInv /\ [Next]_commitVars => IInv'
BY NextTypeOK, NextEntriesOrdered, NextPreparedForward, NextCommitsKept DEF IInv

\* commit_layer_entry, any number of jobs, layers and lost answers: the inductive invariant
\* holds of every state that is reached.
THEOREM InductiveInvariant == Spec => []IInv
BY InitIInv, NextIInv, PTL DEF Spec

\* The invariant gives that no commit is lost and no floor is ahead.
LEMMA IInvCommits ==
  ASSUME IInv
  PROVE  NoLostCommit /\ FloorBehind
<1> SUFFICES ASSUME NEW p \in Pubs, pc[p] = "committed"
             PROVE  EntryOf(p).run >= job[p].run /\ Floor(p) <= Oldest(EntryOf(p))
  BY DEF NoLostCommit, FloorBehind
<1>1. found[p] < job[p].run /\ Kept(EntryOf(p), p) /\ Ordered(EntryOf(p))
  BY DEF IInv, CommitsKept, EntriesOrdered, EntryOf, TypeOK, Job
<1>2. /\ job[p].run \in Nat /\ job[p].run > 0 /\ found[p] \in Nat
      /\ EntryOf(p).run \in Nat /\ EntryOf(p).prev \in Nat
  BY MaxCycleAssumption DEF IInv, TypeOK, Doc, Job, Entry, EntryOf, Cycle, Run
<1>3. QED
  BY <1>1, <1>2 DEF Kept, Ordered, Floor, Oldest

\* A confirmed commit is never lost to another writer of the document.
THEOREM CommitsNeverLost == Spec => []NoLostCommit
BY InductiveInvariant, IInvCommits, PTL

\* What a committed publisher was told to retain is never newer than what the
\* document retains, however late the publisher acts on it.
THEOREM FloorNeverAhead == Spec => []FloorBehind
BY InductiveInvariant, IInvCommits, PTL

\* A call that ends stale was overtaken, and its layer never goes back behind it.
THEOREM StaleCallsAreOvertaken == Spec => []StaleIsOvertaken
BY InductiveInvariant, PTL DEF IInv

-----------------------------------------------------------------------------
(***************************************************************************)
(* Refinement.                                                             *)
(***************************************************************************)
LEMMA StepRefines ==
  TypeOK /\ PreparedForward /\ [Next]_commitVars => [Register!Next]_(Register!vars)
<1> DEFINE cur == [l \in Layers |-> pointer.entry[l].run]
           prv == [l \in Layers |-> pointer.entry[l].prev]
<1> SUFFICES ASSUME TypeOK, PreparedForward, [Next]_commitVars
             PROVE  [Register!Next]_(Register!vars)
  OBVIOUS
<1>1. CASE pointer' = pointer
  BY <1>1 DEF Register!vars
<1>2. ASSUME NEW j \in Job, Advance(j)
      PROVE  Register!Next
  <2>1. pointer \in Doc /\ j.layer \in Layers /\ j.run \in Cycle
    BY DEF TypeOK, Job
  <2>2. /\ pointer'.entry[j.layer] = NewEntry(pointer.entry[j.layer], j)
        /\ \A l \in Layers : l # j.layer => pointer'.entry[l] = pointer.entry[l]
    BY <1>2, <2>1, NewDocType DEF Advance
  <2>3. cur' = [cur EXCEPT ![j.layer] = j.run]
    <3>1. \A l \in Layers : pointer'.entry[l].run =
                              IF l = j.layer THEN j.run ELSE pointer.entry[l].run
      BY <2>2 DEF NewEntry
    <3>2. QED
      BY <3>1
  <2>4. prv' = [prv EXCEPT ![j.layer] =
                  IF j.run = cur[j.layer] THEN prv[j.layer] ELSE cur[j.layer]]
    <3>1. \A l \in Layers : pointer'.entry[l].prev =
                              IF l = j.layer THEN Previous(pointer.entry[l], j.run)
                                             ELSE pointer.entry[l].prev
      BY <2>2 DEF NewEntry
    <3>2. QED
      BY <2>1, <3>1 DEF Previous
  <2>5. Register!Publish(j.layer, j.run)
    BY <1>2, <2>1, <2>3, <2>4 DEF Register!Publish, Advance
  <2>6. QED
    BY <2>1, <2>5 DEF Register!Next, Register!Cycle, Cycle
<1>3. QED
  BY <1>1, <1>2, StepAdvances DEF commitVars

\* The compare-and-swap protocol implements the abstract register.
THEOREM Refinement == Spec => ImplementsRegister
<1>1. Init => Register!Init
  BY DEF Init, NoDoc, NoEntry, Register!Init
<1>2. QED
  BY <1>1, StepRefines, InductiveInvariant, PTL
  DEF Spec, IInv, ImplementsRegister, Register!Spec

-----------------------------------------------------------------------------
(***************************************************************************)
(* How many attempts are enough.                                           *)
(***************************************************************************)
ConfirmedCalls == {p \in Pubs : pc[p] = "committed"}

\* Each attempt of a call but its current one was lost to another call's commit, and so is
\* the current one once the document differs from what it read.
LossesPaid ==
  /\ pending = {}
  /\ \A p \in Pubs :
       /\ pc[p] \notin {"settle", "conflict"}
       /\ pc[p] \in {"read", "put"} => attempt[p] <= Cardinality(ConfirmedCalls) + 1
       /\ pc[p] = "put" /\ base[p] # pointer => attempt[p] <= Cardinality(ConfirmedCalls)

\* The calls that are confirmed only become more, and one more with a write.
LEMMA ConfirmedGrow ==
  ASSUME TypeOK, [Next]_commitVars, IsFiniteSet(Pubs)
  PROVE  /\ Cardinality(ConfirmedCalls) \in Nat /\ Cardinality(ConfirmedCalls)' \in Nat
         /\ Cardinality(ConfirmedCalls) <= Cardinality(ConfirmedCalls)'
         /\ \A p \in Pubs : pc[p] # "committed" /\ pc'[p] = "committed" =>
              Cardinality(ConfirmedCalls) + 1 <= Cardinality(ConfirmedCalls)'
<1>1. ConfirmedCalls \subseteq ConfirmedCalls'
  BY EndedStays DEF ConfirmedCalls, Ended
<1>2. IsFiniteSet(ConfirmedCalls) /\ IsFiniteSet(ConfirmedCalls')
  BY FS_Subset DEF ConfirmedCalls
<1>3. Cardinality(ConfirmedCalls) \in Nat /\ Cardinality(ConfirmedCalls') \in Nat
  BY <1>2, FS_CardinalityType
<1>4. Cardinality(ConfirmedCalls) <= Cardinality(ConfirmedCalls')
  BY <1>1, <1>2, FS_Subset
<1>5. ASSUME NEW p \in Pubs, pc[p] # "committed", pc'[p] = "committed"
      PROVE  Cardinality(ConfirmedCalls) + 1 <= Cardinality(ConfirmedCalls')
  <2>1. p \notin ConfirmedCalls /\ p \in ConfirmedCalls'
    BY <1>5 DEF ConfirmedCalls
  <2>2. Cardinality(ConfirmedCalls \cup {p}) = Cardinality(ConfirmedCalls) + 1
    BY <1>2, <2>1, FS_AddElement
  <2>3. ConfirmedCalls \cup {p} \in SUBSET ConfirmedCalls'
    BY <1>1, <2>1
  <2>4. Cardinality(ConfirmedCalls \cup {p}) <= Cardinality(ConfirmedCalls')
    BY <1>2, <2>3, FS_Subset
  <2>5. QED
    BY <2>2, <2>4
<1>6. QED
  BY <1>3, <1>4, <1>5

\* Who is not confirmed leaves room for an attempt.
LEMMA RoomForOneMore ==
  ASSUME IsFiniteSet(Pubs), Cardinality(Pubs) <= Attempts, NEW p \in Pubs, pc[p] # "committed"
  PROVE  Cardinality(ConfirmedCalls) + 1 <= Attempts
<1>1. IsFiniteSet(ConfirmedCalls) /\ p \notin ConfirmedCalls
  BY FS_Subset DEF ConfirmedCalls
<1>2. Cardinality(ConfirmedCalls \cup {p}) = Cardinality(ConfirmedCalls) + 1
  BY <1>1, FS_AddElement
<1>3. ConfirmedCalls \cup {p} \in SUBSET Pubs
  BY DEF ConfirmedCalls
<1>4. Cardinality(ConfirmedCalls \cup {p}) <= Cardinality(Pubs)
  BY <1>3, FS_Subset
<1>5. Cardinality(ConfirmedCalls) \in Nat /\ Cardinality(Pubs) \in Nat
  BY <1>1, FS_CardinalityType
<1>6. QED
  BY <1>2, <1>4, <1>5, AttemptsAssumption

\* Every step leaves refused attempts paid for by other calls' commits.
LEMMA NextLossesPaid ==
  ASSUME ~Lossy, IsFiniteSet(Pubs), Cardinality(Pubs) <= Attempts,
         TypeOK, LossesPaid, [Next]_commitVars
  PROVE  LossesPaid'
<1> DEFINE N == Cardinality(ConfirmedCalls)
<1>1. /\ N \in Nat /\ N' \in Nat /\ N <= N'
      /\ \A p \in Pubs : pc[p] # "committed" /\ pc'[p] = "committed" => N + 1 <= N'
  BY ConfirmedGrow
<1>2. \A p \in Pubs : attempt[p] \in Nat
  BY AttemptsAssumption DEF TypeOK
<1>3. \A p \in Pubs : pc[p] # "committed" => N + 1 <= Attempts
  BY RoomForOneMore
<1>4. /\ pending = {}
      /\ \A p \in Pubs :
           /\ pc[p] \notin {"settle", "conflict"}
           /\ pc[p] \in {"read", "put"} => attempt[p] <= N + 1
           /\ pc[p] = "put" /\ base[p] # pointer => attempt[p] <= N
  BY DEF LossesPaid
<1> USE DEF TypeOK
<1>5. pending' = {}
  BY <1>4
  DEF Next, Begin, CommitStep, ReadRecovered, ReadStale, ReadPrepare, PutApplied, PutRefused,
      PutUnknown, SettleFound, SettleLost, Crash, StoreStep, commitVars
<1> SUFFICES ASSUME NEW p \in Pubs
             PROVE  /\ pc'[p] \notin {"settle", "conflict"}
                    /\ pc'[p] \in {"read", "put"} => attempt'[p] <= N' + 1
                    /\ pc'[p] = "put" /\ base'[p] # pointer' => attempt'[p] <= N'
  BY <1>5 DEF LossesPaid
<1> HIDE DEF N
<1>6. CASE Begin(p)
  <2>1. pc'[p] = "read" /\ attempt'[p] = 1
    BY <1>6 DEF Begin
  <2>2. N' \in Nat
    BY <1>1
  <2>3. attempt'[p] <= N' + 1
    BY <2>1, <2>2
  <2>4. QED
    BY <2>1, <2>3
<1>7. CASE ReadRecovered(p) \/ ReadStale(p) \/ PutApplied(p)
  BY <1>7 DEF ReadRecovered, ReadStale, PutApplied, Finish
<1>8. CASE ReadPrepare(p)
  <2>1. /\ pc[p] = "read" /\ pc'[p] = "put" /\ base'[p] = pointer /\ pointer' = pointer
        /\ attempt' = attempt
    BY <1>8 DEF ReadPrepare
  <2>2. attempt[p] <= N + 1
    BY <1>4, <2>1
  <2>3. QED
    BY <1>1, <1>2, <2>1, <2>2
<1>9. CASE PutRefused(p)
  <2>1. pc[p] = "put" /\ base[p] # pointer /\ Retry(p)
    BY <1>9 DEF PutRefused, Unchanged
  <2>2. attempt[p] <= N /\ N + 1 <= Attempts
    BY <1>3, <1>4, <2>1
  <2>3. attempt[p] < Attempts
    BY <1>1, <1>2, <2>2, AttemptsAssumption
  <2>4. pc'[p] = "read" /\ attempt'[p] = attempt[p] + 1
    BY <2>1, <2>3 DEF Retry
  <2>5. attempt[p] + 1 <= N' + 1
    BY <1>1, <1>2, <2>2
  <2>6. QED
    BY <2>4, <2>5
<1>10. CASE PutUnknown(p) \/ SettleFound(p) \/ SettleLost(p) \/ Crash(p) \/ StoreStep
  BY <1>4, <1>10 DEF PutUnknown, SettleFound, SettleLost, Crash, StoreStep
<1>11. ASSUME NEW q \in Pubs, q # p, Begin(q) \/ CommitStep(q) \/ Crash(q)
       PROVE  /\ pc'[p] = pc[p] /\ attempt'[p] = attempt[p] /\ base'[p] = base[p]
              /\ pointer' = pointer \/ (pc[q] # "committed" /\ pc'[q] = "committed")
  BY <1>11
  DEF Begin, CommitStep, Crash, ReadRecovered, ReadStale, ReadPrepare, PutApplied, PutRefused,
      PutUnknown, SettleFound, SettleLost, Finish, Retry
<1>12. ASSUME NEW q \in Pubs, q # p, Begin(q) \/ CommitStep(q) \/ Crash(q)
       PROVE  /\ pc'[p] \notin {"settle", "conflict"}
              /\ pc'[p] \in {"read", "put"} => attempt'[p] <= N' + 1
              /\ pc'[p] = "put" /\ base'[p] # pointer' => attempt'[p] <= N'
  <2>1. pc'[p] = pc[p] /\ attempt'[p] = attempt[p] /\ base'[p] = base[p]
    BY <1>11, <1>12
  <2>2. pointer' = pointer \/ N + 1 <= N'
    BY <1>1, <1>11, <1>12
  <2>3. pc[p] \in {"read", "put"} => attempt[p] <= N' + 1
    BY <1>1, <1>2, <1>4
  <2>4. pc[p] = "put" /\ base[p] # pointer' => attempt[p] <= N'
    BY <1>1, <1>2, <1>4, <2>2
  <2>5. QED
    BY <1>4, <2>1, <2>3, <2>4
<1>13. CASE UNCHANGED commitVars
  <2>1. pc' = pc /\ attempt' = attempt /\ base' = base /\ pointer' = pointer
    BY <1>13 DEF commitVars
  <2>2. pc[p] \in {"read", "put"} => attempt[p] <= N' + 1
    BY <1>1, <1>2, <1>4
  <2>3. pc[p] = "put" /\ base[p] # pointer => attempt[p] <= N'
    BY <1>1, <1>2, <1>4
  <2>4. QED
    BY <1>4, <2>1, <2>2, <2>3
<1>14. QED
  BY <1>6, <1>7, <1>8, <1>9, <1>10, <1>12, <1>13 DEF Next, CommitStep

\* Six attempts are not enough for the seven root layers, which publish at once (run
\* commit_burst); as many attempts as calls always are, when no answer is lost: each lost race
\* is the commit of another.
THEOREM AttemptsSuffice ==
  ASSUME ~Lossy, IsFiniteSet(Pubs), Cardinality(Pubs) <= Attempts
  PROVE  Spec => []NoConflict
<1>1. Init => LossesPaid
  BY DEF Init, LossesPaid
<1>2. TypeOK /\ LossesPaid /\ [Next]_commitVars => LossesPaid'
  BY NextLossesPaid
<1>3. LossesPaid => NoConflict
  BY DEF LossesPaid, NoConflict
<1>4. QED
  BY <1>1, <1>2, <1>3, TypeCorrect, PTL DEF Spec

=============================================================================
