------------------------- MODULE PublicationProofs -------------------------
(***************************************************************************)
(* Theorems about Publication, and about RegionalControl and StorageAudit  *)
(* beside it: no interleaving of publishers, retention, late writes,       *)
(* crashes, rollbacks and audits leaves the pointer naming a damaged run.  *)
(***************************************************************************)
EXTENDS RegionalControl, StorageAudit, PointerCommitProofs

-----------------------------------------------------------------------------
(***************************************************************************)
(* The inductive invariant.                                                *)
(***************************************************************************)

\* The runs retention cannot reach: none older than all the pointer retains.
Kind(l, c) == c >= OldestOf(l)

\* What publish_run needs of the commit protocol.  That a commit is never lost is not in
\* it: an operator's rollback undoes one, and the rest must hold beside it.
CommitInv == TypeOK /\ EntriesOrdered /\ PreparedForward /\ FloorBehind

\* Whatever is retained is whole.
WholeIfKept(l, c) == Kind(l, c) => Whole(l, c)

\* The commit of a publisher is under way only in its commit stage.
Staged ==
  \A p \in Pubs :
    /\ pc[p] \in Live => stage[p] = "commit"
    /\ pc[p] = "committed" => stage[p] \in {"commit", "prune", "done"}
    /\ stage[p] \in {"prune", "done"} => pc[p] = "committed"

\* What a publisher has uploaded is still there while its call is under way, unless its run
\* is superseded.
Underway(p) == stage[p] # "refused" /\ pc[p] \notin Ended
UploadsKept ==
  \A p \in Pubs : Underway(p) =>
    LET l == job[p].layer
        c == job[p].run
    IN  /\ Kind(l, c) => 1..sent[p] \subseteq tiles[l][c]
        /\ stage[p] \in {"verify", "commit"} => WholeIfKept(l, c)

\* A delayed pointer write names a run that is whole, unless it is superseded,
\* and then the write can no longer be applied.
PendingKept == \A r \in pending : WholeIfKept(r.job.layer, r.job.run)

\* Retention is after runs below its own floor only.
DoomedOld ==
  \A p \in Pubs :
    /\ plan[p] # {} \/ victim[p] # NoVictim => stage[p] = "prune"
    /\ \A v \in plan[p] : v.run < Floor(p)
    /\ victim[p] # NoVictim => victim[p] \in Listed /\ victim[p].run < Floor(p)

\* The invariant of publishers, beside an audit too; and what an audit takes from it.
KeptInv ==
  /\ RunTypeOK /\ CommitInv
  /\ Staged /\ UploadsKept /\ PendingKept /\ DoomedOld /\ RefIntegrity
RunInv == KeptInv /\ CompleteIsWhole

-----------------------------------------------------------------------------
(***************************************************************************)
(* The commit protocol inside publish_run.                                 *)
(***************************************************************************)

\* A step of publish_run is a step of the commit protocol, or leaves it alone.
LEMMA RunStepIsCommitStep == [RunNext]_vars => [Next]_commitVars
<1>1. ASSUME NEW p \in Pubs, PubStep(p) \/ Die(p)
      PROVE  [Next]_commitVars
  BY <1>1
  DEF PubStep, Die, Admit, Probe, PutTile, PutManifest, Verify, Commit, List, Consider,
      DeleteTile, DeleteManifest, PutStatus, Leave, Next
<1>2. CASE Delayed
  BY <1>2 DEF Delayed, Next
<1>3. CASE UNCHANGED vars
  BY <1>3 DEF vars, commitVars
<1>4. QED
  BY <1>1, <1>2, <1>3 DEF RunNext

\* publish_run keeps the promise of the commit protocol.
THEOREM RunImplementsCommit == RunSpec => Spec
BY RunStepIsCommitStep, PTL DEF RunSpec, RunInit, Spec

-----------------------------------------------------------------------------
(***************************************************************************)
(* Type correctness.                                                       *)
(***************************************************************************)
LEMMA RunInitTypeOK == RunInit => RunTypeOK
BY InitTypeOK, MaxCycleAssumption, NTilesAssumption DEF RunInit, RunTypeOK, Stages, Run

\* Every step of a publication keeps the types.
LEMMA RunNextTypeOK == RunTypeOK /\ [RunNext]_vars => RunTypeOK'
<1> SUFFICES ASSUME RunTypeOK, [RunNext]_vars PROVE RunTypeOK'
  OBVIOUS
<1>1. TypeOK'
  BY RunStepIsCommitStep, NextTypeOK DEF RunTypeOK
<1>2. \A p \in Pubs : job[p].layer \in Layers /\ job[p].run \in Cycle /\ job[p].stamp \in Stamps
  BY DEF RunTypeOK, TypeOK, Job
<1> USE <1>1, <1>2 DEF RunTypeOK
<1>3. ASSUME NEW p \in Pubs, Admit(p) PROVE RunTypeOK'
  BY <1>3 DEF Admit, Goto, Stages, runVars
<1>4. ASSUME NEW p \in Pubs, Probe(p) PROVE RunTypeOK'
  BY <1>4 DEF Probe, Goto, Stages, runVars
<1>5. ASSUME NEW p \in Pubs, PutTile(p) PROVE RunTypeOK'
  <2> DEFINE l == job[p].layer
             c == job[p].run
             t == sent[p] + 1
  <2>1. CASE /\ tiles' = [tiles EXCEPT ![l][c] = @ \cup {t}]
             /\ sent' = [sent EXCEPT ![p] = t]
             /\ UNCHANGED stage
    <3>1. tiles' \in [Layers -> [Cycle -> SUBSET Tiles]]
      <4>1. tiles[l][c] \cup {t} \in SUBSET Tiles
        BY <1>2, <1>5 DEF PutTile
      <4>2. [tiles[l] EXCEPT ![c] = @ \cup {t}] \in [Cycle -> SUBSET Tiles]
        BY <1>2, <4>1
      <4>3. QED
        BY <1>2, <2>1, <4>2
    <3>2. sent' \in [Pubs -> 0..NTiles]
      BY <1>5, <2>1, NTilesAssumption DEF PutTile, Tiles
    <3>3. QED
      BY <1>5, <2>1, <3>1, <3>2 DEF PutTile
  <2>2. CASE Goto(p, "refused") /\ UNCHANGED <<tiles, sent>>
    BY <1>5, <2>2 DEF PutTile, Goto, Stages
  <2>3. QED
    BY <1>5, <2>1, <2>2 DEF PutTile
<1>6. ASSUME NEW p \in Pubs, PutManifest(p) PROVE RunTypeOK'
  <2> DEFINE l == job[p].layer
             c == job[p].run
  <2>1. CASE manifest' = [manifest EXCEPT ![l][c] = job[p].stamp] /\ Goto(p, "verify")
    <3>1. [manifest[l] EXCEPT ![c] = job[p].stamp] \in [Cycle -> Stamps \cup {NoStamp}]
      BY <1>2
    <3>2. manifest' \in [Layers -> [Cycle -> Stamps \cup {NoStamp}]]
      BY <1>2, <2>1, <3>1
    <3>3. stage' \in [Pubs -> Stages]
      BY <2>1 DEF Goto, Stages
    <3>4. QED
      BY <1>6, <3>2, <3>3 DEF PutManifest
  <2>2. CASE Goto(p, "refused") /\ UNCHANGED manifest
    BY <1>6, <2>2 DEF PutManifest, Goto, Stages
  <2>3. QED
    BY <1>6, <2>1, <2>2 DEF PutManifest
<1>7. ASSUME NEW p \in Pubs, Verify(p) PROVE RunTypeOK'
  BY <1>7 DEF Verify, Goto, Stages, runVars
<1>8. ASSUME NEW p \in Pubs, Commit(p) \/ Die(p) PROVE RunTypeOK'
  BY <1>8 DEF Commit, Die, runVars, stepVars
<1>9. ASSUME NEW p \in Pubs, List(p) PROVE RunTypeOK'
  <2>1. plan' \in [Pubs -> SUBSET Listed]
    BY <1>9 DEF List, Superseded, Listed
  <2>2. QED
    BY <1>9, <2>1 DEF List, Goto, Stages, runVars
<1>10. ASSUME NEW p \in Pubs, Consider(p) PROVE RunTypeOK'
  <2>1. PICK v \in plan[p] :
              /\ plan' = [plan EXCEPT ![p] = @ \ {v}]
              /\ victim' = [victim EXCEPT ![p] =
                              IF Referenced(job[p].layer, v.run) THEN NoVictim ELSE v]
    BY <1>10 DEF Consider
  <2>2. victim' \in [Pubs -> Listed \cup {NoVictim}]
    BY <2>1
  <2>3. plan' \in [Pubs -> SUBSET Listed]
    BY <2>1
  <2>4. QED
    BY <1>10, <2>2, <2>3 DEF Consider, runVars
<1>11. ASSUME NEW p \in Pubs, NEW t \in Tiles, DeleteTile(p, t) PROVE RunTypeOK'
  <2>1. victim[p] \in Listed
    BY <1>11 DEF DeleteTile, NoVictim
  <2>2. [victim[p] EXCEPT !.tiles = @ \ {t}] \in Listed
    BY <2>1 DEF Listed
  <2>3. victim' \in [Pubs -> Listed \cup {NoVictim}]
    BY <1>11, <2>2 DEF DeleteTile
  <2>4. tiles' \in [Layers -> [Cycle -> SUBSET Tiles]]
    BY <1>11, <2>1 DEF DeleteTile, Listed
  <2>5. QED
    BY <1>11, <2>3, <2>4 DEF DeleteTile
<1>12. ASSUME NEW p \in Pubs, DeleteManifest(p) PROVE RunTypeOK'
  BY <1>12 DEF DeleteManifest
<1>13. ASSUME NEW p \in Pubs, Leave(p) \/ PutStatus(p) PROVE RunTypeOK'
  <2>1. job[p].run \in Run
    BY <1>2, MaxCycleAssumption DEF Cycle, Run
  <2>2. QED
    BY <1>13, <2>1 DEF PutStatus, Leave, Goto, Stages, runVars
<1>14. CASE Delayed \/ UNCHANGED vars
  BY <1>14 DEF Delayed, vars, runVars, stepVars
<1>15. QED
  BY <1>3, <1>4, <1>5, <1>6, <1>7, <1>8, <1>9, <1>10, <1>11, <1>12, <1>13, <1>14
  DEF RunNext, PubStep

\* Every variable of publish_run keeps its type.
THEOREM RunTypeCorrect == RunSpec => []RunTypeOK
BY RunInitTypeOK, RunNextTypeOK, PTL DEF RunSpec

\* What a publisher whose commit is confirmed in this step is told to retain is what the
\* document then retains, and its run is the layer's.
LEMMA NewlyCommitted ==
  ASSUME TypeOK, [Next]_commitVars, NEW p \in Pubs, pc[p] # "committed", pc'[p] = "committed"
  PROVE  /\ EntryOf(p)'.run = job'[p].run /\ Floor(p)' = Oldest(EntryOf(p))'
         /\ ReadRecovered(p) \/ SettleFound(p) \/ PutApplied(p)
<1>1. job[p] \in Job /\ pointer \in Doc /\ EntryOf(p) \in Entry /\ job[p].layer \in Layers
  BY DEF TypeOK, EntryOf, Doc, Job
<1>2. CASE ReadRecovered(p) \/ SettleFound(p)
  <2>1. /\ pointer' = pointer /\ job' = job /\ found'[p] = EntryOf(p).prev
        /\ EntryOf(p).run = job[p].run
    BY <1>2 DEF ReadRecovered, SettleFound, Finish, SameCommit, TypeOK
  <2>2. EntryOf(p)' = EntryOf(p)
    BY <2>1 DEF EntryOf
  <2>3. QED
    BY <1>2, <2>1, <2>2 DEF Floor, Oldest
<1>3. CASE PutApplied(p)
  <2>1. /\ pointer' = NewDoc(pointer, job[p]) /\ job' = job
        /\ found'[p] = Previous(EntryOf(p), job[p].run)
    BY <1>3 DEF PutApplied, Finish, Unchanged, EntryOf, TypeOK
  <2>2. EntryOf(p)' = NewEntry(EntryOf(p), job[p])
    BY <1>1, <2>1, NewDocType DEF EntryOf
  <2>3. EntryOf(p)'.run = job[p].run /\ EntryOf(p)'.prev = found'[p]
    BY <2>1, <2>2 DEF NewEntry
  <2>4. QED
    BY <1>3, <2>1, <2>3 DEF Floor, Oldest
<1>4. ASSUME NEW q \in Pubs, q # p, Begin(q) \/ CommitStep(q) \/ Crash(q)
      PROVE  pc'[p] = pc[p]
  BY <1>4
  DEF Begin, CommitStep, Crash, ReadRecovered, ReadStale, ReadPrepare, PutApplied,
      PutRefused, PutUnknown, SettleFound, SettleLost, Finish, Retry, TypeOK
<1>5. Begin(p) \/ ReadStale(p) \/ SettleLost(p) \/ Crash(p) => pc'[p] # "committed"
  BY DEF Begin, ReadStale, SettleLost, Crash, Finish, TypeOK
<1>6. ReadPrepare(p) \/ PutRefused(p) \/ PutUnknown(p) => pc'[p] # "committed"
  BY DEF ReadPrepare, PutRefused, PutUnknown, Retry, TypeOK
<1>7. StoreStep \/ UNCHANGED commitVars => pc' = pc
  BY DEF StoreStep, Land, Drop, commitVars
<1>8. QED
  BY <1>2, <1>3, <1>4, <1>5, <1>6, <1>7 DEF Next, CommitStep

\* No step takes a publisher's floor ahead of what the document retains.
LEMMA NextFloorBehind ==
  TypeOK /\ EntriesOrdered /\ PreparedForward /\ FloorBehind /\ [Next]_commitVars => FloorBehind'
<1> SUFFICES ASSUME TypeOK, EntriesOrdered, PreparedForward, FloorBehind, [Next]_commitVars,
                    NEW p \in Pubs, pc'[p] = "committed"
             PROVE  Floor(p)' <= Oldest(EntryOf(p))'
  BY DEF FloorBehind
<1>1. TypeOK'
  BY NextTypeOK
<1>2. CASE pc[p] = "committed"
  <2>1. job'[p] = job[p] /\ found'[p] = found[p]
    BY <1>2, EndedStays DEF Ended
  <2>2. job[p].layer \in Layers /\ Floor(p) \in Nat /\ Floor(p)' = Floor(p)
    BY <2>1, MaxCycleAssumption DEF TypeOK, Job, Cycle, Run, Floor
  <2> DEFINE e == pointer.entry[job[p].layer]
             f == pointer'.entry[job[p].layer]
  <2>3. /\ e \in Entry /\ f \in Entry /\ Ordered(e) /\ Ordered(f) /\ e.run <= f.run
        /\ f.run = e.run => f.prev = e.prev
        /\ f.run # e.run => f.prev = e.run
    BY <2>2, StepForward DEF EntriesOrdered
  <2>4. e.run \in Nat /\ e.prev \in Nat /\ f.run \in Nat /\ f.prev \in Nat
    BY <2>3, MaxCycleAssumption DEF Entry, Run
  <2>5. EntryOf(p) = e /\ EntryOf(p)' = f
    BY <2>1 DEF EntryOf
  <2>6. Floor(p) <= Oldest(e)
    BY <1>2, <2>5 DEF FloorBehind
  <2>7. Oldest(e) <= Oldest(f) /\ Oldest(e) \in Nat /\ Oldest(f) \in Nat
    BY <2>3, <2>4 DEF Oldest, Ordered
  <2>8. QED
    BY <2>2, <2>5, <2>6, <2>7
<1>3. CASE pc[p] # "committed"
  <2>1. Floor(p)' = Oldest(EntryOf(p))'
    BY <1>3, NewlyCommitted
  <2>2. job'[p] \in Job /\ found'[p] \in Run
    BY <1>1 DEF TypeOK
  <2>3. Floor(p)' \in Nat
    BY <2>2, MaxCycleAssumption DEF Floor, Job, Cycle, Run
  <2>4. QED
    BY <2>1, <2>3
<1>4. QED
  BY <1>2, <1>3

\* Every step of the protocol keeps its invariant and the floor behind.
LEMMA NextCommitInv == CommitInv /\ [Next]_commitVars => CommitInv'
BY NextTypeOK, NextEntriesOrdered, NextPreparedForward, NextFloorBehind DEF CommitInv

-----------------------------------------------------------------------------
(***************************************************************************)
(* What a step may do to the pointer and to the stored runs.               *)
(***************************************************************************)

\* What the pointer retains only moves forward.
LEMMA OldestForward ==
  ASSUME RunTypeOK, CommitInv, [RunNext]_vars, NEW l \in Layers
  PROVE  /\ OldestOf(l) \in Nat /\ OldestOf(l)' \in Nat
         /\ OldestOf(l) <= OldestOf(l)'
         /\ OldestOf(l) <= pointer.entry[l].run
         /\ pointer.entry[l].prev # 0 => OldestOf(l) <= pointer.entry[l].prev
<1> DEFINE e == pointer.entry[l]
           f == pointer'.entry[l]
<1>1. /\ e \in Entry /\ f \in Entry /\ Ordered(f) /\ e.run <= f.run
      /\ f.run = e.run => f.prev = e.prev
      /\ f.run # e.run => f.prev = e.run
  BY RunStepIsCommitStep, StepForward DEF CommitInv
<1>2. Ordered(e)
  BY DEF CommitInv, EntriesOrdered
<1>3. e.run \in Nat /\ e.prev \in Nat /\ f.run \in Nat /\ f.prev \in Nat
  BY <1>1, MaxCycleAssumption DEF Entry, Run
<1>4. OldestOf(l) = Oldest(e) /\ OldestOf(l)' = Oldest(f)
  BY DEF OldestOf, Oldest
<1>5. QED
  BY <1>1, <1>2, <1>3, <1>4 DEF Ordered, Oldest

\* A publisher that deletes an object of a run has a confirmed commit whose floor
\* is above that run: so is what the pointer retains.
LEMMA DoomedIsSuperseded ==
  ASSUME KeptInv, NEW p \in Pubs, victim[p] # NoVictim
  PROVE  victim[p] \in Listed /\ ~Kind(job[p].layer, victim[p].run)
<1>1. pc[p] = "committed" /\ victim[p] \in Listed /\ victim[p].run < Floor(p)
  BY DEF KeptInv, DoomedOld, Staged
<1>2. Floor(p) <= OldestOf(job[p].layer)
  BY <1>1 DEF KeptInv, CommitInv, FloorBehind, OldestOf, EntryOf
<1>3. job[p] \in Job /\ found[p] \in Run /\ pointer \in Doc
  BY DEF KeptInv, RunTypeOK, TypeOK
<1>4. Floor(p) \in Nat /\ OldestOf(job[p].layer) \in Nat /\ victim[p].run \in Nat
  BY <1>1, <1>3, MaxCycleAssumption
  DEF Floor, OldestOf, Oldest, Job, Cycle, Run, Doc, Entry, Listed
<1>5. QED
  BY <1>1, <1>2, <1>4 DEF Kind

\* Objects of retained runs only accumulate.
LEMMA KeptRunsGrow ==
  ASSUME KeptInv, [RunNext]_vars, NEW l \in Layers, NEW c \in Cycle, Kind(l, c)
  PROVE  /\ tiles[l][c] \subseteq tiles'[l][c]
         /\ Complete(l, c) => Complete(l, c)'
<1> USE DEF KeptInv, RunTypeOK
<1>1. \A p \in Pubs : job[p].layer \in Layers /\ job[p].run \in Cycle /\ job[p].stamp \in Stamps
  BY DEF TypeOK, Job
<1>2. ASSUME NEW p \in Pubs, PutTile(p)
      PROVE  tiles[l][c] \subseteq tiles'[l][c] /\ manifest' = manifest
  <2>1. \/ tiles' = tiles
        \/ tiles' = [tiles EXCEPT ![job[p].layer][job[p].run] = @ \cup {sent[p] + 1}]
    BY <1>2 DEF PutTile
  <2>2. manifest' = manifest
    BY <1>2 DEF PutTile
  <2>3. tiles[l][c] \subseteq tiles'[l][c]
    BY <1>1, <2>1
  <2>4. QED
    BY <2>2, <2>3
<1>3. ASSUME NEW p \in Pubs, PutManifest(p)
      PROVE  tiles' = tiles /\ (Complete(l, c) => Complete(l, c)')
  <2>1. \/ manifest' = manifest
        \/ manifest' = [manifest EXCEPT ![job[p].layer][job[p].run] = job[p].stamp]
    BY <1>3 DEF PutManifest
  <2>2. manifest'[l][c] = manifest[l][c] \/ manifest'[l][c] = job[p].stamp
    BY <1>1, <2>1
  <2>3. tiles' = tiles
    BY <1>3 DEF PutManifest
  <2>4. job[p].stamp # NoStamp
    BY <1>1, StampAssumption
  <2>5. QED
    BY <2>2, <2>3, <2>4 DEF Complete
<1>4. ASSUME NEW p \in Pubs, NEW t \in Tiles, DeleteTile(p, t)
      PROVE  tiles[l][c] \subseteq tiles'[l][c] /\ manifest' = manifest
  <2>1. victim[p] # NoVictim
    BY <1>4 DEF DeleteTile, NoVictim
  <2>2. victim[p] \in Listed /\ ~Kind(job[p].layer, victim[p].run)
    BY <2>1, DoomedIsSuperseded
  <2>3. tiles'[l][c] = tiles[l][c]
    BY <1>1, <1>4, <2>2 DEF DeleteTile, Listed
  <2>4. QED
    BY <1>4, <2>3 DEF DeleteTile
<1>5. ASSUME NEW p \in Pubs, DeleteManifest(p)
      PROVE  tiles' = tiles /\ (Complete(l, c) => Complete(l, c)')
  <2>1. victim[p] \in Listed /\ ~Kind(job[p].layer, victim[p].run)
    BY <1>5, DoomedIsSuperseded DEF DeleteManifest
  <2>2. manifest'[l][c] = manifest[l][c]
    BY <1>1, <1>5, <2>1 DEF DeleteManifest, Listed
  <2>3. QED
    BY <1>5, <2>2 DEF DeleteManifest, Complete
<1>6. ASSUME NEW p \in Pubs,
             \/ Admit(p) \/ Probe(p) \/ Verify(p) \/ Commit(p) \/ Die(p)
             \/ List(p) \/ Consider(p) \/ PutStatus(p) \/ Leave(p)
      PROVE  UNCHANGED runVars
  BY <1>6 DEF Admit, Probe, Verify, Commit, Die, List, Consider, PutStatus, Leave
<1>7. CASE Delayed \/ UNCHANGED vars
  BY <1>7 DEF Delayed, vars, runVars, Complete
<1>8. QED
  BY <1>2, <1>3, <1>4, <1>5, <1>6, <1>7 DEF RunNext, PubStep, runVars, Complete

\* A run that is kept stays whole: what is deleted is older than all that is retained.
LEMMA WholeStays ==
  ASSUME KeptInv, [RunNext]_vars, NEW l \in Layers, NEW c \in Cycle, WholeIfKept(l, c)
  PROVE  WholeIfKept(l, c)'
<1> SUFFICES ASSUME Kind(l, c)' PROVE Whole(l, c)'
  BY DEF WholeIfKept
<1>1. Kind(l, c)
  <2>1. c \in Nat
    BY MaxCycleAssumption DEF Cycle
  <2>2. QED
    BY <2>1, OldestForward DEF KeptInv, Kind
<1>2. tiles'[l][c] \subseteq Tiles
  BY RunNextTypeOK DEF KeptInv, RunTypeOK
<1>3. QED
  BY <1>1, <1>2, KeptRunsGrow DEF WholeIfKept, Whole

\* Who may have the entry of j written: a call that is committing, or a delayed write.
Commits(j) ==
  \/ \E p \in Pubs : job[p] = j /\ stage[p] = "commit" /\ Underway(p)
  \/ \E r \in pending : r.job = j

\* Every change of the pointer names a run that is whole, and touches no run.
LEMMA AdvanceIsWhole ==
  ASSUME KeptInv, [RunNext]_vars
  PROVE  \/ pointer' = pointer
         \/ \E j \in Job : /\ Advance(j) /\ Whole(j.layer, j.run) /\ UNCHANGED runVars
                           /\ Commits(j)
<1> USE DEF KeptInv, RunTypeOK
<1>1. ASSUME NEW j \in Job, Advance(j), WholeIfKept(j.layer, j.run)
      PROVE  Whole(j.layer, j.run)
  <2>1. j.layer \in Layers /\ j.run \in Nat
    BY MaxCycleAssumption DEF Job, Cycle
  <2>2. OldestOf(j.layer) <= pointer.entry[j.layer].run /\ OldestOf(j.layer) \in Nat
    BY <2>1, OldestForward
  <2>3. pointer.entry[j.layer].run \in Nat /\ pointer.entry[j.layer].run <= j.run
    BY <1>1, <2>1, MaxCycleAssumption DEF Advance, TypeOK, Doc, Entry, Run
  <2>4. QED
    BY <1>1, <2>1, <2>2, <2>3 DEF WholeIfKept, Kind
<1>2. ASSUME NEW p \in Pubs, Commit(p), PutApplied(p)
      PROVE  /\ Advance(job[p]) /\ Whole(job[p].layer, job[p].run) /\ UNCHANGED runVars
             /\ Commits(job[p])
  <2>1. job[p] \in Job /\ Advance(job[p])
    BY <1>2 DEF TypeOK, PutApplied, Unchanged, CommitInv, PreparedForward, Advance
  <2>2. WholeIfKept(job[p].layer, job[p].run)
    BY <1>2 DEF Commit, PutApplied, UploadsKept, Underway, Ended
  <2>3. Commits(job[p])
    BY <1>2 DEF Commit, PutApplied, Underway, Ended, Commits
  <2>4. QED
    BY <1>1, <1>2, <2>1, <2>2, <2>3 DEF Commit
<1>3. ASSUME NEW r \in pending, Land(r), Delayed
      PROVE  /\ r.job \in Job /\ Advance(r.job) /\ Whole(r.job.layer, r.job.run)
             /\ UNCHANGED runVars /\ Commits(r.job)
  <2>1. r.job \in Job /\ Advance(r.job)
    BY <1>3 DEF TypeOK, Request, Land, Unchanged, CommitInv, PreparedForward, Advance
  <2>2. WholeIfKept(r.job.layer, r.job.run)
    BY DEF PendingKept
  <2>3. QED
    BY <1>1, <1>3, <2>1, <2>2 DEF Delayed, Commits
<1>4. ASSUME NEW p \in Pubs, Commit(p)
      PROVE  pointer' = pointer \/ PutApplied(p)
  BY <1>4 DEF Commit, CommitStep, ReadRecovered, ReadStale, ReadPrepare, PutRefused,
              PutUnknown, SettleFound, SettleLost
<1>5. ASSUME NEW p \in Pubs, PubStep(p) \/ Die(p)
      PROVE  pointer' = pointer \/ (Commit(p) /\ PutApplied(p))
  <2>1. CASE Commit(p)
    BY <1>4, <2>1
  <2>2. CASE Verify(p) \/ Die(p)
    BY <2>2 DEF Verify, Begin, Die, Crash, commitVars
  <2>3. CASE \/ Admit(p) \/ Probe(p) \/ PutManifest(p) \/ List(p) \/ Consider(p)
             \/ DeleteManifest(p) \/ PutStatus(p) \/ Leave(p)
    BY <2>3 DEF Admit, Probe, PutManifest, List, Consider, DeleteManifest, PutStatus, Leave,
       commitVars
  <2>4. ASSUME PutTile(p) \/ \E t \in Tiles : DeleteTile(p, t)
        PROVE  pointer' = pointer
    BY <2>4 DEF PutTile, DeleteTile, commitVars
  <2>5. QED
    BY <1>5, <2>1, <2>2, <2>3, <2>4 DEF PubStep
<1>6. CASE Delayed
  <2>1. PICK r \in pending : Land(r) \/ Drop(r)
    BY <1>6 DEF Delayed, StoreStep
  <2>2. CASE Drop(r)
    BY <2>2 DEF Drop
  <2>3. QED
    BY <1>3, <1>6, <2>1, <2>2
<1>7. CASE UNCHANGED vars
  BY <1>7 DEF vars, commitVars
<1>8. \A p \in Pubs : job[p] \in Job
  BY DEF TypeOK
<1>9. QED
  BY <1>2, <1>5, <1>6, <1>7, <1>8 DEF RunNext

\* A run becomes complete only by the manifest of a publisher that has every tile.
LEMMA NewlyComplete ==
  ASSUME RunTypeOK, [RunNext]_vars, NEW l \in Layers, NEW c \in Cycle,
         ~Complete(l, c), Complete(l, c)'
  PROVE  \E p \in Pubs : /\ job[p].layer = l /\ job[p].run = c /\ Underway(p)
                         /\ sent[p] = NTiles /\ UNCHANGED tiles
<1> USE DEF RunTypeOK
<1>1. \A p \in Pubs : job[p].layer \in Layers /\ job[p].run \in Cycle
  BY DEF TypeOK, Job
<1>2. ASSUME NEW p \in Pubs, PutManifest(p)
      PROVE  /\ job[p].layer = l /\ job[p].run = c /\ Underway(p)
             /\ sent[p] = NTiles /\ UNCHANGED tiles
  BY <1>1, <1>2 DEF PutManifest, AllSent, Complete, Underway, Ended
<1>3. ASSUME NEW p \in Pubs, DeleteManifest(p)
      PROVE  FALSE
  <2>1. \/ manifest'[l][c] = manifest[l][c]
        \/ manifest'[l][c] = NoStamp
    BY <1>1, <1>3 DEF DeleteManifest
  <2>2. QED
    BY <2>1 DEF Complete
<1>4. ASSUME NEW p \in Pubs, PutTile(p) \/ \E t \in Tiles : DeleteTile(p, t)
      PROVE  FALSE
  BY <1>4 DEF PutTile, DeleteTile, Complete
<1>5. ASSUME NEW p \in Pubs,
             \/ Admit(p) \/ Probe(p) \/ Verify(p) \/ Commit(p) \/ Die(p)
             \/ List(p) \/ Consider(p) \/ PutStatus(p) \/ Leave(p)
      PROVE  FALSE
  BY <1>5 DEF Admit, Probe, Verify, Commit, Die, List, Consider, PutStatus, Leave, runVars, Complete
<1>6. CASE Delayed \/ UNCHANGED vars
  BY <1>6 DEF Delayed, vars, runVars, Complete
<1>7. QED
  BY <1>2, <1>3, <1>4, <1>5, <1>6 DEF RunNext, PubStep

-----------------------------------------------------------------------------
(***************************************************************************)
(* The conjuncts of the invariant, one by one.                             *)
(***************************************************************************)
LEMMA NextStaged == KeptInv /\ [RunNext]_vars => Staged'
<1> SUFFICES ASSUME KeptInv, [RunNext]_vars PROVE Staged'
  OBVIOUS
<1> USE DEF KeptInv, RunTypeOK, TypeOK, Staged, Live
<1>1. ASSUME NEW p \in Pubs, Admit(p) \/ Probe(p) \/ PutManifest(p)
      PROVE  Staged'
  <2>1. /\ pc' = pc /\ pc[p] = "ready"
        /\ \/ stage' = stage
           \/ \E s \in {"probe", "upload", "verify", "refused"} :
                stage' = [stage EXCEPT ![p] = s]
    BY <1>1 DEF Admit, Probe, PutManifest, Goto, commitVars
  <2>2. QED
    BY <2>1
<1>2. ASSUME NEW p \in Pubs, PutTile(p)
      PROVE  Staged'
  <2>1. /\ pc' = pc /\ pc[p] = "ready"
        /\ \/ stage' = stage
           \/ stage' = [stage EXCEPT ![p] = "refused"]
    BY <1>2 DEF PutTile, Goto, commitVars
  <2>2. QED
    BY <2>1
<1>3. ASSUME NEW p \in Pubs, Verify(p)
      PROVE  Staged'
  <2>1. CASE Goto(p, "commit") /\ Begin(p)
    BY <2>1 DEF Goto, Begin
  <2>2. CASE Goto(p, "refused") /\ UNCHANGED commitVars
    BY <1>3, <2>2 DEF Goto, Verify, commitVars
  <2>3. QED
    BY <1>3, <2>1, <2>2 DEF Verify
<1>4. ASSUME NEW p \in Pubs, Commit(p)
      PROVE  Staged'
  <2>1. /\ stage[p] = "commit" /\ stage' = stage
        /\ \E s \in Live \cup Ended : pc' = [pc EXCEPT ![p] = s]
    BY <1>4 DEF Commit, CommitStep, ReadRecovered, ReadStale, ReadPrepare, PutApplied, PutRefused,
                PutUnknown, SettleFound, SettleLost, Finish, Retry, Ended, stepVars
  <2>2. QED
    BY <2>1
<1>5. ASSUME NEW p \in Pubs, Die(p)
      PROVE  Staged'
  BY <1>5 DEF Die, Crash, Finish, stepVars
<1>6. ASSUME NEW p \in Pubs, List(p) \/ PutStatus(p) \/ Leave(p)
      PROVE  Staged'
  BY <1>6 DEF List, PutStatus, Leave, Goto, commitVars
<1>7. ASSUME NEW p \in Pubs, Consider(p) \/ DeleteManifest(p) \/ \E t \in Tiles : DeleteTile(p, t)
      PROVE  Staged'
  BY <1>7 DEF Consider, DeleteManifest, DeleteTile, commitVars
<1>8. CASE Delayed \/ UNCHANGED vars
  BY <1>8 DEF Delayed, StoreStep, Land, Drop, vars, commitVars, stepVars
<1>9. QED
  BY <1>1, <1>2, <1>3, <1>4, <1>5, <1>6, <1>7, <1>8 DEF RunNext, PubStep

\* Jobs are chosen once.
LEMMA JobStays == [RunNext]_vars => job' = job
<1> SUFFICES ASSUME [Next]_commitVars PROVE job' = job
  BY RunStepIsCommitStep
<1>1. QED
  BY DEF Next, Begin, CommitStep, ReadRecovered, ReadStale, ReadPrepare, PutApplied, PutRefused,
         PutUnknown, SettleFound, SettleLost, Crash, StoreStep, Land, Drop, Finish, Retry, commitVars

\* What the pointer retains now, it retained before the step.
LEMMA KindBefore ==
  ASSUME KeptInv, [RunNext]_vars, NEW l \in Layers, NEW c \in Cycle, Kind(l, c)'
  PROVE  Kind(l, c)
<1>1. c \in Nat
  BY MaxCycleAssumption DEF Cycle
<1>2. QED
  BY <1>1, OldestForward DEF KeptInv, Kind

\* A call that is over stays over.
LEMMA UnderwayBefore ==
  ASSUME KeptInv, [RunNext]_vars, NEW p \in Pubs, Underway(p)'
  PROVE  Underway(p)
<1> USE DEF KeptInv, RunTypeOK
<1>1. pc[p] \notin Ended
  BY RunStepIsCommitStep, EndedStays DEF Underway
<1>2. CASE stage[p] = "refused"
  <2>1. ASSUME NEW q \in Pubs, PubStep(q) \/ Die(q) PROVE stage'[p] = "refused"
    <3>1. CASE q = p
      BY <1>1, <1>2, <2>1, <3>1 DEF PubStep, Admit, Probe, PutTile, PutManifest, Verify, Commit,
         Die,
         List, Consider, DeleteTile, DeleteManifest, PutStatus, Leave
    <3>2. CASE q # p
      BY <1>2, <2>1, <3>2 DEF PubStep, Admit, Probe, PutTile, PutManifest, Verify, Commit, Die,
         List, Consider, DeleteTile, DeleteManifest, PutStatus, Leave, Goto, stepVars
    <3>3. QED
      BY <3>1, <3>2
  <2>2. Delayed \/ UNCHANGED vars => stage' = stage
    BY DEF Delayed, vars, stepVars
  <2>3. QED
    BY <1>2, <2>1, <2>2 DEF RunNext, Underway
<1>3. QED
  BY <1>1, <1>2 DEF Underway

\* A call is through with its upload by putting its manifest.
LEMMA NewlySent ==
  ASSUME RunTypeOK, [RunNext]_vars, NEW p \in Pubs,
         stage'[p] \in {"verify", "commit"}, stage[p] \notin {"verify", "commit"}
  PROVE  PutManifest(p) /\ manifest'[job[p].layer][job[p].run] = job[p].stamp
<1> USE DEF RunTypeOK
<1>1. job[p].layer \in Layers /\ job[p].run \in Cycle
  BY DEF TypeOK, Job
<1>2. ASSUME NEW q \in Pubs, PubStep(q) \/ Die(q)
      PROVE  PutManifest(p) /\ manifest'[job[p].layer][job[p].run] = job[p].stamp
  <2>1. CASE PutManifest(q)
    <3>1. q = p
      BY <2>1 DEF PutManifest, Goto
    <3>2. manifest' = [manifest EXCEPT ![job[p].layer][job[p].run] = job[p].stamp]
      BY <2>1, <3>1 DEF PutManifest, Goto
    <3>3. QED
      BY <1>1, <2>1, <3>1, <3>2
  <2>2. CASE Admit(q) \/ Probe(q) \/ Verify(q) \/ Commit(q) \/ Die(q)
    BY <2>2 DEF Admit, Probe, Verify, Commit, Die, Goto, stepVars
  <2>3. CASE List(q) \/ Consider(q) \/ DeleteManifest(q) \/ PutStatus(q) \/ Leave(q)
    BY <2>3 DEF List, Consider, DeleteManifest, PutStatus, Leave, Goto
  <2>4. ASSUME PutTile(q) \/ \E t \in Tiles : DeleteTile(q, t)
        PROVE  FALSE
    BY <2>4 DEF PutTile, DeleteTile, Goto
  <2>5. QED
    BY <1>2, <2>1, <2>2, <2>3, <2>4 DEF PubStep
<1>3. CASE Delayed \/ UNCHANGED vars
  BY <1>3 DEF Delayed, vars, stepVars
<1>4. QED
  BY <1>2, <1>3 DEF RunNext

\* No step deletes a tile that a publisher of a kept run has uploaded.
LEMMA NextUploadsKept == KeptInv /\ [RunNext]_vars => UploadsKept'
<1> SUFFICES ASSUME KeptInv, [RunNext]_vars, NEW p \in Pubs, NEW l \in Layers, NEW c \in Cycle,
                    l = job[p].layer, c = job[p].run, Underway(p)'
             PROVE  /\ Kind(l, c)' => 1..sent'[p] \subseteq tiles'[l][c]
                    /\ stage'[p] \in {"verify", "commit"} => WholeIfKept(l, c)'
  <2>1. KeptInv => \A p \in Pubs : job[p].layer \in Layers /\ job[p].run \in Cycle
    BY DEF KeptInv, RunTypeOK, TypeOK, Job
  <2>2. QED
    BY <2>1, JobStays DEF UploadsKept, Kind, WholeIfKept, OldestOf, Oldest, Whole, Complete
<1> USE DEF KeptInv, RunTypeOK
<1>1. job[p].stamp \in Stamps /\ Underway(p)
  BY UnderwayBefore DEF TypeOK, Job
<1>2. sent'[p] = sent[p] \/ (sent'[p] = sent[p] + 1 /\ sent'[p] \in tiles'[l][c])
  <2>1. ASSUME NEW q \in Pubs, PutTile(q)
        PROVE  sent'[p] = sent[p] \/ (sent'[p] = sent[p] + 1 /\ sent'[p] \in tiles'[l][c])
    <3>1. CASE /\ tiles' = [tiles EXCEPT ![job[q].layer][job[q].run] = @ \cup {sent[q] + 1}]
               /\ sent' = [sent EXCEPT ![q] = sent[q] + 1]
      <4>1. CASE q = p
        BY <1>1, <3>1, <4>1
      <4>2. CASE q # p
        BY <3>1, <4>2
      <4>3. QED
        BY <4>1, <4>2
    <3>2. QED
      BY <2>1, <3>1 DEF PutTile
  <2>2. ASSUME NEW q \in Pubs, ~PutTile(q), PubStep(q) \/ Die(q)
        PROVE  sent' = sent
    BY <2>2 DEF PubStep, Admit, Probe, PutManifest, Verify, Commit, Die, List, Consider,
                DeleteTile, DeleteManifest, PutStatus, Leave, stepVars
  <2>3. CASE Delayed \/ UNCHANGED vars
    BY <2>3 DEF Delayed, vars, stepVars
  <2>4. QED
    BY <2>1, <2>2, <2>3 DEF RunNext
<1>3. ASSUME Kind(l, c)' PROVE 1..sent'[p] \subseteq tiles'[l][c]
  <2>1. Kind(l, c)
    BY <1>1, <1>3, KindBefore
  <2>2. 1..sent[p] \subseteq tiles[l][c] /\ tiles[l][c] \subseteq tiles'[l][c]
    BY <1>1, <2>1, KeptRunsGrow DEF UploadsKept
  <2>3. sent[p] \in Nat
    BY NTilesAssumption
  <2>4. \A i \in 1..(sent[p] + 1) : i \in 1..sent[p] \/ i = sent[p] + 1
    BY <2>3
  <2>5. CASE sent'[p] = sent[p]
    BY <2>2, <2>5
  <2>6. CASE sent'[p] = sent[p] + 1 /\ sent'[p] \in tiles'[l][c]
    BY <2>2, <2>4, <2>6
  <2>7. QED
    BY <1>2, <2>5, <2>6
<1>4. ASSUME stage'[p] \in {"verify", "commit"}, stage[p] \notin {"verify", "commit"}
      PROVE  PutManifest(p) /\ manifest'[l][c] = job[p].stamp
  BY <1>4, NewlySent
<1>5. ASSUME stage'[p] \in {"verify", "commit"} PROVE WholeIfKept(l, c)'
  <2>1. CASE stage[p] \in {"verify", "commit"}
    BY <1>1, <2>1, WholeStays DEF UploadsKept
  <2>2. CASE stage[p] \notin {"verify", "commit"}
    <3>1. sent[p] = NTiles /\ sent' = sent /\ manifest'[l][c] # NoStamp
      BY <1>1, <1>4, <1>5, <2>2, StampAssumption DEF PutManifest, AllSent
    <3>2. tiles'[l][c] \subseteq Tiles
      BY <1>1, RunNextTypeOK
    <3>3. QED
      BY <1>3, <3>1, <3>2 DEF WholeIfKept, Whole, Complete, Tiles
  <2>3. QED
    BY <2>1, <2>2
<1>6. QED
  BY <1>3, <1>5

\* A write goes on its way only out of a call that is committing.
LEMMA NewlyPending ==
  ASSUME [RunNext]_vars, NEW r \in pending', r \notin pending
  PROVE  \E p \in Pubs : Commit(p) /\ Underway(p) /\ r.job = job[p]
<1>1. ASSUME NEW p \in Pubs, Commit(p)
      PROVE  Underway(p) /\ r.job = job[p]
  BY <1>1
  DEF Underway, Ended, Commit, CommitStep, ReadRecovered, ReadStale, ReadPrepare, PutApplied,
      PutRefused, PutUnknown, SettleFound, SettleLost
<1>2. ASSUME NEW p \in Pubs, ~Commit(p), PubStep(p) \/ Die(p)
      PROVE  pending' = pending
  BY <1>2 DEF PubStep, Admit, Probe, PutTile, PutManifest, Verify, Begin, Die, Crash, List,
              Consider, DeleteTile, DeleteManifest, PutStatus, Leave, commitVars
<1>3. CASE Delayed \/ UNCHANGED vars
  BY <1>3 DEF Delayed, StoreStep, Land, Drop, vars, commitVars
<1>4. QED
  BY <1>1, <1>2, <1>3 DEF RunNext

\* A commit on its way names a run that stays whole while it is kept.
LEMMA NextPendingKept == KeptInv /\ [RunNext]_vars => PendingKept'
<1> SUFFICES ASSUME KeptInv, [RunNext]_vars, NEW r \in pending'
             PROVE  WholeIfKept(r.job.layer, r.job.run)'
  BY DEF PendingKept
<1> USE DEF KeptInv, RunTypeOK
<1>1. \/ r \in pending
      \/ \E p \in Pubs : Commit(p) /\ Underway(p) /\ r.job = job[p]
  BY NewlyPending
<1>2. r.job.layer \in Layers /\ r.job.run \in Cycle
  BY <1>1 DEF TypeOK, Request, Job
<1>3. WholeIfKept(r.job.layer, r.job.run)
  BY <1>1 DEF PendingKept, UploadsKept, Commit
<1>4. QED
  BY <1>2, <1>3, WholeStays

\* What retention has listed stays older than all the pointer retains.
LEMMA NextDoomedOld == KeptInv /\ [RunNext]_vars => DoomedOld'
<1> SUFFICES ASSUME KeptInv, [RunNext]_vars, NEW p \in Pubs
             PROVE  /\ plan'[p] # {} \/ victim'[p] # NoVictim => stage'[p] = "prune"
                    /\ \A v \in plan'[p] : v.run < Floor(p)'
                    /\ victim'[p] # NoVictim => victim'[p] \in Listed /\ victim'[p].run < Floor(p)'
  BY DEF DoomedOld
<1> USE DEF KeptInv, RunTypeOK, TypeOK
<1>1. ASSUME NEW q \in Pubs, Consider(q) PROVE DoomedOld'
  <2>1. PICK v \in plan[q] :
              /\ plan' = [plan EXCEPT ![q] = @ \ {v}]
              /\ victim' = [victim EXCEPT ![q] =
                              IF Referenced(job[q].layer, v.run) THEN NoVictim ELSE v]
    BY <1>1 DEF Consider
  <2>2. stage[q] = "prune" /\ v \in Listed /\ v.run < Floor(q)
    BY <1>1 DEF Consider, DoomedOld
  <2>3. UNCHANGED <<stage, job, found>>
    BY <1>1 DEF Consider, commitVars
  <2>4. QED
    BY <2>1, <2>2, <2>3 DEF DoomedOld, Floor
<1>2. ASSUME NEW q \in Pubs, List(q) PROVE DoomedOld'
  <2>1. plan' = [plan EXCEPT ![q] =
                   {[run |-> c, tiles |-> tiles[job[q].layer][c]] :
                      c \in {d \in Cycle : d < Floor(q) /\ Complete(job[q].layer, d)}}]
    BY <1>2 DEF List, Superseded
  <2>2. stage[q] = "commit" /\ UNCHANGED <<job, found, victim>>
    BY <1>2 DEF List, commitVars
  <2>3. \A v \in plan'[q] : v.run < Floor(q)
    BY <2>1
  <2>4. stage' = [stage EXCEPT ![q] = "prune"] /\ victim[q] = NoVictim
    BY <1>2, <2>2 DEF List, Goto, DoomedOld
  <2>5. QED
    BY <2>1, <2>2, <2>3, <2>4 DEF DoomedOld, Floor
<1>3. ASSUME NEW q \in Pubs, NEW t \in Tiles, DeleteTile(q, t) PROVE DoomedOld'
  <2>1. stage[q] = "prune" /\ victim[q] # NoVictim
    BY <1>3 DEF DeleteTile, NoVictim
  <2>2. [victim[q] EXCEPT !.tiles = @ \ {t}] \in Listed
    BY <2>1 DEF DoomedOld, Listed
  <2>3. victim' = [victim EXCEPT ![q] = [victim[q] EXCEPT !.tiles = @ \ {t}]]
    BY <1>3 DEF DeleteTile
  <2>4. UNCHANGED <<plan, stage, job, found>>
    BY <1>3 DEF DeleteTile, commitVars
  <2>5. victim'[q] \in Listed /\ victim'[q].run = victim[q].run
    BY <2>2, <2>3
  <2>6. \A o \in Pubs : o # q => victim'[o] = victim[o]
    BY <2>3
  <2>7. QED
    BY <2>1, <2>4, <2>5, <2>6 DEF DoomedOld, Floor
<1>4. ASSUME NEW q \in Pubs, DeleteManifest(q) \/ PutStatus(q) \/ Leave(q) PROVE DoomedOld'
  BY <1>4 DEF DeleteManifest, PutStatus, Leave, Goto, DoomedOld, Floor, commitVars
<1>5. ASSUME NEW q \in Pubs, Commit(q) \/ Die(q) PROVE DoomedOld'
  <2>1. UNCHANGED <<plan, victim, stage, job>> /\ \A o \in Pubs : o # q => found'[o] = found[o]
    BY <1>5 DEF Commit, Die, Crash, CommitStep, ReadRecovered, ReadStale, ReadPrepare, PutApplied,
                PutRefused, PutUnknown, SettleFound, SettleLost, Finish, Retry, stepVars
  <2>2. stage[q] # "prune"
    BY <1>5 DEF Commit, Die, Crash, Staged, Live
  <2>3. QED
    BY <2>1, <2>2 DEF DoomedOld, Floor
<1>6. ASSUME NEW q \in Pubs,
             \/ Admit(q) \/ Probe(q) \/ PutManifest(q) \/ Verify(q) \/ PutTile(q)
      PROVE  DoomedOld'
  <2>1. UNCHANGED <<plan, victim, job, found>> /\ \A o \in Pubs : o # q => stage'[o] = stage[o]
    BY <1>6 DEF Admit, Probe, PutManifest, Verify, Begin, PutTile, Goto, commitVars
  <2>2. stage[q] # "prune"
    BY <1>6 DEF Admit, Probe, PutManifest, Verify, PutTile
  <2>3. QED
    BY <2>1, <2>2 DEF DoomedOld, Floor
<1>7. CASE Delayed \/ UNCHANGED vars
  BY <1>7 DEF Delayed, StoreStep, Land, Drop, vars, commitVars, stepVars, DoomedOld, Floor
<1>8. QED
  BY <1>1, <1>2, <1>3, <1>4, <1>5, <1>6, <1>7 DEF RunNext, PubStep, DoomedOld

\* A commit names a whole run, and named runs stay whole.
LEMMA NextRefIntegrity == KeptInv /\ [RunNext]_vars => RefIntegrity'
<1> SUFFICES ASSUME KeptInv, [RunNext]_vars, NEW l \in Layers, NEW c \in Cycle, Referenced(l, c)'
             PROVE  Whole(l, c)'
  BY DEF RefIntegrity
<1> USE DEF KeptInv, RunTypeOK
<1>1. c \in Nat /\ c # 0
  BY MaxCycleAssumption DEF Cycle
<1>2. ASSUME Referenced(l, c), UNCHANGED pointer PROVE Whole(l, c)'
  <2>1. Whole(l, c)
    BY <1>2 DEF RefIntegrity
  <2>2. Kind(l, c)
    <3>1. c = pointer.entry[l].run \/ c = pointer.entry[l].prev
      BY <1>2 DEF Referenced
    <3>2. OldestOf(l) <= c
      BY <1>1, <3>1, OldestForward
    <3>3. OldestOf(l) \in Nat
      BY OldestForward
    <3>4. QED
      BY <1>1, <3>2, <3>3 DEF Kind
  <2>3. tiles'[l][c] \subseteq Tiles
    BY RunNextTypeOK
  <2>4. QED
    BY <2>1, <2>2, <2>3, KeptRunsGrow DEF Whole
<1>3. ASSUME NEW j \in Job, Advance(j), Whole(j.layer, j.run), UNCHANGED runVars
      PROVE  Whole(l, c)'
  <2>1. pointer \in Doc /\ j.layer \in Layers
    BY DEF TypeOK, Job
  <2>2. /\ pointer'.entry[j.layer] = NewEntry(pointer.entry[j.layer], j)
        /\ l # j.layer => pointer'.entry[l] = pointer.entry[l]
    BY <1>3, <2>1, NewDocType DEF Advance
  <2>3. Referenced(l, c) \/ (l = j.layer /\ c = j.run)
    BY <2>2 DEF Referenced, NewEntry, Previous
  <2>4. Whole(l, c)
    BY <1>3, <2>3 DEF RefIntegrity
  <2>5. QED
    BY <1>3, <2>4 DEF Whole, Complete, runVars
<1>4. QED
  BY <1>2, <1>3, AdvanceIsWhole DEF Referenced

\* A manifest is stored after its tiles, and only superseded runs lose any.
LEMMA NextCompleteIsWhole == RunInv /\ [RunNext]_vars => CompleteIsWhole'
<1> SUFFICES ASSUME RunInv, [RunNext]_vars, NEW l \in Layers, NEW c \in Cycle,
                    Complete(l, c)', Kind(l, c)'
             PROVE  tiles'[l][c] = Tiles
  BY DEF CompleteIsWhole, Kind
<1> USE DEF RunInv, KeptInv, RunTypeOK
<1>1. Kind(l, c)
  BY KindBefore
<1>2. tiles'[l][c] \subseteq Tiles
  BY RunNextTypeOK
<1>3. CASE Complete(l, c)
  BY <1>1, <1>2, <1>3, KeptRunsGrow DEF CompleteIsWhole, Kind
<1>4. CASE ~Complete(l, c)
  <2>1. PICK p \in Pubs : /\ job[p].layer = l /\ job[p].run = c /\ Underway(p)
                          /\ sent[p] = NTiles /\ UNCHANGED tiles
    BY <1>4, NewlyComplete
  <2>2. QED
    BY <1>1, <1>2, <2>1 DEF UploadsKept, Tiles
<1>5. QED
  BY <1>3, <1>4

-----------------------------------------------------------------------------
\* A status names what its job has committed, and no step takes the pointer behind it.
LEMMA NextStatusBehind ==
  RunInv /\ NoLostCommit /\ StatusBehind /\ [RunNext]_vars => StatusBehind'
<1> SUFFICES ASSUME RunInv, NoLostCommit, StatusBehind, [RunNext]_vars, NEW l \in Layers
             PROVE  status'[l] <= pointer'.entry[l].run
  BY DEF StatusBehind
<1> USE DEF RunInv, KeptInv, RunTypeOK
<1>1. /\ pointer'.entry[l].run \in Nat /\ pointer.entry[l].run \in Nat /\ status[l] \in Nat
      /\ pointer.entry[l].run <= pointer'.entry[l].run
  <2>1. pointer \in Doc /\ pointer' \in Doc
    BY RunNextTypeOK DEF TypeOK
  <2>2. QED
    BY <2>1, RunStepIsCommitStep, StepForward, MaxCycleAssumption DEF Doc, Entry, Run, CommitInv
<1>2. ASSUME NEW p \in Pubs, PutStatus(p), status'[l] # status[l]
      PROVE  status'[l] <= pointer.entry[l].run
  <2>1. pc[p] = "committed" /\ job[p].layer = l /\ status'[l] = job[p].run
    BY <1>2 DEF PutStatus, Staged
  <2>2. job[p].run <= EntryOf(p).run
    BY <2>1, MaxCycleAssumption DEF NoLostCommit, TypeOK, Job, Cycle, EntryOf
  <2>3. QED
    BY <2>1, <2>2 DEF EntryOf
<1>3. ASSUME NEW p \in Pubs, ~PutStatus(p), PubStep(p) \/ Die(p)
      PROVE  status' = status
  BY <1>3 DEF PubStep, Admit, Probe, PutTile, PutManifest, Verify, Commit, Die, List, Consider,
              DeleteTile, DeleteManifest, Leave, stepVars
<1>4. Delayed \/ UNCHANGED vars => status' = status
  BY DEF Delayed, vars, stepVars
<1>5. status'[l] = status[l] \/ status'[l] <= pointer.entry[l].run
  BY <1>2, <1>3, <1>4 DEF RunNext
<1>6. status'[l] \in Nat
  BY RunNextTypeOK, MaxCycleAssumption DEF Run
<1>7. QED
  BY <1>1, <1>5, <1>6 DEF StatusBehind

(***************************************************************************)
(* The theorems.                                                           *)
(***************************************************************************)
LEMMA InitRunInv == RunInit => RunInv
<1> SUFFICES ASSUME RunInit PROVE RunInv
  OBVIOUS
<1>1. RunTypeOK /\ CommitInv
  BY RunInitTypeOK, InitIInv, IInvCommits DEF RunInit, IInv, CommitInv
<1>2. Staged
  BY DEF RunInit, Init, Staged, Live
<1>3. UploadsKept
  BY <1>1, NTilesAssumption DEF RunInit, RunTypeOK, UploadsKept
<1>4. PendingKept /\ DoomedOld
  BY DEF RunInit, Init, PendingKept, DoomedOld
<1>5. RefIntegrity
  BY MaxCycleAssumption DEF RunInit, Init, NoDoc, NoEntry, RefIntegrity, Referenced, Cycle
<1>6. CompleteIsWhole
  BY DEF RunInit, CompleteIsWhole, Complete
<1>7. QED
  BY <1>1, <1>2, <1>3, <1>4, <1>5, <1>6 DEF RunInv, KeptInv

\* Every step keeps what is known of kept runs.
LEMMA NextKeptInv == KeptInv /\ [RunNext]_vars => KeptInv'
BY RunNextTypeOK, NextCommitInv, RunStepIsCommitStep, NextStaged, NextUploadsKept, NextPendingKept,
   NextDoomedOld, NextRefIntegrity DEF KeptInv

\* Every step of a publication keeps the inductive invariant.
LEMMA NextRunInv == RunInv /\ [RunNext]_vars => RunInv'
BY NextKeptInv, NextCompleteIsWhole DEF RunInv

\* The invariant holds of every behaviour of publish_run.
THEOREM RunInvariant == RunSpec => []RunInv
BY InitRunInv, NextRunInv, PTL DEF RunSpec

\* Every run the pointer names is complete, with every tile, whatever the order in
\* which publishers upload, commit, prune, are killed, and late writes land.
THEOREM ReferencedRunsAreWhole == RunSpec => []RefIntegrity
BY RunInvariant, PTL DEF RunInv, KeptInv

\* The status document never reports a run before the pointer names it or a newer one.
THEOREM StatusFollowsPointer == RunSpec => []StatusBehind
<1>1. RunInit => StatusBehind
  BY DEF RunInit, Init, NoDoc, NoEntry, StatusBehind
<1>2. QED
  BY <1>1, NextStatusBehind, RunInvariant, RunImplementsCommit, CommitsNeverLost, PTL DEF RunSpec

\* A manifest vouches for its tiles until its run is superseded.
THEOREM ManifestsVouch == RunSpec => []CompleteIsWhole
BY RunInvariant, PTL DEF RunInv, KeptInv

\* Retention only ever deletes objects of superseded runs, however old the listing
\* and the pointer it read.
THEOREM RetentionDeletesSuperseded == RunSpec => OnlySupersededDeleted
<1> DEFINE NothingKeptGoes == \A l \in Layers, c \in Cycle :
                     \/ ~(tiles[l][c] \subseteq tiles'[l][c])
                     \/ Complete(l, c) /\ ~Complete(l, c)'
                     => c < OldestOf(l)
<1>1. RunInv /\ [RunNext]_vars => [NothingKeptGoes]_vars
  <2> SUFFICES ASSUME RunInv, [RunNext]_vars, NEW l \in Layers, NEW c \in Cycle,
                      ~(tiles[l][c] \subseteq tiles'[l][c]) \/ (Complete(l, c) /\ ~Complete(l, c)')
               PROVE  c < OldestOf(l)
    OBVIOUS
  <2>1. ~Kind(l, c)
    BY KeptRunsGrow DEF RunInv
  <2>2. OldestOf(l) \in Nat /\ c \in Nat
    BY OldestForward, MaxCycleAssumption DEF RunInv, KeptInv, Cycle
  <2>3. QED
    BY <2>1, <2>2 DEF Kind
<1>2. QED
  BY <1>1, RunInvariant, PTL DEF RunSpec, OnlySupersededDeleted

-----------------------------------------------------------------------------
(***************************************************************************)
(* Retention leaves nothing behind: when no answer is lost and nobody is   *)
(* killed, somebody answers for every superseded run that is still there.  *)
(***************************************************************************)

\* A call on that very run that was not, or not yet, confirmed.
Unconfirmed(l, c) == \E p \in Pubs : job[p].layer = l /\ job[p].run = c /\ pc[p] # "committed"

\* A confirmed call that will still list the run, or has it before it.
WillPrune(p, c) ==
  /\ pc[p] = "committed"
  /\ \/ stage[p] = "commit" /\ c < Floor(p)
     \/ stage[p] = "prune" /\ victim[p].run = c
     \/ stage[p] = "prune" /\ \E v \in plan[p] : v.run = c

Answered(l, c) == Unconfirmed(l, c) \/ \E p \in Pubs : job[p].layer = l /\ WillPrune(p, c)

LeakInv ==
  /\ pending = {}
  /\ \A l \in Layers, c \in Cycle : Complete(l, c) /\ c < OldestOf(l) => Answered(l, c)

\* Without faults no write is on its way on its own.
LEMMA NothingOnItsWay ==
  ASSUME ~Lossy, RunTypeOK, pending = {}, [RunNext]_vars
  PROVE  pending' = {} /\ ~Delayed
<1>1. ~Delayed /\ ~StoreStep
  BY DEF Delayed, StoreStep
<1>2. [Next]_commitVars
  BY RunStepIsCommitStep
<1>3. QED
  BY <1>1, <1>2
  DEF Next, Begin, CommitStep, ReadRecovered, ReadStale, ReadPrepare, PutApplied, PutRefused,
      PutUnknown, SettleFound, SettleLost, Crash, commitVars

\* What one publisher will prune is its own affair: no other changes it.
LEMMA OthersPrune ==
  ASSUME RunTypeOK, NEW p \in Pubs, NEW q \in Pubs, p # q, PubStep(q) \/ Die(q)
  PROVE  /\ pc'[p] = pc[p] /\ stage'[p] = stage[p] /\ found'[p] = found[p]
         /\ plan'[p] = plan[p] /\ victim'[p] = victim[p]
<1> USE DEF RunTypeOK, TypeOK
<1>1. CASE Admit(q) \/ Probe(q) \/ PutManifest(q)
  BY <1>1 DEF Admit, Probe, PutManifest, Goto, commitVars
<1>2. CASE PutTile(q) \/ \E t \in Tiles : DeleteTile(q, t)
  BY <1>2 DEF PutTile, DeleteTile, Goto, commitVars
<1>3. CASE Verify(q)
  BY <1>3 DEF Verify, Begin, Goto, commitVars
<1>4. CASE Commit(q) \/ Die(q)
  BY <1>4
  DEF Commit, Die, Crash, CommitStep, ReadRecovered, ReadStale, ReadPrepare, PutApplied, PutRefused,
      PutUnknown, SettleFound, SettleLost, Finish, Retry, stepVars
<1>5. CASE List(q) \/ Consider(q) \/ DeleteManifest(q) \/ PutStatus(q) \/ Leave(q)
  BY <1>5 DEF List, Consider, DeleteManifest, PutStatus, Leave, Goto, commitVars
<1>6. QED
  BY <1>1, <1>2, <1>3, <1>4, <1>5 DEF PubStep

\* A publisher that will prune a superseded run still will, or has.
LEMMA PrunesOn ==
  ASSUME RunInv, ~Lossy, NEW p \in Pubs, NEW c \in Cycle, NEW q \in Pubs, PubStep(q) \/ Die(q),
         NEW l \in Layers, job[p].layer = l, WillPrune(p, c), Complete(l, c), c < OldestOf(l)
  PROVE  WillPrune(p, c)' \/ ~Complete(l, c)'
<1> USE DEF RunInv, KeptInv, RunTypeOK, TypeOK
<1>0. /\ job' = job /\ pc[p] = "committed" /\ c # 0
      /\ job[p].layer \in Layers /\ job[p].run \in Cycle /\ stage[p] \in {"commit", "prune"}
  BY JobStays, MaxCycleAssumption DEF RunNext, WillPrune, Job, Cycle
<1>1. CASE p # q
  BY <1>0, <1>1, OthersPrune DEF WillPrune, Floor
<1>2. CASE p = q /\ List(p)
  <2>1. c \in Superseded(p)
    BY <1>2, MaxCycleAssumption DEF List, WillPrune, Superseded
  <2>2. [run |-> c, tiles |-> tiles[job[p].layer][c]] \in plan'[p]
    BY <1>2, <2>1 DEF List
  <2>3. pc'[p] = "committed" /\ stage'[p] = "prune"
    BY <1>0, <1>2 DEF List, Goto, commitVars
  <2>4. QED
    BY <2>2, <2>3 DEF WillPrune
<1>3. CASE p = q /\ Consider(p)
  <2>1. PICK v \in plan[p] :
          /\ plan' = [plan EXCEPT ![p] = @ \ {v}]
          /\ victim' = [victim EXCEPT ![p] =
                          IF Referenced(job[p].layer, v.run) THEN NoVictim ELSE v]
    BY <1>3 DEF Consider
  <2>2. pc'[p] = "committed" /\ stage'[p] = "prune" /\ stage[p] = "prune" /\ victim[p] = NoVictim
    BY <1>0, <1>3 DEF Consider, commitVars
  <2>3. PICK w \in plan[p] : w.run = c
    BY <1>0, <2>2 DEF WillPrune, NoVictim
  <2>4. CASE w # v
    BY <2>1, <2>2, <2>3, <2>4 DEF WillPrune
  <2>5. CASE w = v
    <3>1. ~Referenced(job[p].layer, c)
      <4>1. pointer.entry[job[p].layer] \in Entry /\ Ordered(pointer.entry[job[p].layer])
        BY <1>0 DEF Doc, CommitInv, EntriesOrdered
      <4>2. QED
        BY <1>0, <4>1, MaxCycleAssumption
        DEF Referenced, OldestOf, Oldest, Ordered, Entry, Run, Cycle
    <3>2. victim'[p] = v
      BY <2>1, <2>3, <2>5, <3>1
    <3>3. QED
      BY <2>2, <2>3, <2>5, <3>2 DEF WillPrune
  <2>6. QED
    BY <2>4, <2>5
<1>4. ASSUME p = q, NEW t \in Tiles, DeleteTile(p, t) PROVE WillPrune(p, c)'
  <2>1. /\ stage[p] = "prune" /\ UNCHANGED <<pc, stage, plan>>
        /\ victim' = [victim EXCEPT ![p] = [victim[p] EXCEPT !.tiles = @ \ {t}]]
    BY <1>4 DEF DeleteTile, commitVars
  <2>2. victim'[p].run = victim[p].run
    BY <2>1
  <2>3. QED
    BY <2>1, <2>2 DEF WillPrune
<1>5. CASE p = q /\ DeleteManifest(p)
  <2>1. /\ UNCHANGED <<pc, stage, plan>> /\ stage[p] = "prune"
        /\ manifest' = [manifest EXCEPT ![job[p].layer][victim[p].run] = NoStamp]
    BY <1>5 DEF DeleteManifest, commitVars
  <2>2. CASE victim[p].run = c
    <3>1. manifest'[job[p].layer][c] = NoStamp
      BY <1>0, <2>1, <2>2
    <3>2. QED
      BY <1>0, <3>1 DEF Complete
  <2>3. CASE victim[p].run # c
    BY <2>1, <2>3 DEF WillPrune
  <2>4. QED
    BY <2>2, <2>3
<1>6. CASE p = q /\ PutStatus(p)
  BY <1>0, <1>6 DEF PutStatus, WillPrune, NoVictim
<1>7. CASE p = q /\ (Leave(p) \/ Die(p))
  BY <1>7 DEF Leave, Die, Crash
<1>8. CASE p = q /\ Commit(p)
  BY <1>0, <1>8 DEF Commit, CommitStep, ReadRecovered, ReadStale, ReadPrepare, PutApplied,
                    PutRefused, PutUnknown, SettleFound, SettleLost
<1>9. CASE p = q /\ (Admit(p) \/ Probe(p) \/ PutTile(p) \/ PutManifest(p) \/ Verify(p))
  BY <1>0, <1>9 DEF Admit, Probe, PutTile, PutManifest, Verify
<1>10. QED
  BY <1>1, <1>2, <1>3, <1>4, <1>5, <1>6, <1>7, <1>8, <1>9 DEF PubStep

\* A manifest that appears is of a call that is not confirmed yet.
LEMMA NewManifest ==
  ASSUME RunTypeOK, [RunNext]_vars, NEW l \in Layers, NEW c \in Cycle,
         ~Complete(l, c), Complete(l, c)'
  PROVE  Unconfirmed(l, c)'
<1>1. PICK p \in Pubs : job[p].layer = l /\ job[p].run = c /\ PutManifest(p)
  <2> USE DEF RunTypeOK
  <2>1. \A p \in Pubs : job[p].layer \in Layers /\ job[p].run \in Cycle
    BY DEF TypeOK, Job
  <2>2. ASSUME NEW p \in Pubs, PutManifest(p)
        PROVE  job[p].layer = l /\ job[p].run = c
    BY <2>1, <2>2 DEF PutManifest, Complete
  <2>3. ASSUME NEW p \in Pubs, DeleteManifest(p)
        PROVE  FALSE
    <3>1. manifest'[l][c] = manifest[l][c] \/ manifest'[l][c] = NoStamp
      BY <2>1, <2>3 DEF DeleteManifest
    <3>2. QED
      BY <3>1 DEF Complete
  <2>4. ASSUME NEW p \in Pubs, ~PutManifest(p), ~DeleteManifest(p), PubStep(p) \/ Die(p)
        PROVE  FALSE
    BY <2>4 DEF PubStep, Admit, Probe, PutTile, Verify, Commit, Die, List, Consider, DeleteTile,
                PutStatus, Leave, runVars, Complete
  <2>5. CASE Delayed \/ UNCHANGED vars
    BY <2>5 DEF Delayed, vars, runVars, Complete
  <2>6. QED
    BY <2>2, <2>3, <2>4, <2>5 DEF RunNext
<1>2. pc' = pc /\ job' = job /\ pc[p] = "ready"
  BY <1>1 DEF PutManifest, commitVars
<1>3. QED
  BY <1>1, <1>2 DEF Unconfirmed

\* What the pointer retains moves on only with the commit of a call, which is told so.
LEMMA NewFloor ==
  ASSUME RunInv, ~Delayed, [RunNext]_vars, NEW l \in Layers, NEW c \in Cycle,
         c >= OldestOf(l), c < OldestOf(l)'
  PROVE  Answered(l, c)'
<1> USE DEF RunInv, KeptInv, RunTypeOK
<1>1. PICK p \in Pubs : Commit(p) /\ PutApplied(p)
  <2>1. OldestOf(l)' # OldestOf(l)
    BY OldestForward, MaxCycleAssumption DEF Cycle
  <2>2. pointer' # pointer
    BY <2>1 DEF OldestOf
  <2>3. ASSUME NEW p \in Pubs, PubStep(p) \/ Die(p)
        PROVE  pointer' = pointer \/ (Commit(p) /\ PutApplied(p))
    BY <2>3
    DEF PubStep, Admit, Probe, PutTile, PutManifest, Verify, Begin, Commit, CommitStep,
        ReadRecovered, ReadStale, ReadPrepare, PutRefused, PutUnknown, SettleFound, SettleLost,
        Die, Crash, List, Consider, DeleteTile, DeleteManifest, PutStatus, Leave, commitVars
  <2>4. QED
    BY <2>2, <2>3 DEF RunNext, vars, commitVars
<1>2. /\ pc[p] # "committed" /\ pc'[p] = "committed" /\ stage'[p] = "commit" /\ job' = job
      /\ pointer' = NewDoc(pointer, job[p])
  BY <1>1 DEF TypeOK, PutApplied, Unchanged, Finish, Commit, stepVars
<1>3. job[p].layer = l
  <2>1. l # job[p].layer => pointer'.entry[l] = pointer.entry[l]
    BY <1>2, NewDocType DEF TypeOK
  <2>2. l # job[p].layer => OldestOf(l)' = OldestOf(l)
    BY <2>1 DEF OldestOf
  <2>3. QED
    BY <2>2, OldestForward, MaxCycleAssumption DEF Cycle
<1>4. Floor(p)' = OldestOf(l)'
  BY <1>2, <1>3, NewlyCommitted, RunStepIsCommitStep DEF EntryOf, OldestOf
<1>5. QED
  BY <1>2, <1>3, <1>4 DEF Answered, WillPrune

\* A call on a superseded run never ends confirmed.
LEMMA UnconfirmedStays ==
  ASSUME RunInv, [RunNext]_vars, NEW l \in Layers, NEW c \in Cycle, Unconfirmed(l, c), c < OldestOf(l)'
  PROVE  Unconfirmed(l, c)'
<1>1. PICK p \in Pubs : job[p].layer = l /\ job[p].run = c /\ pc[p] # "committed"
  BY DEF Unconfirmed
<1>2. job'[p] = job[p]
  BY JobStays
<1>3. ASSUME pc'[p] = "committed" PROVE FALSE
  <2>1. EntryOf(p)'.run = job'[p].run
    BY <1>1, <1>3, NewlyCommitted, RunStepIsCommitStep DEF RunInv, KeptInv, RunTypeOK
  <2>2. pointer'.entry[l].run = c
    BY <1>1, <1>2, <2>1 DEF EntryOf
  <2>3. RunInv'
    BY NextRunInv
  <2>4. pointer'.entry[l] \in Entry /\ Ordered(pointer'.entry[l])
    BY <2>3 DEF RunInv, KeptInv, RunTypeOK, TypeOK, Doc, CommitInv, EntriesOrdered
  <2>5. QED
    BY <2>2, <2>4, MaxCycleAssumption DEF OldestOf, Oldest, Ordered, Entry, Run, Cycle
<1>4. QED
  BY <1>1, <1>2, <1>3 DEF Unconfirmed

\* Every step keeps each superseded run answered for, when no answer is lost.
LEMMA NextLeakInv ==
  ASSUME ~Lossy, RunInv, LeakInv, [RunNext]_vars
  PROVE  LeakInv'
<1>0. RunTypeOK /\ pending' = {} /\ ~Delayed /\ job' = job
  BY NothingOnItsWay, JobStays DEF RunInv, KeptInv, LeakInv
<1> SUFFICES ASSUME NEW l \in Layers, NEW c \in Cycle, Complete(l, c)', c < OldestOf(l)'
             PROVE  Answered(l, c)'
  BY <1>0 DEF LeakInv
<1>1. CASE ~Complete(l, c)
  BY <1>0, <1>1, NewManifest DEF Answered
<1>2. CASE c >= OldestOf(l)
  BY <1>0, <1>2, NewFloor
<1>3. CASE Unconfirmed(l, c)
  BY <1>3, UnconfirmedStays DEF Answered
<1>4. ASSUME Complete(l, c), c < OldestOf(l), NEW p \in Pubs, job[p].layer = l, WillPrune(p, c)
      PROVE  Answered(l, c)'
  <2>1. ASSUME NEW q \in Pubs, PubStep(q) \/ Die(q)
        PROVE  WillPrune(p, c)'
    BY <1>4, <2>1, PrunesOn
  <2>2. CASE UNCHANGED vars
    <3>1. UNCHANGED <<pc, stage, plan, victim, found, job>>
      BY <2>2 DEF vars, commitVars, stepVars
    <3>2. WillPrune(p, c)'
      BY <1>4, <3>1 DEF WillPrune, Floor
    <3>3. QED
      BY <1>0, <1>4, <3>2 DEF Answered
  <2>3. QED
    BY <1>0, <1>4, <2>1, <2>2 DEF RunNext, Answered
<1>5. OldestOf(l) \in Nat /\ c \in Nat
  BY OldestForward, MaxCycleAssumption DEF RunInv, KeptInv, Cycle
<1>6. QED
  BY <1>1, <1>2, <1>3, <1>4, <1>5 DEF LeakInv, Answered

\* When no answer is lost and nobody is killed, and every call is over, a superseded run is
\* still there only if a call on that very run was refused or overtaken: apply_retention
\* has removed all the others, in whatever order the publishers listed and committed.
THEOREM NothingIsLeftBehind == ASSUME ~Lossy PROVE RunSpec => []NoLeak
<1>1. RunInit => LeakInv
  BY DEF RunInit, Init, LeakInv, Complete
<1>2. RunInv /\ LeakInv /\ [RunNext]_vars => LeakInv'
  BY NextLeakInv
<1>3. LeakInv => NoLeak
  <2> SUFFICES ASSUME LeakInv, \A p \in Pubs : Over(p), NEW l \in Layers, NEW c \in Cycle,
                      Complete(l, c), c < OldestOf(l)
               PROVE  Unconfirmed(l, c)
    BY DEF NoLeak, Unconfirmed
  <2>1. \A p \in Pubs : ~WillPrune(p, c)
    BY DEF Over, WillPrune
  <2>2. QED
    BY <2>1 DEF LeakInv, Answered
<1>4. QED
  BY <1>1, <1>2, <1>3, RunInvariant, PTL DEF RunSpec

-----------------------------------------------------------------------------
(***************************************************************************)
(* Operator commands (RegionalControl) beside the publishers.              *)
(***************************************************************************)

\* What a command of an operator does to the catalogue it has read: its layer was at the
\* expected run, and goes back to the previous one or goes; the others stay.
Undoes(o, from, to) ==
  LET l == cmd[o].layer
  IN  /\ from.entry[l].run = cmd[o].expected
      /\ \A k \in Layers : k # l => to.entry[k] = from.entry[k]
      /\ IF cmd[o].restore
           THEN /\ from.entry[l].prev # 0
                /\ to.entry[l].run = from.entry[l].prev /\ to.entry[l].prev = 0
           ELSE to.entry[l] = NoEntry

CommandsAsRead == \A o \in Ops : step[o] \in {"check", "put"} => Undoes(o, read[o], NewCatalogue(o))
LateAsRead == \A r \in late : \E o \in Ops : Undoes(o, r.base, r.doc)

CtlInv == CtlTypeOK /\ EntriesOrdered /\ PreparedForward /\ CommandsAsRead /\ LateAsRead

\* What no command touches.
besidePointer == <<pending, job, pc, attempt, base, found, runVars, stepVars>>

\* A command's new document differs from the one it read in its layer's entry.
LEMMA CatalogueTyped ==
  ASSUME CtlTypeOK, NEW o \in Ops
  PROVE  /\ NewCatalogue(o) \in Doc /\ NewCatalogue(o).entry[cmd[o].layer] = updated[o]
         /\ \A k \in Layers : k # cmd[o].layer => NewCatalogue(o).entry[k] = read[o].entry[k]
<1>1. /\ read[o] \in Doc /\ updated[o] \in Entry /\ second[o] \in Stamps \cup {NoStamp}
      /\ cmd[o].layer \in Layers
  BY OpStampAssumption DEF CtlTypeOK
<1>2. read[o].entry \in [Layers -> Entry]
  BY <1>1 DEF Doc
<1>3. [read[o].entry EXCEPT ![cmd[o].layer] = updated[o]] \in [Layers -> Entry]
  BY <1>1, <1>2
<1>4. NewCatalogue(o) \in Doc
  BY <1>1, <1>3 DEF NewCatalogue, Doc
<1>5. QED
  BY <1>1, <1>2, <1>4 DEF NewCatalogue

\* A command that ends changes nothing of the others.
LEMMA EndTyped ==
  ASSUME CtlTypeOK, NEW o \in Ops, NEW s \in Steps, End(o, s)
  PROVE  /\ step' \in [Ops -> Steps] /\ read' \in [Ops -> Doc] /\ updated' \in [Ops -> Entry]
         /\ try' \in [Ops -> 0..Attempts] /\ second' \in [Ops -> OpStamps \cup {NoStamp}]
         /\ \A k \in Ops \ {o} : step'[k] = step[k] /\ read'[k] = read[k]
                                 /\ updated'[k] = updated[k] /\ second'[k] = second[k]
         /\ step'[o] = s
<1>1. NoEntry \in Entry /\ 0 \in 0..Attempts
  BY MaxCycleAssumption, AttemptsAssumption DEF NoEntry, Entry, Run
<1>2. QED
  BY <1>1, NoDocType DEF CtlTypeOK, End

\* The steps of a command that write nothing.
Prepares(o) ==
  \/ Enter(o) \/ ReadCurrent(o) \/ ReadOther(o) \/ CheckTarget(o) \/ CheckFails(o)
  \/ PutUnsettled(o) \/ SettleDone(o) \/ SettleAgain(o)

\* A step that writes nothing leaves the publishers alone, and what it has read in order.
LEMMA PreparesKeeps ==
  ASSUME CtlInv, NEW o \in Ops, Prepares(o)
  PROVE  CtlInv' /\ UNCHANGED vars
<1>0. /\ UNCHANGED vars /\ cmd' = cmd /\ CtlTypeOK
      /\ cmd[o].layer \in Layers /\ EntryFor(o) \in Entry /\ pointer \in Doc
  BY DEF Prepares, Enter, ReadCurrent, ReadOther, CheckTarget, CheckFails, PutUnsettled, SettleDone,
         SettleAgain, CtlInv, CtlTypeOK, RunTypeOK, TypeOK, EntryFor, Doc
<1>1. RunTypeOK' /\ EntriesOrdered' /\ PreparedForward'
  <2>1. RunTypeOK'
    BY <1>0, RunNextTypeOK DEF CtlTypeOK
  <2>2. QED
    BY <1>0, <2>1 DEF CtlInv, EntriesOrdered, PreparedForward, vars, commitVars
<1>2. ASSUME CtlTypeOK', late' = late,
             \A k \in Ops \ {o} : step'[k] = step[k] /\ read'[k] = read[k]
                                  /\ updated'[k] = updated[k] /\ second'[k] = second[k],
             step'[o] \in {"check", "put"} => Undoes(o, read'[o], NewCatalogue(o)')
      PROVE  CtlInv'
  <2>1. \A k \in Ops \ {o} : NewCatalogue(k)' = NewCatalogue(k)
    BY <1>0, <1>2 DEF NewCatalogue
  <2>2. \A k \in Ops : \A a, b : Undoes(k, a, b)' = Undoes(k, a, b)
    BY <1>0 DEF Undoes
  <2>3. CommandsAsRead'
    <3>1. ASSUME NEW k \in Ops, step'[k] \in {"check", "put"}
          PROVE  Undoes(k, read'[k], NewCatalogue(k)')
      <4>1. CASE k = o
        BY <1>2, <3>1, <4>1
      <4>2. CASE k # o
        BY <1>2, <2>1, <3>1, <4>2 DEF CtlInv, CommandsAsRead
      <4>3. QED
        BY <4>1, <4>2
    <3>2. QED
      BY <1>0, <3>1 DEF CommandsAsRead, Undoes
  <2>4. LateAsRead'
    BY <1>0, <1>2 DEF CtlInv, LateAsRead, Undoes
  <2>5. QED
    BY <1>1, <1>2, <2>3, <2>4 DEF CtlInv
<1>3. CASE Enter(o)
  <2>1. 1 \in 0..Attempts /\ "read" \in Steps
    BY AttemptsAssumption DEF Steps
  <2>2. CtlTypeOK'
    BY <1>0, <1>1, <1>3, <2>1 DEF Enter, CtlTypeOK
  <2>3. QED
    BY <1>0, <1>2, <1>3, <2>2 DEF Enter, CtlTypeOK
<1>4. CASE ReadCurrent(o)
  <2>1. PICK s \in OpStamps :
          /\ second' = [second EXCEPT ![o] = s] /\ used' = used \cup {s}
          /\ updated' = [updated EXCEPT ![o] =
                           IF cmd[o].restore
                             THEN [run |-> EntryFor(o).prev, prev |-> 0, stamp |-> s]
                             ELSE NoEntry]
    BY <1>4 DEF ReadCurrent
  <2>2. /\ read' = [read EXCEPT ![o] = pointer] /\ UNCHANGED <<cmd, try, late>>
        /\ step' = [step EXCEPT ![o] = IF cmd[o].restore THEN "check" ELSE "put"]
        /\ EntryFor(o).run = cmd[o].expected
        /\ cmd[o].restore => EntryFor(o).prev # 0
    BY <1>4 DEF ReadCurrent, AsExpected
  <2>3. NoEntry \in Entry /\ [run |-> EntryFor(o).prev, prev |-> 0, stamp |-> s] \in Entry
    BY <1>0, MaxCycleAssumption, OpStampAssumption DEF NoEntry, Entry, Run
  <2>4. CtlTypeOK'
    <3>1. updated' \in [Ops -> Entry] /\ second' \in [Ops -> OpStamps \cup {NoStamp}]
      BY <1>0, <2>1, <2>3 DEF CtlTypeOK
    <3>2. read' \in [Ops -> Doc] /\ step' \in [Ops -> Steps] /\ used' \subseteq OpStamps
      BY <1>0, <2>1, <2>2 DEF CtlTypeOK, Steps
    <3>3. QED
      BY <1>0, <1>1, <2>2, <3>1, <3>2 DEF CtlTypeOK
  <2>5. /\ read'[o] = pointer
        /\ updated'[o] = IF cmd[o].restore THEN [run |-> EntryFor(o).prev, prev |-> 0, stamp |-> s]
                         ELSE NoEntry
    BY <1>0, <2>1, <2>2 DEF CtlTypeOK
  <2>6. /\ NewCatalogue(o)'.entry[cmd[o].layer] = updated'[o]
        /\ \A k \in Layers : k # cmd[o].layer => NewCatalogue(o)'.entry[k] = pointer.entry[k]
    BY <1>0, <2>2, <2>5 DEF NewCatalogue, Doc
  <2>7. Undoes(o, read'[o], NewCatalogue(o)')
    BY <2>2, <2>5, <2>6 DEF Undoes, EntryFor
  <2>8. QED
    BY <1>0, <1>2, <2>1, <2>2, <2>4, <2>7 DEF CtlTypeOK
<1>5. CASE ReadOther(o) \/ CheckFails(o) \/ SettleDone(o)
  <2>1. PICK s \in {"done", "failed"} : End(o, s) /\ UNCHANGED <<vars, cmd, used, late>>
    BY <1>5 DEF ReadOther, CheckFails, SettleDone
  <2>2. s \in Steps
    BY DEF Steps
  <2>3. CtlTypeOK'
    BY <1>0, <1>1, <2>1, <2>2, EndTyped DEF CtlTypeOK
  <2>4. QED
    BY <1>0, <1>2, <2>1, <2>2, <2>3, EndTyped
<1>6. CASE CheckTarget(o)
  <2>1. /\ step' = [step EXCEPT ![o] = "put"] /\ step[o] = "check"
        /\ UNCHANGED <<cmd, try, read, updated, second, used, late>>
    BY <1>6 DEF CheckTarget
  <2>2. CtlTypeOK'
    BY <1>0, <1>1, <2>1 DEF CtlTypeOK, Steps
  <2>3. NewCatalogue(o)' = NewCatalogue(o)
    BY <2>1 DEF NewCatalogue
  <2>4. QED
    BY <1>0, <1>2, <2>1, <2>2, <2>3 DEF CtlTypeOK, CtlInv, CommandsAsRead
<1>7. CASE PutUnsettled(o)
  <2>1. /\ step[o] = "put" /\ step' = [step EXCEPT ![o] = "settle"]
        /\ UNCHANGED <<cmd, try, read, updated, second, used>>
        /\ \/ late' = late
           \/ late' = late \cup {[base |-> read[o], doc |-> NewCatalogue(o), layer |-> cmd[o].layer]}
    BY <1>7 DEF PutUnsettled
  <2>2. CtlTypeOK'
    BY <1>0, <1>1, <2>1, CatalogueTyped DEF CtlTypeOK, Steps
  <2>3. \A k \in Ops : step'[k] \in {"check", "put"} => step'[k] = step[k]
    BY <1>0, <2>1 DEF CtlTypeOK
  <2>4. CommandsAsRead'
    BY <2>1, <2>3 DEF CtlInv, CommandsAsRead, Undoes, NewCatalogue
  <2>5. Undoes(o, read[o], NewCatalogue(o))
    BY <2>1 DEF CtlInv, CommandsAsRead
  <2>6. \A r \in late' : \E k \in Ops : Undoes(k, r.base, r.doc)
    BY <2>1, <2>5 DEF CtlInv, LateAsRead
  <2>7. LateAsRead'
    BY <2>1, <2>6 DEF LateAsRead, Undoes
  <2>8. QED
    BY <1>0, <1>1, <2>2, <2>4, <2>7 DEF CtlInv
<1>8. CASE SettleAgain(o)
  <2>1. CASE try[o] < Attempts
    <3>1. /\ step' = [step EXCEPT ![o] = "read"] /\ try' = [try EXCEPT ![o] = @ + 1]
          /\ read' = [read EXCEPT ![o] = NoDoc] /\ UNCHANGED <<updated, second, cmd, used, late>>
      BY <1>8, <2>1 DEF SettleAgain
    <3>2. try[o] + 1 \in 0..Attempts
      BY <1>0, <2>1, AttemptsAssumption DEF CtlTypeOK
    <3>3. CtlTypeOK'
      BY <1>0, <1>1, <3>1, <3>2, NoDocType DEF CtlTypeOK, Steps
    <3>4. QED
      BY <1>0, <1>2, <3>1, <3>3 DEF CtlTypeOK
  <2>2. CASE ~(try[o] < Attempts)
    <3>1. End(o, "failed") /\ UNCHANGED <<cmd, used, late>> /\ "failed" \in Steps
      BY <1>8, <2>2 DEF SettleAgain, Steps
    <3>2. CtlTypeOK'
      BY <1>0, <1>1, <3>1, EndTyped DEF CtlTypeOK
    <3>3. QED
      BY <1>0, <1>2, <3>1, <3>2, EndTyped
  <2>3. QED
    BY <2>1, <2>2
<1>9. QED
  BY <1>0, <1>3, <1>4, <1>5, <1>6, <1>7, <1>8 DEF Prepares

\* A write of a command, on time or late, changes the catalogue it has read and no other.
Writes(o) == Undoes(o, pointer, pointer') /\ pointer' \in Doc /\ UNCHANGED besidePointer /\ cmd' = cmd

\* A step of the composition is a publisher's, changes nothing of the store, or is a write.
LEMMA WriteIs ==
  ASSUME CtlInv, [CtlNext]_ctlVars
  PROVE  \/ Publishers
         \/ UNCHANGED vars
         \/ \E o \in Ops : Writes(o)
<1>1. ASSUME NEW o \in Ops, PutChange(o) PROVE Writes(o)
  <2>1. Undoes(o, read[o], NewCatalogue(o)) /\ pointer = read[o] /\ pointer' = NewCatalogue(o)
    BY <1>1 DEF PutChange, CtlInv, CommandsAsRead, Unchanged
  <2>2. UNCHANGED besidePointer /\ cmd' = cmd
    BY <1>1 DEF PutChange, besidePointer
  <2>3. NewCatalogue(o) \in Doc
    BY CatalogueTyped DEF CtlInv
  <2>4. QED
    BY <2>1, <2>2, <2>3 DEF Writes
<1>2. ASSUME NEW r \in late, LateChange(r)
      PROVE  UNCHANGED vars \/ \E o \in Ops : Writes(o)
  <2>1. PICK o \in Ops : Undoes(o, r.base, r.doc)
    BY DEF CtlInv, LateAsRead
  <2>2. UNCHANGED besidePointer /\ cmd' = cmd /\ r.doc \in Doc
    BY <1>2 DEF LateChange, besidePointer, CtlInv, CtlTypeOK
  <2>3. CASE pointer = r.base /\ pointer' = r.doc
    BY <2>1, <2>2, <2>3 DEF Writes
  <2>4. CASE UNCHANGED pointer
    BY <2>2, <2>4 DEF besidePointer, vars, commitVars
  <2>5. QED
    BY <1>2, <2>3, <2>4 DEF LateChange, Unchanged
<1>3. ASSUME NEW o \in Ops, Prepares(o) PROVE UNCHANGED vars
  BY <1>3, PreparesKeeps
<1>4. QED
  BY <1>1, <1>2, <1>3 DEF CtlNext, CommandStep, Prepares, ctlVars

\* What a command's write leaves of types and order.
LEMMA WriteTyped ==
  ASSUME CtlInv, NEW o \in Ops, Writes(o)
  PROVE  RunTypeOK' /\ EntriesOrdered' /\ PreparedForward'
<1>1. RunTypeOK /\ pointer \in Doc
  BY DEF CtlInv, CtlTypeOK, RunTypeOK, TypeOK
<1>2. UNCHANGED <<pending, job, pc, attempt, base, found, runVars, stepVars>>
  BY DEF Writes, besidePointer
<1>3. TypeOK'
  BY <1>1, <1>2 DEF RunTypeOK, TypeOK, Writes
<1>4. RunTypeOK'
  BY <1>1, <1>2, <1>3 DEF RunTypeOK, runVars, stepVars
<1>5. PreparedForward'
  BY <1>2 DEF CtlInv, PreparedForward
<1>6. EntriesOrdered'
  <2>1. ASSUME NEW l \in Layers PROVE Ordered(pointer'.entry[l])
    <3>1. pointer.entry[l] \in Entry /\ Ordered(pointer.entry[l])
      BY <1>1 DEF Doc, CtlInv, EntriesOrdered
    <3>2. pointer.entry[l].prev \in Nat
      BY <3>1, MaxCycleAssumption DEF Entry, Run
    <3>3. QED
      BY <3>1, <3>2 DEF Writes, Undoes, Ordered, NoEntry
  <2>2. QED
    BY <2>1 DEF EntriesOrdered
<1>7. QED
  BY <1>4, <1>5, <1>6

\* Every step of commands and publishers keeps the invariant.
LEMMA NextCtlInv == CtlInv /\ [CtlNext]_ctlVars => CtlInv'
<1> SUFFICES ASSUME CtlInv, [CtlNext]_ctlVars PROVE CtlInv'
  OBVIOUS
<1>1. ASSUME [RunNext]_vars, UNCHANGED opVars PROVE CtlInv'
  <2>1. RunTypeOK' /\ EntriesOrdered' /\ PreparedForward'
    BY <1>1, RunNextTypeOK, RunStepIsCommitStep, NextEntriesOrdered, NextPreparedForward
    DEF CtlInv, CtlTypeOK, RunTypeOK
  <2>2. CtlTypeOK'
    BY <1>1, <2>1 DEF CtlInv, CtlTypeOK, opVars
  <2>3. CommandsAsRead' /\ LateAsRead'
    BY <1>1 DEF CtlInv, CommandsAsRead, LateAsRead, Undoes, NewCatalogue, opVars
  <2>4. QED
    BY <2>1, <2>2, <2>3 DEF CtlInv
<1>2. ASSUME NEW o \in Ops, PutChange(o) PROVE CtlInv'
  <2>1. Writes(o)
    <3>1. Undoes(o, read[o], NewCatalogue(o)) /\ pointer = read[o] /\ pointer' = NewCatalogue(o)
      BY <1>2 DEF PutChange, CtlInv, CommandsAsRead, Unchanged
    <3>2. UNCHANGED besidePointer /\ cmd' = cmd
      BY <1>2 DEF PutChange, besidePointer
    <3>3. QED
      BY <3>1, <3>2, CatalogueTyped DEF CtlInv, Writes
  <2>2. RunTypeOK' /\ EntriesOrdered' /\ PreparedForward'
    BY <2>1, WriteTyped
  <2>3. End(o, "done") /\ UNCHANGED <<cmd, used, late>> /\ "done" \in Steps
    BY <1>2 DEF PutChange, Steps
  <2>4. /\ step' \in [Ops -> Steps] /\ read' \in [Ops -> Doc] /\ updated' \in [Ops -> Entry]
        /\ try' \in [Ops -> 0..Attempts] /\ second' \in [Ops -> OpStamps \cup {NoStamp}]
        /\ \A k \in Ops \ {o} : step'[k] = step[k] /\ read'[k] = read[k]
                                /\ updated'[k] = updated[k] /\ second'[k] = second[k]
        /\ step'[o] = "done"
    BY <2>3, EndTyped DEF CtlInv
  <2>5. CtlTypeOK'
    BY <2>2, <2>3, <2>4 DEF CtlInv, CtlTypeOK
  <2>6. LateAsRead'
    BY <2>3 DEF CtlInv, LateAsRead, Undoes
  <2>7. CommandsAsRead'
    <3>1. ASSUME NEW k \in Ops, step'[k] \in {"check", "put"}
          PROVE  Undoes(k, read[k], NewCatalogue(k)) /\ read'[k] = read[k]
                 /\ NewCatalogue(k)' = NewCatalogue(k)
      BY <2>3, <2>4, <3>1 DEF CtlInv, CommandsAsRead, NewCatalogue
    <3>2. QED
      BY <2>3, <3>1 DEF CommandsAsRead, Undoes
  <2>8. QED
    BY <2>2, <2>5, <2>6, <2>7 DEF CtlInv
<1>3. ASSUME NEW r \in late, LateChange(r) PROVE CtlInv'
  <2>1. /\ UNCHANGED <<cmd, step, try, read, updated, second, used>> /\ late' = late \ {r}
    BY <1>3 DEF LateChange
  <2>2. RunTypeOK' /\ EntriesOrdered' /\ PreparedForward'
    <3>1. CASE UNCHANGED vars
      BY <3>1, RunNextTypeOK
      DEF CtlInv, CtlTypeOK, EntriesOrdered, PreparedForward, vars, commitVars
    <3>2. CASE ~UNCHANGED vars
      <4>1. PICK o \in Ops : Undoes(o, r.base, r.doc)
        BY DEF CtlInv, LateAsRead
      <4>2. UNCHANGED besidePointer /\ cmd' = cmd /\ r.doc \in Doc
        BY <1>3 DEF LateChange, besidePointer, CtlInv, CtlTypeOK
      <4>3. pointer = r.base /\ pointer' = r.doc
        BY <1>3, <3>2, <4>2 DEF LateChange, Unchanged, besidePointer, vars, commitVars
      <4>4. QED
        BY <4>1, <4>2, <4>3, WriteTyped DEF Writes
    <3>3. QED
      BY <3>1, <3>2
  <2>3. CtlTypeOK'
    BY <2>1, <2>2 DEF CtlInv, CtlTypeOK
  <2>4. CommandsAsRead' /\ LateAsRead'
    BY <2>1 DEF CtlInv, CommandsAsRead, LateAsRead, Undoes, NewCatalogue
  <2>5. QED
    BY <2>2, <2>3, <2>4 DEF CtlInv
<1>4. ASSUME NEW o \in Ops, Prepares(o) PROVE CtlInv'
  BY <1>4, PreparesKeeps
<1>5. QED
  BY <1>1, <1>2, <1>3, <1>4 DEF CtlNext, CommandStep, Prepares, Publishers, ctlVars

\* At the start no command has read anything.
LEMMA InitCtlInv == CtlInit => CtlInv
<1> SUFFICES ASSUME CtlInit PROVE CtlInv
  OBVIOUS
<1>1. RunTypeOK /\ RunInv
  BY RunInitTypeOK, InitRunInv DEF CtlInit
<1>2. NoEntry \in Entry /\ 0 \in 0..Attempts /\ "ready" \in Steps
  BY MaxCycleAssumption, AttemptsAssumption DEF NoEntry, Entry, Run, Steps
<1>3. CtlTypeOK
  BY <1>1, <1>2, NoDocType DEF CtlInit, CtlTypeOK
<1>4. QED
  BY <1>1, <1>3 DEF CtlInit, CtlInv, RunInv, KeptInv, CommitInv, CommandsAsRead, LateAsRead

\* What a command has read, and what it is about to write, or has written late, go together:
\* the inductive invariant of publishers and commands.
THEOREM CommandInvariant == CtlSpec => []CtlInv
BY InitCtlInv, NextCtlInv, PTL DEF CtlSpec

\* A layer goes back or goes only by a command that named the run it was at: a conditional
\* write that lands after a newer publication changes nothing.
THEOREM CommandsUndoOnlyWhatTheyName == CtlSpec => UndoesOnlyExpected
<1> DEFINE Named ==
      \A l \in Layers :
        pointer'.entry[l].run < pointer.entry[l].run =>
          \E o \in Ops : cmd[o].layer = l /\ cmd[o].expected = pointer.entry[l].run
<1>1. CtlInv /\ [CtlNext]_ctlVars => [Named]_ctlVars
  <2> SUFFICES ASSUME CtlInv, [CtlNext]_ctlVars, NEW l \in Layers,
                      pointer'.entry[l].run < pointer.entry[l].run
               PROVE  \E o \in Ops : cmd[o].layer = l /\ cmd[o].expected = pointer.entry[l].run
    OBVIOUS
  <2>1. ASSUME [RunNext]_vars PROVE FALSE
    <3>1. pointer.entry[l] \in Entry /\ pointer'.entry[l] \in Entry
          /\ pointer.entry[l].run <= pointer'.entry[l].run
      BY <2>1, RunStepIsCommitStep, StepForward DEF CtlInv, CtlTypeOK, RunTypeOK
    <3>2. QED
      BY <3>1, MaxCycleAssumption DEF Entry, Run
  <2>2. PICK o \in Ops : Writes(o)
    BY <2>1, WriteIs DEF Publishers
  <2>3. CASE l = cmd[o].layer
    BY <2>2, <2>3 DEF Writes, Undoes
  <2>4. CASE l # cmd[o].layer
    <3>1. pointer'.entry[l] = pointer.entry[l]
      BY <2>2, <2>4 DEF Writes, Undoes
    <3>2. pointer.entry[l].run \in Nat
      BY MaxCycleAssumption DEF CtlInv, CtlTypeOK, RunTypeOK, TypeOK, Doc, Entry, Run
    <3>3. QED
      BY <3>1, <3>2
  <2>5. QED
    BY <2>3, <2>4
<1>2. QED
  BY <1>1, CommandInvariant, PTL DEF CtlSpec, UndoesOnlyExpected

\* Rollbacks only: a disabled layer has no floor, and is why commands of that kind are
\* entered with every writer stopped.
Rollbacks == \A o \in Ops : cmd[o].restore

\* A rollback moves the pointer back, but not what it retains: the restored run was the
\* oldest retained one and still is.
LEMMA RollbackKeeps ==
  ASSUME CtlInv, RunInv, Rollbacks, NEW o \in Ops, Writes(o)
  PROVE  RunInv'
<1>1. /\ UNCHANGED <<pending, job, pc, attempt, base, found>> /\ UNCHANGED runVars
      /\ UNCHANGED stepVars /\ RunTypeOK' /\ EntriesOrdered' /\ PreparedForward'
  BY WriteTyped DEF Writes, besidePointer
<1>2. ASSUME NEW l \in Layers
      PROVE  /\ OldestOf(l)' = OldestOf(l)
             /\ pointer'.entry[l].run \in {pointer.entry[l].run, pointer.entry[l].prev}
             /\ pointer'.entry[l].prev \in {0, pointer.entry[l].prev}
  <2>1. CASE l = cmd[o].layer
    BY <2>1 DEF Writes, Undoes, Rollbacks, OldestOf, Oldest
  <2>2. CASE l # cmd[o].layer
    BY <2>2 DEF Writes, Undoes, OldestOf, Oldest
  <2>3. QED
    BY <2>1, <2>2
<1>3. /\ \A p \in Pubs : job[p].layer \in Layers /\ job[p].run \in Cycle
      /\ \A r \in pending : r.job.layer \in Layers /\ r.job.run \in Cycle
  BY DEF RunInv, KeptInv, RunTypeOK, TypeOK, Request, Job
<1>4. FloorBehind'
  <2>1. \A p \in Pubs : Floor(p)' = Floor(p) /\ Oldest(EntryOf(p))' = Oldest(EntryOf(p))
    BY <1>1, <1>2, <1>3 DEF Floor, EntryOf, OldestOf
  <2>2. QED
    BY <1>1, <2>1 DEF RunInv, KeptInv, CommitInv, FloorBehind
<1>5. Staged'
  BY <1>1 DEF RunInv, KeptInv, Staged, stepVars
<1>6. \A l \in Layers : \A c : (Kind(l, c)' <=> Kind(l, c)) /\ (Whole(l, c)' <=> Whole(l, c))
  BY <1>1, <1>2 DEF Kind, Whole, Complete, runVars
<1>7. UploadsKept'
  BY <1>1, <1>3, <1>6 DEF RunInv, KeptInv, UploadsKept, Underway, WholeIfKept, runVars, stepVars
<1>8. PendingKept'
  BY <1>1, <1>3, <1>6 DEF RunInv, KeptInv, PendingKept, WholeIfKept
<1>9. DoomedOld'
  BY <1>1 DEF RunInv, KeptInv, DoomedOld, stepVars, Floor
<1>10. RefIntegrity'
  <2>1. ASSUME NEW l \in Layers, NEW c \in Cycle, Referenced(l, c)' PROVE Referenced(l, c)
    BY <1>2, <2>1, MaxCycleAssumption DEF Referenced, Cycle
  <2>2. QED
    BY <1>6, <2>1 DEF RunInv, KeptInv, RefIntegrity
<1>11. CompleteIsWhole'
  BY <1>1, <1>2 DEF RunInv, KeptInv, CompleteIsWhole, Complete, runVars
<1>12. QED
  BY <1>1, <1>4, <1>5, <1>7, <1>8, <1>9, <1>10, <1>11 DEF RunInv, KeptInv, CommitInv, RunTypeOK

\* Whatever rollbacks are entered, retried and land late beside publishers that upload,
\* commit, prune and are killed, the runs the pointer names are whole, the restored ones
\* too, and no publisher's floor is above what the document retains.
THEOREM RestoredRunsStay == CtlSpec /\ Rollbacks => []RestoredRunStays
<1>1. CtlInit => RunInv
  BY InitRunInv DEF CtlInit
<1>2. CtlInv /\ RunInv /\ Rollbacks /\ [CtlNext]_ctlVars => RunInv' /\ Rollbacks'
  <2> SUFFICES ASSUME CtlInv, RunInv, Rollbacks, [CtlNext]_ctlVars PROVE RunInv' /\ Rollbacks'
    OBVIOUS
  <2>1. Rollbacks'
    <3>1. cmd' = cmd
      BY DEF CtlNext, CommandStep, Publishers, Enter, ReadCurrent, ReadOther, CheckTarget,
         CheckFails,
             PutChange, PutUnsettled, SettleDone, SettleAgain, LateChange, ctlVars, opVars
    <3>2. QED
      BY <3>1 DEF Rollbacks
  <2>2. CASE [RunNext]_vars
    BY <2>1, <2>2, NextRunInv
  <2>3. ASSUME NEW o \in Ops, Writes(o) PROVE RunInv'
    BY <2>3, RollbackKeeps
  <2>4. QED
    BY <2>1, <2>2, <2>3, WriteIs DEF Publishers
<1>3. RunInv => RestoredRunStays
  BY DEF RunInv, KeptInv, CommitInv, FloorBehind, RestoredRunStays, EntryOf, OldestOf
<1>4. QED
  BY <1>1, <1>2, <1>3, CommandInvariant, PTL DEF CtlSpec

-----------------------------------------------------------------------------
(***************************************************************************)
(* The storage audit beside the publishers.                                *)
(***************************************************************************)
On(p, l, c) == job[p].layer = l /\ job[p].run = c
Unsent(l, c) == \A r \in pending : ~(r.job.layer = l /\ r.job.run = c)

\* What the audit is about to delete of a run.
Doomed(l, c) == IF phase = "delete" /\ chosen = <<l, c>> THEN keys ELSE {}

\* No call under way has stored any of the keys ks of the run, nor may any commit it before
\* they are gone.
Foreign(l, c, ks) ==
  /\ ~Referenced(l, c) /\ Unsent(l, c)
  /\ \A p \in Pubs : On(p, l, c) /\ Underway(p) =>
       stage[p] \notin {"verify", "commit"} /\ ks \cap (1..sent[p]) = {}

\* The first tile of the run is stored, and not by a call under way: none gets beyond it.
Blocked(l, c) ==
  /\ 1 \in tiles[l][c] /\ Unsent(l, c)
  /\ \A p \in Pubs : On(p, l, c) /\ Underway(p) =>
       stage[p] \notin {"verify", "commit"} /\ sent[p] = 0

\* A regional call that got somewhere created what it found missing.
Creators == \A p \in Pubs : Underway(p) /\ sent[p] > 0 => p \in wrote
SentAll == \A p \in Pubs : stage[p] \in {"verify", "commit"} => sent[p] = NTiles

\* What is stored of a run, and not about to go, is its tiles up to some number, and all of
\* them once its manifest is.
Heads(l, c) ==
  /\ \E n \in 0..NTiles : tiles[l][c] \ Doomed(l, c) = 1..n
  /\ Complete(l, c) /\ Manifest \notin Doomed(l, c) => tiles[l][c] = Tiles /\ Doomed(l, c) = {}
StoredInOrder == \A l \in Layers, c \in Cycle : Kind(l, c) => Heads(l, c)

ReportedBlocked ==
  phase \in {"report", "keys", "delete"} =>
    \A id \in report : Kind(id[1], id[2]) => Blocked(id[1], id[2])

ChosenBlocked ==
  phase = "keys" /\ Kind(chosen[1], chosen[2]) =>
    Blocked(chosen[1], chosen[2]) /\ ~Referenced(chosen[1], chosen[2])

KeysForeign ==
  phase = "delete" /\ Kind(chosen[1], chosen[2]) /\ keys # {} =>
    keys \subseteq Keys(chosen[1], chosen[2]) /\ Foreign(chosen[1], chosen[2], keys)

\* The invariant of the audit beside regional publishers.
AudInv ==
  /\ AuditTypeOK /\ KeptInv /\ Creators /\ SentAll /\ StoredInOrder
  /\ ReportedBlocked /\ ChosenBlocked /\ KeysForeign
  /\ phase \in {"keys", "delete"} => chosen \in RunIds \ report

\* A regional call gets on by a tile that was not there, and no other call does it for it.
LEMMA SentMoves ==
  ASSUME RunTypeOK, Regional, NEW q \in Pubs, PubStep(q) \/ Die(q), NEW p \in Pubs,
         sent'[p] # sent[p]
  PROVE  /\ q = p /\ sent'[p] = sent[p] + 1 /\ sent'[p] \in Tiles
         /\ sent'[p] \notin tiles[job[p].layer][job[p].run]
         /\ sent'[p] \in tiles'[job[p].layer][job[p].run]
<1> USE DEF RunTypeOK
<1>1. job[p].layer \in Layers /\ job[p].run \in Cycle
  BY DEF TypeOK, Job
<1>2. PutTile(q)
  BY DEF PubStep, Admit, Probe, PutManifest, Verify, Commit, Die, List, Consider, DeleteTile,
         DeleteManifest, PutStatus, Leave, stepVars
<1>3. /\ sent[q] + 1 \in Tiles /\ sent[q] + 1 \notin tiles[job[q].layer][job[q].run]
      /\ tiles' = [tiles EXCEPT ![job[q].layer][job[q].run] = @ \cup {sent[q] + 1}]
      /\ sent' = [sent EXCEPT ![q] = sent[q] + 1]
  BY <1>2 DEF PutTile
<1>4. q = p
  BY <1>3
<1>5. QED
  BY <1>1, <1>3, <1>4

\* A publisher that goes on to the next tile has just created it.
LEMMA SentMovesIf ==
  ASSUME RunTypeOK, Regional, [RunNext]_vars, NEW p \in Pubs, sent'[p] # sent[p]
  PROVE  /\ sent'[p] = sent[p] + 1 /\ sent'[p] \in Tiles
         /\ sent'[p] \notin tiles[job[p].layer][job[p].run]
<1>1. Delayed \/ UNCHANGED vars => sent' = sent
  BY DEF Delayed, vars, stepVars
<1>2. QED
  BY <1>1, SentMoves DEF RunNext

\* The stored tiles of a retained run change only by the next tile of a call on it.
LEMMA TilesMove ==
  ASSUME KeptInv, Regional, [RunNext]_vars, NEW l \in Layers, NEW c \in Cycle, Kind(l, c),
         tiles'[l][c] # tiles[l][c]
  PROVE  \E p \in Pubs : /\ On(p, l, c) /\ Underway(p)
                         /\ sent[p] + 1 \in Tiles /\ sent[p] + 1 \notin tiles[l][c]
                         /\ tiles'[l][c] = tiles[l][c] \cup {sent[p] + 1}
<1> USE DEF KeptInv, RunTypeOK
<1>1. \A p \in Pubs : job[p].layer \in Layers /\ job[p].run \in Cycle
  BY DEF TypeOK, Job
<1>2. ASSUME NEW p \in Pubs, PutTile(p)
      PROVE  /\ On(p, l, c) /\ Underway(p)
             /\ sent[p] + 1 \in Tiles /\ sent[p] + 1 \notin tiles[l][c]
             /\ tiles'[l][c] = tiles[l][c] \cup {sent[p] + 1}
  <2>1. /\ sent[p] + 1 \in Tiles /\ sent[p] + 1 \notin tiles[job[p].layer][job[p].run]
        /\ tiles' = [tiles EXCEPT ![job[p].layer][job[p].run] = @ \cup {sent[p] + 1}]
    BY <1>2 DEF PutTile
  <2>2. On(p, l, c)
    BY <1>1, <2>1 DEF On
  <2>3. tiles'[l][c] = tiles[l][c] \cup {sent[p] + 1}
    BY <1>1, <2>1, <2>2 DEF On
  <2>4. Underway(p)
    BY <1>2 DEF PutTile, Underway, Ended
  <2>5. QED
    BY <2>1, <2>2, <2>3, <2>4 DEF On
<1>3. ASSUME NEW p \in Pubs, NEW t \in Tiles, DeleteTile(p, t) PROVE FALSE
  <2>1. victim[p] # NoVictim
    BY <1>3 DEF DeleteTile, NoVictim
  <2>2. victim[p] \in Listed /\ ~Kind(job[p].layer, victim[p].run)
    BY <2>1, DoomedIsSuperseded
  <2>3. tiles'[l][c] = tiles[l][c]
    BY <1>1, <1>3, <2>2 DEF DeleteTile, Listed
  <2>4. QED
    BY <2>3
<1>4. ASSUME NEW p \in Pubs,
             \/ Admit(p) \/ Probe(p) \/ Verify(p) \/ Commit(p) \/ Die(p) \/ PutManifest(p)
             \/ DeleteManifest(p) \/ List(p) \/ Consider(p) \/ PutStatus(p) \/ Leave(p)
      PROVE  FALSE
  BY <1>4 DEF Admit, Probe, Verify, Commit, Die, PutManifest, DeleteManifest, List, Consider,
              PutStatus, Leave, runVars
<1>5. CASE Delayed \/ UNCHANGED vars
  BY <1>5 DEF Delayed, vars, runVars
<1>6. QED
  BY <1>2, <1>3, <1>4, <1>5 DEF RunNext, PubStep

\* What no call is committing does not come to be named.
LEMMA StaysUnnamed ==
  ASSUME KeptInv, [RunNext]_vars, NEW l \in Layers, NEW c \in Cycle,
         ~Referenced(l, c), Unsent(l, c),
         \A p \in Pubs : On(p, l, c) /\ Underway(p) => stage[p] # "commit"
  PROVE  ~Referenced(l, c)' /\ Unsent(l, c)'
<1> USE DEF KeptInv, RunTypeOK
<1>1. Unsent(l, c)'
  <2>1. ASSUME NEW r \in pending', r.job.layer = l, r.job.run = c PROVE FALSE
    <3>1. r \notin pending
      BY <2>1 DEF Unsent
    <3>2. PICK p \in Pubs : Commit(p) /\ Underway(p) /\ r.job = job[p]
      BY <3>1, NewlyPending
    <3>3. QED
      BY <2>1, <3>2 DEF Commit, On
  <2>2. QED
    BY <2>1 DEF Unsent
<1>2. ~Referenced(l, c)'
  <2>1. CASE pointer' = pointer
    BY <2>1 DEF Referenced
  <2>2. ASSUME NEW j \in Job, Advance(j), Commits(j), Referenced(l, c)' PROVE FALSE
    <3>1. pointer \in Doc /\ j.layer \in Layers
      BY DEF TypeOK, Job
    <3>2. /\ pointer'.entry[j.layer] = NewEntry(pointer.entry[j.layer], j)
          /\ l # j.layer => pointer'.entry[l] = pointer.entry[l]
      BY <2>2, <3>1, NewDocType DEF Advance
    <3>3. l = j.layer /\ c = j.run
      BY <2>2, <3>2 DEF Referenced, NewEntry, Previous
    <3>4. QED
      BY <2>2, <3>3 DEF Commits, Unsent, On
  <2>3. QED
    BY <2>1, <2>2, AdvanceIsWhole
<1>3. QED
  BY <1>1, <1>2

\* A blocked run stays blocked: no call under way gets past a tile that it did not create.
LEMMA BlockedStays ==
  ASSUME KeptInv, Regional, [RunNext]_vars, NEW l \in Layers, NEW c \in Cycle,
         Kind(l, c), Blocked(l, c)
  PROVE  Blocked(l, c)'
<1> USE DEF KeptInv, RunTypeOK
<1>1. 1 \in tiles'[l][c]
  BY KeptRunsGrow DEF Blocked
<1>2. Unsent(l, c)'
  <2>1. ASSUME NEW r \in pending', r.job.layer = l, r.job.run = c PROVE FALSE
    <3>1. r \notin pending
      BY <2>1 DEF Blocked, Unsent
    <3>2. PICK p \in Pubs : Commit(p) /\ Underway(p) /\ r.job = job[p]
      BY <3>1, NewlyPending
    <3>3. QED
      BY <2>1, <3>2 DEF Commit, Blocked, On
  <2>2. QED
    BY <2>1 DEF Unsent
<1>3. ASSUME NEW p \in Pubs, On(p, l, c), Underway(p)'
      PROVE  stage'[p] \notin {"verify", "commit"} /\ sent'[p] = 0
  <2>1. Underway(p) /\ stage[p] \notin {"verify", "commit"} /\ sent[p] = 0
    BY <1>3, UnderwayBefore DEF Blocked
  <2>2. sent'[p] = 0
    BY <1>3, <2>1, SentMovesIf DEF Blocked, On
  <2>3. stage'[p] \notin {"verify", "commit"}
    BY <2>1, NewlySent, NTilesAssumption DEF PutManifest, AllSent
  <2>4. QED
    BY <2>2, <2>3
<1>4. job' = job
  BY JobStays
<1>5. QED
  BY <1>1, <1>2, <1>3, <1>4 DEF Blocked, On

\* Keys about to go stay those of runs that nobody can complete.
LEMMA ForeignStays ==
  ASSUME KeptInv, SentAll, Regional, [RunNext]_vars, NEW l \in Layers, NEW c \in Cycle, Kind(l, c),
         NEW ks, ks # {}, ks \subseteq Keys(l, c), Foreign(l, c, ks)
  PROVE  ks \subseteq Keys(l, c)' /\ Foreign(l, c, ks)'
<1> USE DEF KeptInv, RunTypeOK
<1>1. ks \subseteq Keys(l, c)'
  BY KeptRunsGrow DEF Keys
<1>2. ~Referenced(l, c)' /\ Unsent(l, c)'
  BY StaysUnnamed DEF Foreign
<1>3. ASSUME NEW p \in Pubs, On(p, l, c), Underway(p)'
      PROVE  stage'[p] \notin {"verify", "commit"} /\ ks \cap (1..sent'[p]) = {}
  <2>1. Underway(p) /\ stage[p] \notin {"verify", "commit"} /\ ks \cap (1..sent[p]) = {}
    BY <1>3, UnderwayBefore DEF Foreign
  <2>2. ks \cap (1..sent'[p]) = {}
    <3>1. CASE sent'[p] # sent[p]
      <4>1. sent'[p] = sent[p] + 1 /\ sent'[p] \in Tiles /\ sent'[p] \notin tiles[l][c]
        BY <1>3, <3>1, SentMovesIf DEF On
      <4>2. sent[p] + 1 \notin ks
        BY <4>1 DEF Keys, Manifest, Tiles
      <4>3. \A i \in 1..(sent[p] + 1) : i \in 1..sent[p] \/ i = sent[p] + 1
        BY NTilesAssumption
      <4>4. QED
        BY <2>1, <4>1, <4>2, <4>3
    <3>2. QED
      BY <2>1, <3>1
  <2>3. stage'[p] \notin {"verify", "commit"}
    <3>1. SUFFICES ASSUME PutManifest(p), manifest'[l][c] = job[p].stamp PROVE FALSE
      BY <1>3, <2>1, NewlySent DEF On
    <3>2. sent[p] = NTiles
      BY <3>1 DEF PutManifest, AllSent
    <3>3. ks \cap Tiles = {}
      BY <2>1, <3>2 DEF Tiles
    <3>4. ks = {Manifest} /\ Complete(l, c)
      BY <3>3 DEF Keys
    <3>5. manifest[l][c] = NoStamp \/ stage'[p] = "refused"
      BY <1>3, <3>1 DEF PutManifest, On, Goto
    <3>6. stage'[p] # "refused"
      BY <1>3 DEF Underway
    <3>7. QED
      BY <3>4, <3>5, <3>6 DEF Complete
  <2>4. QED
    BY <2>2, <2>3
<1>4. job' = job
  BY JobStays
<1>5. QED
  BY <1>1, <1>2, <1>3, <1>4 DEF Foreign, On

\* What the pointer names it retains.
LEMMA NamedIsKind ==
  ASSUME KeptInv, NEW l \in Layers, NEW c \in Cycle, Referenced(l, c)
  PROVE  Kind(l, c)
<1>1. /\ OldestOf(l) \in Nat /\ OldestOf(l) <= pointer.entry[l].run
      /\ pointer.entry[l].prev # 0 => OldestOf(l) <= pointer.entry[l].prev
  <2>1. pointer.entry[l] \in Entry /\ Ordered(pointer.entry[l])
    BY DEF KeptInv, RunTypeOK, TypeOK, Doc, CommitInv, EntriesOrdered
  <2>2. pointer.entry[l].run \in Nat /\ pointer.entry[l].prev \in Nat
    BY <2>1, MaxCycleAssumption DEF Entry, Run
  <2>3. QED
    BY <2>1, <2>2 DEF OldestOf, Oldest, Ordered
<1>2. c \in Nat /\ c # 0
  BY MaxCycleAssumption DEF Cycle
<1>3. QED
  BY <1>1, <1>2 DEF Referenced, Kind

\* A publisher's step, or a late write, beside an audit that stands still.
LEMMA PublisherHeads ==
  ASSUME AudInv, Regional, [RunNext]_vars, UNCHANGED <<phase, chosen, keys>>
  PROVE  StoredInOrder'
<1> SUFFICES ASSUME NEW l \in Layers, NEW c \in Cycle, Kind(l, c)' PROVE Heads(l, c)'
  BY DEF StoredInOrder, Kind, OldestOf, Oldest, Heads, Complete, Doomed
<1> DEFINE D == Doomed(l, c)
<1>1. KeptInv /\ Kind(l, c) /\ Heads(l, c) /\ SentAll
  BY KindBefore DEF AudInv, StoredInOrder
<1>2. Doomed(l, c)' = D
  BY DEF Doomed
<1>3. D = {} \/ (D \subseteq Keys(l, c) /\ Foreign(l, c, D))
  BY <1>1 DEF AudInv, KeysForeign, Doomed
<1>4. ASSUME NEW p \in Pubs, On(p, l, c), Underway(p)
      PROVE  1..sent[p] \subseteq tiles[l][c] \ D /\ sent[p] \in Nat
  <2>1. 1..sent[p] \subseteq tiles[l][c]
    BY <1>1, <1>4 DEF KeptInv, UploadsKept, On
  <2>2. D \cap (1..sent[p]) = {}
    BY <1>3, <1>4 DEF Foreign
  <2>3. QED
    BY <1>1, <2>1, <2>2, NTilesAssumption DEF KeptInv, RunTypeOK
<1>5. \E n \in 0..NTiles : tiles'[l][c] \ D = 1..n
  <2>1. PICK n \in 0..NTiles : tiles[l][c] \ D = 1..n
    BY <1>1 DEF Heads
  <2>2. CASE tiles'[l][c] = tiles[l][c]
    BY <2>1, <2>2
  <2>3. CASE tiles'[l][c] # tiles[l][c]
    <3>1. PICK p \in Pubs : /\ On(p, l, c) /\ Underway(p)
                            /\ sent[p] + 1 \in Tiles /\ sent[p] + 1 \notin tiles[l][c]
                            /\ tiles'[l][c] = tiles[l][c] \cup {sent[p] + 1}
      BY <1>1, <2>3, TilesMove
    <3>2. 1..sent[p] \subseteq 1..n /\ sent[p] \in Nat
      BY <1>4, <2>1, <3>1
    <3>3. sent[p] + 1 \notin 1..n
      BY <2>1, <3>1
    <3>4. sent[p] = n
      <4>1. sent[p] >= n
        BY <3>2, <3>3, NTilesAssumption
      <4>2. sent[p] <= n
        <5>1. sent[p] = 0 \/ sent[p] \in 1..sent[p]
          BY <3>2
        <5>2. QED
          BY <3>2, <5>1
      <4>3. QED
        BY <3>2, <4>1, <4>2, NTilesAssumption
    <3>5. n + 1 \notin D
      BY <1>3, <3>1, <3>4 DEF Keys, Manifest, Tiles
    <3>6. tiles'[l][c] \ D = 1..n \cup {n + 1}
      BY <2>1, <3>1, <3>4, <3>5
    <3>7. 1..n \cup {n + 1} = 1..(n + 1) /\ n + 1 \in 0..NTiles
      BY <3>1, <3>4, NTilesAssumption DEF Tiles
    <3>8. QED
      BY <3>6, <3>7
  <2>4. QED
    BY <2>2, <2>3
<1>6. ASSUME Complete(l, c)', Manifest \notin D PROVE tiles'[l][c] = Tiles /\ D = {}
  <2>1. tiles'[l][c] \subseteq Tiles
    BY <1>1, RunNextTypeOK DEF KeptInv, RunTypeOK
  <2>2. CASE Complete(l, c)
    BY <1>1, <1>6, <2>1, <2>2, KeptRunsGrow DEF Heads
  <2>3. CASE ~Complete(l, c)
    <3>1. PICK p \in Pubs : /\ job[p].layer = l /\ job[p].run = c /\ Underway(p)
                            /\ sent[p] = NTiles /\ UNCHANGED tiles
      BY <1>1, <1>6, <2>3, NewlyComplete DEF KeptInv
    <3>2. Tiles \subseteq tiles[l][c] \ D
      BY <1>4, <3>1 DEF On, Tiles
    <3>3. D = {}
      BY <1>1, <1>3, <2>3, <3>2 DEF Keys, KeptInv, RunTypeOK
    <3>4. QED
      BY <2>1, <3>1, <3>2, <3>3
  <2>4. QED
    BY <2>2, <2>3
<1>7. QED
  BY <1>2, <1>5, <1>6 DEF Heads

\* Publishers keep what is known of the tiles they have sent.
LEMMA PublisherSentAll ==
  ASSUME KeptInv, SentAll, Regional, [RunNext]_vars
  PROVE  SentAll'
<1> SUFFICES ASSUME NEW p \in Pubs, stage'[p] \in {"verify", "commit"} PROVE sent'[p] = NTiles
  BY DEF SentAll
<1>1. sent[p] = NTiles
  BY NewlySent DEF SentAll, KeptInv, PutManifest, AllSent
<1>2. sent'[p] = sent[p]
  BY <1>1, SentMovesIf, NTilesAssumption DEF KeptInv, Tiles
<1>3. QED
  BY <1>1, <1>2

\* A regional call that got somewhere goes on to be one that created what it found missing.
LEMMA PublisherCreators ==
  ASSUME KeptInv, Creators, Regional, NEW q \in Pubs, Publisher(q)
  PROVE  Creators'
<1> SUFFICES ASSUME NEW p \in Pubs, Underway(p)', sent'[p] > 0 PROVE p \in wrote'
  BY DEF Creators
<1>1. [RunNext]_vars /\ wrote \subseteq wrote'
  BY DEF Publisher, RunNext
<1>2. CASE sent'[p] = sent[p]
  BY <1>1, <1>2, UnderwayBefore DEF Creators
<1>3. CASE sent'[p] # sent[p]
  <2>1. /\ q = p /\ sent'[p] \in Tiles
        /\ sent'[p] \notin tiles[job[p].layer][job[p].run]
        /\ sent'[p] \in tiles'[job[p].layer][job[p].run]
    BY <1>3, SentMoves DEF Publisher, KeptInv
  <2>2. sent'[p] # Manifest /\ job' = job
    BY <1>1, <2>1, JobStays DEF Manifest, Tiles
  <2>3. ~(Keys(job[p].layer, job[p].run)' \subseteq Keys(job[p].layer, job[p].run))
    <3>1. sent'[p] \in Keys(job[p].layer, job[p].run)'
      BY <2>1, <2>2 DEF Keys
    <3>2. sent'[p] \notin Keys(job[p].layer, job[p].run)
      BY <2>1, <2>2 DEF Keys
    <3>3. QED
      BY <3>1, <3>2
  <2>4. QED
    BY <2>1, <2>3 DEF Publisher
<1>4. QED
  BY <1>2, <1>3

\* A publisher's step, or a late write, keeps what the audit relies on.
LEMMA PublisherAudInv ==
  ASSUME AudInv, Regional, [RunNext]_vars, UNCHANGED <<phase, named, report, chosen, keys>>,
         Creators', wrote' \subseteq Pubs
  PROVE  AudInv'
<1>1. KeptInv' /\ KeptInv /\ SentAll
  BY NextKeptInv DEF AudInv
<1>2. AuditTypeOK'
  BY <1>1 DEF AudInv, AuditTypeOK, KeptInv
<1>3. \A id \in RunIds : id[1] \in Layers /\ id[2] \in Cycle
  BY DEF RunIds
<1>4. ReportedBlocked'
  <2>1. ASSUME NEW id \in report, Kind(id[1], id[2])', phase \in {"report", "keys", "delete"}
        PROVE  Blocked(id[1], id[2])'
    <3>1. id[1] \in Layers /\ id[2] \in Cycle
      BY <1>3 DEF AudInv, AuditTypeOK
    <3>2. Kind(id[1], id[2])
      BY <1>1, <2>1, <3>1, KindBefore
    <3>3. QED
      BY <1>1, <2>1, <3>1, <3>2, BlockedStays DEF AudInv, ReportedBlocked
  <2>2. QED
    BY <2>1 DEF ReportedBlocked
<1>5. ChosenBlocked'
  <2>1. ASSUME phase = "keys", Kind(chosen[1], chosen[2])'
        PROVE  Blocked(chosen[1], chosen[2])' /\ ~Referenced(chosen[1], chosen[2])'
    <3>1. chosen[1] \in Layers /\ chosen[2] \in Cycle
      BY <1>3, <2>1 DEF AudInv
    <3>2. Kind(chosen[1], chosen[2])
      BY <1>1, <2>1, <3>1, KindBefore
    <3>3. Blocked(chosen[1], chosen[2]) /\ ~Referenced(chosen[1], chosen[2])
      BY <2>1, <3>2 DEF AudInv, ChosenBlocked
    <3>4. QED
      BY <1>1, <3>1, <3>2, <3>3, BlockedStays, StaysUnnamed DEF Blocked
  <2>2. QED
    BY <2>1 DEF ChosenBlocked
<1>6. KeysForeign'
  <2>1. ASSUME phase = "delete", Kind(chosen[1], chosen[2])', keys # {}
        PROVE  keys \subseteq Keys(chosen[1], chosen[2])' /\ Foreign(chosen[1], chosen[2], keys)'
    <3>1. chosen[1] \in Layers /\ chosen[2] \in Cycle
      BY <1>3, <2>1 DEF AudInv
    <3>2. Kind(chosen[1], chosen[2])
      BY <1>1, <2>1, <3>1, KindBefore
    <3>3. keys \subseteq Keys(chosen[1], chosen[2]) /\ Foreign(chosen[1], chosen[2], keys)
      BY <2>1, <3>2 DEF AudInv, KeysForeign
    <3>4. QED
      BY <1>1, <2>1, <3>1, <3>2, <3>3, ForeignStays DEF Foreign, Keys
  <2>2. QED
    BY <2>1 DEF KeysForeign
<1>7. SentAll' /\ StoredInOrder'
  BY <1>1, PublisherSentAll, PublisherHeads
<1>8. QED
  BY <1>1, <1>2, <1>4, <1>5, <1>6, <1>7 DEF AudInv

\* Over is not under way.
LEMMA OverIsNotUnderway ==
  ASSUME KeptInv, NEW p \in Pubs, Over(p)
  PROVE  ~Underway(p)
BY DEF KeptInv, Staged, Over, Underway, Ended

\* An old run that has something stored, and is retained, is out of every call's reach: what
\* ListRuns reports.
LEMMA OldIsBlocked ==
  ASSUME AudInv, phase = "list", NEW l \in Layers, NEW c \in Cycle, Kind(l, c), Old(l, c),
         Keys(l, c) # {}
  PROVE  Blocked(l, c)
<1>1. Heads(l, c) /\ Doomed(l, c) = {}
  BY DEF AudInv, StoredInOrder, Doomed
<1>2. 1 \in tiles[l][c]
  <2>1. PICK n \in 0..NTiles : tiles[l][c] = 1..n
    BY <1>1 DEF Heads
  <2>2. CASE n = 0
    <3>1. Complete(l, c)
      BY <2>1, <2>2 DEF Keys
    <3>2. tiles[l][c] = Tiles
      BY <1>1, <3>1 DEF Heads
    <3>3. QED
      BY <3>2, NTilesAssumption DEF Tiles
  <2>3. CASE n # 0
    BY <2>1, <2>3, NTilesAssumption
  <2>4. QED
    BY <2>2, <2>3
<1>3. Unsent(l, c)
  BY DEF Old, Unsent
<1>4. ASSUME NEW p \in Pubs, On(p, l, c), Underway(p)
      PROVE  stage[p] \notin {"verify", "commit"} /\ sent[p] = 0
  <2>1. p \notin wrote
    BY <1>4, OverIsNotUnderway DEF Old, On, AudInv
  <2>2. sent[p] = 0
    BY <1>4, <2>1, NTilesAssumption DEF AudInv, Creators, KeptInv, RunTypeOK
  <2>3. QED
    BY <2>2, NTilesAssumption DEF AudInv, SentAll
<1>5. QED
  BY <1>2, <1>3, <1>4 DEF Blocked

\* Where nothing stored is touched, only the audit's own part is to be shown.
LEMMA StillAudInv ==
  ASSUME AudInv, UNCHANGED <<vars, wrote>>
  PROVE  /\ KeptInv' /\ Creators' /\ SentAll' /\ RunTypeOK'
         /\ \A l, c : Kind(l, c)' <=> Kind(l, c)
         /\ \A l, c : Blocked(l, c)' <=> Blocked(l, c)
         /\ \A l, c : Referenced(l, c)' <=> Referenced(l, c)
         /\ \A l, c : Keys(l, c)' = Keys(l, c)
<1>1. KeptInv'
  BY NextKeptInv DEF AudInv
<1>2. Creators' /\ SentAll'
  BY DEF AudInv, Creators, SentAll, Underway, vars, commitVars, stepVars
<1>3. /\ \A l, c : Kind(l, c)' <=> Kind(l, c)
      /\ \A l, c : Blocked(l, c)' <=> Blocked(l, c)
      /\ \A l, c : Referenced(l, c)' <=> Referenced(l, c)
      /\ \A l, c : Keys(l, c)' = Keys(l, c)
  BY DEF vars, commitVars, runVars, stepVars, Kind, OldestOf, Oldest, Blocked, Unsent, On, Underway,
         Referenced, Keys, Complete
<1>4. QED
  BY <1>1, <1>2, <1>3 DEF KeptInv

\* Beginning to delete all of a run leaves nothing of it to be in order.
LEMMA StillHeads ==
  ASSUME AudInv, UNCHANGED vars,
         \A l \in Layers, c \in Cycle : Doomed(l, c)' \in {Doomed(l, c), Keys(l, c)}
  PROVE  StoredInOrder'
<1> SUFFICES ASSUME NEW l \in Layers, NEW c \in Cycle, Kind(l, c) PROVE Heads(l, c)'
  BY DEF StoredInOrder, Kind, OldestOf, Oldest, Heads, Complete, Doomed, vars, commitVars
<1>1. Heads(l, c) /\ UNCHANGED <<tiles, manifest>>
  BY DEF AudInv, StoredInOrder, vars, runVars
<1>2. CASE Doomed(l, c)' = Doomed(l, c)
  BY <1>1, <1>2 DEF Heads, Complete
<1>3. CASE Doomed(l, c)' = Keys(l, c)
  <2>1. tiles'[l][c] \ Doomed(l, c)' = 1..0
    BY <1>1, <1>3 DEF Keys
  <2>2. Complete(l, c)' => Manifest \in Doomed(l, c)'
    BY <1>1, <1>3 DEF Keys, Complete
  <2>3. QED
    BY <2>1, <2>2, NTilesAssumption DEF Heads
<1>4. QED
  BY <1>2, <1>3

\* One key of the chosen run is deleted: none of a run the pointer names, or is about to.
LEMMA DeleteKeepsRuns ==
  ASSUME AudInv, DeleteKey
  PROVE  /\ KeptInv' /\ StoredInOrder' /\ KeysForeign'
         /\ \A l \in Layers, c \in Cycle :
              chosen # <<l, c>> => tiles'[l][c] = tiles[l][c] /\ manifest'[l][c] = manifest[l][c]
         /\ ~Referenced(chosen[1], chosen[2])
<1>1. PICK k \in keys :
        /\ k = Manifest => keys = {Manifest}
        /\ keys' = keys \ {k}
        /\ IF k = Manifest
             THEN /\ manifest' = [manifest EXCEPT ![chosen[1]][chosen[2]] = NoStamp]
                  /\ UNCHANGED tiles
             ELSE /\ tiles' = [tiles EXCEPT ![chosen[1]][chosen[2]] = @ \ {k}]
                  /\ UNCHANGED manifest
  BY DEF DeleteKey
<1> DEFINE cl == chosen[1]
           cc == chosen[2]
<1>2. /\ cl \in Layers /\ cc \in Cycle /\ chosen = <<cl, cc>> /\ phase = "delete"
      /\ UNCHANGED <<commitVars, stepVars, wrote, phase, named, report, chosen>>
  BY DEF DeleteKey, AudInv, RunIds
<1>3. KeptInv /\ RunTypeOK
  BY DEF AudInv, KeptInv
<1>4. Kind(cl, cc) => keys \subseteq Keys(cl, cc) /\ Foreign(cl, cc, keys)
  BY <1>1, <1>2 DEF AudInv, KeysForeign
<1>5. ~Referenced(cl, cc)
  BY <1>2, <1>3, <1>4, NamedIsKind DEF Foreign
<1>6. /\ \A l \in Layers, c \in Cycle :
           chosen # <<l, c>> => tiles'[l][c] = tiles[l][c] /\ manifest'[l][c] = manifest[l][c]
      /\ tiles'[cl][cc] = tiles[cl][cc] \ (IF k = Manifest THEN {} ELSE {k})
      /\ manifest'[cl][cc] = (IF k = Manifest THEN NoStamp ELSE manifest[cl][cc])
  <2>1. CASE k = Manifest
    <3>1. manifest' = [manifest EXCEPT ![cl][cc] = NoStamp] /\ tiles' = tiles
      BY <1>1, <2>1
    <3>2. QED
      BY <1>2, <1>3, <2>1, <3>1 DEF RunTypeOK
  <2>2. CASE k # Manifest
    <3>1. tiles' = [tiles EXCEPT ![cl][cc] = @ \ {k}] /\ manifest' = manifest
      BY <1>1, <2>2
    <3>2. QED
      BY <1>2, <1>3, <2>2, <3>1 DEF RunTypeOK
  <2>3. QED
    BY <2>1, <2>2
<1>7. RunTypeOK'
  <2>1. manifest' \in [Layers -> [Cycle -> Stamps \cup {NoStamp}]]
    <3>1. CASE k = Manifest
      <4>1. [manifest[cl] EXCEPT ![cc] = NoStamp] \in [Cycle -> Stamps \cup {NoStamp}]
        BY <1>2, <1>3 DEF RunTypeOK
      <4>2. QED
        BY <1>1, <1>2, <1>3, <3>1, <4>1 DEF RunTypeOK
    <3>2. CASE k # Manifest
      BY <1>1, <1>3, <3>2 DEF RunTypeOK
    <3>3. QED
      BY <3>1, <3>2
  <2>2. tiles' \in [Layers -> [Cycle -> SUBSET Tiles]]
    <3>1. CASE k = Manifest
      BY <1>1, <1>3, <3>1 DEF RunTypeOK
    <3>2. CASE k # Manifest
      <4>1. tiles[cl][cc] \ {k} \in SUBSET Tiles
        BY <1>2, <1>3 DEF RunTypeOK
      <4>2. [tiles[cl] EXCEPT ![cc] = @ \ {k}] \in [Cycle -> SUBSET Tiles]
        BY <1>2, <1>3, <4>1 DEF RunTypeOK
      <4>3. QED
        BY <1>1, <1>2, <1>3, <3>2, <4>2 DEF RunTypeOK
    <3>3. QED
      BY <3>1, <3>2
  <2>3. QED
    BY <1>2, <1>3, <2>1, <2>2 DEF RunTypeOK, TypeOK, commitVars, stepVars
<1>8. CommitInv' /\ Staged' /\ DoomedOld'
  BY <1>2, <1>3, <1>7
  DEF KeptInv, RunTypeOK, CommitInv, EntriesOrdered, PreparedForward, FloorBehind, Floor, EntryOf,
      Staged, DoomedOld, commitVars, stepVars
<1>9. \A l, c : (Kind(l, c)' <=> Kind(l, c)) /\ (Referenced(l, c)' <=> Referenced(l, c))
  BY <1>2 DEF Kind, OldestOf, Oldest, Referenced, commitVars
<1>10. \A l \in Layers, c \in Cycle : chosen # <<l, c>> => (Whole(l, c)' <=> Whole(l, c))
  BY <1>6 DEF Whole, Complete
<1>11. RefIntegrity'
  BY <1>3, <1>5, <1>9, <1>10, <1>2 DEF KeptInv, RefIntegrity
<1>12. PendingKept'
  <2>1. ASSUME NEW r \in pending, Kind(r.job.layer, r.job.run)
        PROVE  Whole(r.job.layer, r.job.run)'
    <3>1. r.job.layer \in Layers /\ r.job.run \in Cycle
      BY <1>3 DEF RunTypeOK, TypeOK, Request, Job
    <3>2. chosen # <<r.job.layer, r.job.run>>
      BY <1>2, <1>4, <2>1 DEF Foreign, Unsent
    <3>3. QED
      BY <1>3, <1>10, <2>1, <3>1, <3>2 DEF KeptInv, PendingKept, WholeIfKept
  <2>2. pending' = pending
    BY <1>2 DEF commitVars
  <2>3. QED
    BY <1>9, <2>1, <2>2 DEF PendingKept, WholeIfKept
<1>13. UploadsKept'
  <2>1. ASSUME NEW p \in Pubs, Underway(p), NEW l, NEW c, l = job[p].layer, c = job[p].run,
               Kind(l, c)
        PROVE  /\ 1..sent[p] \subseteq tiles'[l][c]
               /\ stage[p] \in {"verify", "commit"} => Whole(l, c)'
    <3>1. l \in Layers /\ c \in Cycle
      BY <1>3, <2>1 DEF RunTypeOK, TypeOK, Job
    <3>2. /\ 1..sent[p] \subseteq tiles[l][c]
          /\ stage[p] \in {"verify", "commit"} => Whole(l, c)
      BY <1>3, <2>1 DEF KeptInv, UploadsKept, WholeIfKept
    <3>3. CASE chosen # <<l, c>>
      BY <1>6, <1>10, <3>1, <3>2, <3>3
    <3>4. CASE chosen = <<l, c>>
      <4>1. stage[p] \notin {"verify", "commit"} /\ keys \cap (1..sent[p]) = {}
        BY <1>4, <2>1, <3>4 DEF Foreign, On
      <4>2. QED
        BY <1>1, <1>6, <3>2, <3>4, <4>1
    <3>5. QED
      BY <3>3, <3>4
  <2>2. UNCHANGED <<job, sent, stage, pc>>
    BY <1>2 DEF commitVars, stepVars
  <2>3. QED
    BY <1>9, <2>1, <2>2 DEF UploadsKept, Underway, WholeIfKept
<1>14. KeptInv'
  BY <1>7, <1>8, <1>11, <1>12, <1>13 DEF KeptInv
<1>15. KeysForeign'
  <2>1. ASSUME Kind(cl, cc), keys' # {}
        PROVE  keys' \subseteq Keys(cl, cc)' /\ Foreign(cl, cc, keys)'
    <3>1. keys' \subseteq Keys(cl, cc)'
      <4>1. k # Manifest
        BY <1>1, <2>1
      <4>2. manifest'[cl][cc] = manifest[cl][cc] /\ tiles'[cl][cc] = tiles[cl][cc] \ {k}
        BY <1>6, <4>1
      <4>3. Keys(cl, cc)' = Keys(cl, cc) \ {k}
        BY <1>2, <4>1, <4>2 DEF Keys, Complete
      <4>4. QED
        BY <1>1, <1>4, <2>1, <4>3
    <3>2. Foreign(cl, cc, keys)'
      BY <1>1, <1>2, <1>4, <1>9, <2>1
      DEF Foreign, Unsent, On, Underway, commitVars, stepVars
    <3>3. QED
      BY <3>1, <3>2
  <2>2. QED
    BY <1>2, <1>9, <2>1 DEF KeysForeign
<1>16. StoredInOrder'
  <2>1. ASSUME NEW l \in Layers, NEW c \in Cycle, Kind(l, c) PROVE Heads(l, c)'
    <3>1. Heads(l, c)
      BY <2>1 DEF AudInv, StoredInOrder
    <3>2. CASE chosen # <<l, c>>
      <4>1. tiles'[l][c] = tiles[l][c] /\ manifest'[l][c] = manifest[l][c]
            /\ Doomed(l, c)' = {} /\ Doomed(l, c) = {}
        BY <1>2, <1>6, <3>2 DEF Doomed
      <4>2. QED
        BY <3>1, <4>1 DEF Heads, Complete
    <3>3. CASE chosen = <<l, c>>
      <4>1. Doomed(l, c) = keys /\ Doomed(l, c)' = keys \ {k}
        BY <1>1, <1>2, <3>3 DEF Doomed
      <4>2. PICK n \in 0..NTiles : tiles[l][c] \ keys = 1..n
        BY <3>1, <4>1 DEF Heads
      <4>3. Manifest \notin tiles[l][c]
        BY <1>3, <2>1 DEF RunTypeOK, Tiles, Manifest
      <4>4. tiles'[l][c] \ (keys \ {k}) = tiles[l][c] \ keys
        BY <1>1, <1>6, <3>3, <4>3
      <4>5. ~(Complete(l, c)' /\ Manifest \notin keys \ {k})
        <5>1. CASE k = Manifest
          BY <1>6, <3>3, <5>1 DEF Complete
        <5>2. CASE k # Manifest
          <6>1. Complete(l, c)' <=> Complete(l, c)
            BY <1>1, <5>2 DEF Complete
          <6>2. QED
            BY <1>1, <3>1, <4>1, <5>2, <6>1 DEF Heads
        <5>3. QED
          BY <5>1, <5>2
      <4>6. QED
        BY <4>1, <4>2, <4>4, <4>5 DEF Heads
    <3>4. QED
      BY <3>2, <3>3
  <2>2. QED
    BY <1>9, <2>1 DEF StoredInOrder
<1>17. QED
  BY <1>5, <1>6, <1>14, <1>15, <1>16

\* Every step of audits and publishers keeps the invariant, while no audit is cut off.
LEMMA NextAudInv ==
  ASSUME AudInv, Regional, ~Interrupted, [AuditNext]_allVars
  PROVE  AudInv'
<1>1. ASSUME NEW q \in Pubs, Publisher(q) PROVE AudInv'
  <2>1. [RunNext]_vars /\ UNCHANGED <<phase, named, report, chosen, keys>>
    BY <1>1 DEF Publisher, RunNext
  <2>2. Creators'
    BY <1>1, PublisherCreators DEF AudInv
  <2>3. wrote' \subseteq Pubs
    BY <1>1 DEF Publisher, AudInv, AuditTypeOK
  <2>4. QED
    BY <2>1, <2>2, <2>3, PublisherAudInv
<1>2. CASE LateCommit \/ UNCHANGED allVars
  <2>1. [RunNext]_vars /\ UNCHANGED auditVars
    BY <1>2 DEF LateCommit, RunNext, allVars
  <2>2. sent' = sent
    BY <1>2 DEF LateCommit, Delayed, allVars, vars, stepVars
  <2>3. Creators'
    <3>1. ASSUME NEW p \in Pubs, Underway(p)' PROVE Underway(p)
      BY <2>1, <3>1, UnderwayBefore DEF AudInv
    <3>2. QED
      BY <2>1, <2>2, <3>1 DEF AudInv, Creators, auditVars
  <2>4. wrote' \subseteq Pubs
    BY <2>1 DEF auditVars, AudInv, AuditTypeOK
  <2>5. QED
    BY <2>1, <2>3, <2>4, PublisherAudInv DEF auditVars
<1>3. CASE ReadPointers
  <2>1. UNCHANGED <<vars, wrote, report, chosen, keys>> /\ phase' = "list" /\ named' \subseteq RunIds
        /\ phase = "idle"
    BY <1>3 DEF ReadPointers
  <2>2. StoredInOrder'
    BY <2>1, StillHeads DEF Doomed
  <2>3. ReportedBlocked' /\ ChosenBlocked' /\ KeysForeign'
    BY <2>1 DEF ReportedBlocked, ChosenBlocked, KeysForeign
  <2>4. AuditTypeOK'
    BY <2>1, StillAudInv DEF AuditTypeOK, AudInv
  <2>5. QED
    BY <2>1, <2>2, <2>3, <2>4, StillAudInv DEF AudInv
<1>4. CASE ListRuns
  <2>1. /\ UNCHANGED <<vars, wrote, named, chosen, keys>> /\ phase' = "report" /\ phase = "list"
        /\ report' \subseteq RunIds
        /\ \A id \in report' : Keys(id[1], id[2]) # {} /\ Old(id[1], id[2])
    BY <1>4 DEF ListRuns
  <2>2. StoredInOrder'
    BY <2>1, StillHeads DEF Doomed
  <2>3. ReportedBlocked'
    <3>1. ASSUME NEW id \in report', Kind(id[1], id[2]) PROVE Blocked(id[1], id[2])
      BY <2>1, <3>1, OldIsBlocked DEF RunIds
    <3>2. QED
      BY <2>1, <3>1, StillAudInv DEF ReportedBlocked
  <2>4. ChosenBlocked' /\ KeysForeign'
    BY <2>1 DEF ChosenBlocked, KeysForeign
  <2>5. AuditTypeOK'
    BY <2>1, StillAudInv DEF AuditTypeOK, AudInv
  <2>6. QED
    BY <2>1, <2>2, <2>3, <2>4, <2>5, StillAudInv DEF AudInv
<1>5. CASE Recheck
  <2>1. PICK id \in report :
          /\ report' = report \ {id}
          /\ IF Referenced(id[1], id[2])
               THEN UNCHANGED <<phase, chosen>>
               ELSE phase' = "keys" /\ chosen' = id
    BY <1>5 DEF Recheck
  <2>2. phase = "report" /\ UNCHANGED <<vars, wrote, named, keys>> /\ phase' \in {"report", "keys"}
    BY <1>5, <2>1 DEF Recheck
  <2>3. StoredInOrder'
    BY <2>2, StillHeads DEF Doomed
  <2>4. ReportedBlocked'
    BY <2>1, <2>2, StillAudInv DEF ReportedBlocked, AudInv
  <2>5. ChosenBlocked'
    <3>1. phase' = "keys" => chosen' = id /\ ~Referenced(id[1], id[2])
      BY <2>1, <2>2
    <3>2. Kind(id[1], id[2]) => Blocked(id[1], id[2])
      BY <2>1, <2>2 DEF AudInv, ReportedBlocked
    <3>3. QED
      BY <2>2, <3>1, <3>2, StillAudInv DEF ChosenBlocked
  <2>6. KeysForeign'
    BY <2>2 DEF KeysForeign
  <2>7. id \in RunIds
    BY <2>1 DEF AudInv, AuditTypeOK
  <2>8. AuditTypeOK'
    BY <2>1, <2>2, <2>7, StillAudInv DEF AuditTypeOK, AudInv
  <2>9. phase' = "keys" => chosen' \in RunIds \ report'
    BY <2>1, <2>2, <2>7
  <2>10. QED
    BY <2>2, <2>3, <2>4, <2>5, <2>6, <2>8, <2>9, StillAudInv DEF AudInv
<1>6. CASE ListKeys
  <2>1. /\ phase = "keys" /\ phase' = "delete" /\ keys' = Keys(chosen[1], chosen[2])
        /\ UNCHANGED <<vars, wrote, named, report, chosen>>
    BY <1>6 DEF ListKeys
  <2>2. chosen \in RunIds /\ chosen = <<chosen[1], chosen[2]>>
    BY <2>1 DEF AudInv, RunIds
  <2>3. StoredInOrder'
    <3>1. ASSUME NEW l \in Layers, NEW c \in Cycle
          PROVE  Doomed(l, c)' \in {Doomed(l, c), Keys(l, c)}
      BY <2>1, <2>2 DEF Doomed
    <3>2. QED
      BY <2>1, <3>1, StillHeads
  <2>4. ReportedBlocked'
    BY <2>1, StillAudInv DEF ReportedBlocked, AudInv
  <2>5. ChosenBlocked'
    BY <2>1 DEF ChosenBlocked
  <2>6. KeysForeign'
    <3>1. ASSUME Kind(chosen[1], chosen[2])
          PROVE  Foreign(chosen[1], chosen[2], keys)'
      <4>1. Blocked(chosen[1], chosen[2]) /\ ~Referenced(chosen[1], chosen[2])
        BY <2>1, <3>1 DEF AudInv, ChosenBlocked
      <4>2. \A p \in Pubs : sent[p] = 0 => 1..sent[p] = {}
        OBVIOUS
      <4>3. Foreign(chosen[1], chosen[2], keys')
        BY <4>1, <4>2 DEF Blocked, Foreign
      <4>4. QED
        BY <2>1, <4>3
        DEF Foreign, Unsent, On, Underway, Referenced, vars, commitVars, stepVars
    <3>2. QED
      BY <2>1, <3>1, StillAudInv DEF KeysForeign
  <2>7. keys' \subseteq Tiles \cup {Manifest}
    BY <2>1, <2>2 DEF Keys, RunIds, AudInv, KeptInv, RunTypeOK
  <2>8. AuditTypeOK'
    BY <2>1, <2>7, StillAudInv DEF AuditTypeOK, AudInv
  <2>9. QED
    BY <2>1, <2>2, <2>3, <2>4, <2>5, <2>6, <2>8, StillAudInv DEF AudInv
<1>7. CASE DeleteKey
  <2>1. /\ UNCHANGED <<commitVars, stepVars, wrote, phase, named, report, chosen>>
        /\ phase = "delete" /\ keys' \subseteq keys
    BY <1>7 DEF DeleteKey
  <2>2. Creators' /\ SentAll' /\ ChosenBlocked'
    BY <2>1 DEF AudInv, Creators, SentAll, Underway, ChosenBlocked, commitVars, stepVars
  <2>3. AuditTypeOK'
    BY <1>7, <2>1, DeleteKeepsRuns DEF AudInv, AuditTypeOK, KeptInv
  <2>4. ReportedBlocked'
    <3>1. ASSUME NEW id \in report, Kind(id[1], id[2])' PROVE Blocked(id[1], id[2])'
      <4>1. id[1] \in Layers /\ id[2] \in Cycle /\ id = <<id[1], id[2]>>
        BY <3>1 DEF AudInv, AuditTypeOK, RunIds
      <4>2. chosen # <<id[1], id[2]>>
        BY <2>1, <3>1, <4>1 DEF AudInv
      <4>3. tiles'[id[1]][id[2]] = tiles[id[1]][id[2]]
        BY <1>7, <4>1, <4>2, DeleteKeepsRuns
      <4>4. Kind(id[1], id[2])
        BY <2>1, <3>1 DEF Kind, OldestOf, Oldest, commitVars
      <4>5. Blocked(id[1], id[2])
        BY <2>1, <3>1, <4>4 DEF AudInv, ReportedBlocked
      <4>6. QED
        BY <2>1, <4>3, <4>5 DEF Blocked, Unsent, On, Underway, commitVars, stepVars
    <3>2. QED
      BY <2>1, <3>1 DEF ReportedBlocked
  <2>5. QED
    BY <1>7, <2>1, <2>2, <2>3, <2>4, DeleteKeepsRuns DEF AudInv
<1>8. CASE NextRun
  <2>1. /\ phase = "delete" /\ keys = {} /\ phase' = "report" /\ chosen' = NoRun
        /\ UNCHANGED <<vars, wrote, named, report, keys>>
    BY <1>8 DEF NextRun
  <2>2. StoredInOrder'
    BY <2>1, StillHeads DEF Doomed
  <2>3. ReportedBlocked'
    BY <2>1, StillAudInv DEF ReportedBlocked, AudInv
  <2>4. ChosenBlocked' /\ KeysForeign'
    BY <2>1 DEF ChosenBlocked, KeysForeign
  <2>5. AuditTypeOK'
    BY <2>1, StillAudInv DEF AuditTypeOK, AudInv
  <2>6. QED
    BY <2>1, <2>2, <2>3, <2>4, <2>5, StillAudInv DEF AudInv
<1>9. CASE EndAudit
  <2>1. /\ phase = "report" /\ phase' = "idle" /\ UNCHANGED <<vars, wrote>>
        /\ named' = {} /\ report' = {} /\ chosen' = NoRun /\ keys' = {}
    BY <1>9 DEF EndAudit
  <2>2. StoredInOrder'
    BY <2>1, StillHeads DEF Doomed
  <2>3. ReportedBlocked' /\ ChosenBlocked' /\ KeysForeign'
    BY <2>1 DEF ReportedBlocked, ChosenBlocked, KeysForeign
  <2>4. AuditTypeOK'
    BY <2>1, StillAudInv DEF AuditTypeOK, AudInv
  <2>5. QED
    BY <2>1, <2>2, <2>3, <2>4, StillAudInv DEF AudInv
<1>10. QED
  BY <1>1, <1>2, <1>3, <1>4, <1>5, <1>6, <1>7, <1>8, <1>9 DEF AuditNext, AuditStep

\* At the start no audit has listed anything.
LEMMA InitAudInv == AuditInit => AudInv
<1> SUFFICES ASSUME AuditInit PROVE AudInv
  OBVIOUS
<1>1. RunInit /\ KeptInv
  BY InitRunInv DEF AuditInit, RunInv
<1>2. Creators /\ SentAll
  BY <1>1 DEF RunInit, Creators, SentAll
<1>3. StoredInOrder
  <2>1. ASSUME NEW l \in Layers, NEW c \in Cycle PROVE Heads(l, c)
    <3>1. tiles[l][c] = {} /\ ~Complete(l, c) /\ {} = 1..0
      BY <1>1 DEF RunInit, Complete
    <3>2. QED
      BY <3>1, NTilesAssumption DEF Heads
  <2>2. QED
    BY <2>1 DEF StoredInOrder
<1>4. AuditTypeOK
  BY <1>1 DEF AuditInit, AuditTypeOK, KeptInv
<1>5. QED
  BY <1>1, <1>2, <1>3, <1>4 DEF AuditInit, AudInv, ReportedBlocked, ChosenBlocked, KeysForeign

\* An audit beside regional publishers relies on this: of every retained run something is
\* stored in order, and what an audit is about to delete is out of every call's reach.
THEOREM AuditInvariant == ASSUME Regional, ~Interrupted PROVE AuditSpec => []AudInv
<1>1. AudInv /\ [AuditNext]_allVars => AudInv'
  BY NextAudInv
<1>2. QED
  BY <1>1, InitAudInv, PTL DEF AuditSpec

\* Nothing of a run the pointer names is deleted by retention or the audit, and the pointer
\* never comes to name a run they have deleted something of: for any number of layers,
\* publishers, cycles, tiles and audits, however old a report is.
THEOREM AuditSparesNamedRuns == ASSUME Regional, ~Interrupted PROVE AuditSpec => NamedRunsStay
<1> DEFINE Spared ==
      /\ \A l \in Layers, c \in Cycle : Referenced(l, c) => Keys(l, c) \subseteq Keys(l, c)'
      /\ RefIntegrity'
<1>1. AudInv /\ AudInv' /\ [AuditNext]_allVars => [Spared]_allVars
  <2> SUFFICES ASSUME AudInv, AudInv', AuditNext, NEW l \in Layers, NEW c \in Cycle, Referenced(l, c)
               PROVE  Keys(l, c) \subseteq Keys(l, c)' /\ RefIntegrity'
    <3>1. AudInv' => RefIntegrity'
      BY DEF AudInv, KeptInv
    <3>2. QED
      BY <3>1
  <2>1. KeptInv /\ RefIntegrity'
    BY DEF AudInv, KeptInv
  <2>2. CASE DeleteKey
    <3>1. chosen # <<l, c>>
      BY <2>2, DeleteKeepsRuns
    <3>2. QED
      BY <2>1, <2>2, <3>1, DeleteKeepsRuns DEF Keys, Complete
  <2>3. CASE UNCHANGED vars
    BY <2>1, <2>3 DEF Keys, Complete, vars, runVars
  <2>4. CASE [RunNext]_vars
    BY <2>1, <2>4, NamedIsKind, KeptRunsGrow DEF Keys
  <2>5. QED
    BY <2>2, <2>3, <2>4
    DEF AuditNext, AuditStep, Publisher, LateCommit, RunNext, ReadPointers, ListRuns, Recheck,
        ListKeys, NextRun, EndAudit
<1>2. QED
  BY <1>1, AuditInvariant, PTL DEF AuditSpec, NamedRunsStay

=============================================================================
