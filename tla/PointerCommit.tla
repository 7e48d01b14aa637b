--------------------------- MODULE PointerCommit ---------------------------
(***************************************************************************)
(* commit_layer_entry of src/ingest/publish.py: several publish_run calls, *)
(* of several layers, move their own entry of one shared pointer document  *)
(* (latest.json or latest-regional.json) with compare-and-swap.            *)
(*                                                                         *)
(* The object store answers a conditional PUT atomically, or its answer is *)
(* lost: then the request may still be applied later (Land) or never       *)
(* (Drop).  The ETag of a document is its content MD5, so a conditional    *)
(* PUT succeeds exactly when the stored document equals the one read.      *)
(*                                                                         *)
(* A run id is its layer and cycle, so an entry keeps the cycle only.      *)
(* member_count, cadence_hours and schema_version follow from the layer and *)
(* are left out; the backoff sleep changes no state.                       *)
(***************************************************************************)
EXTENDS Naturals, FiniteSets

CONSTANTS
  Layers,     \* the layers of this pointer document
  Pubs,       \* the publish_run calls
  MaxCycle,   \* bound on the cycles
  Stamps,     \* published_at values: one-second resolution, so calls may share one
  NoStamp,    \* published_at of a layer that has no entry
  Attempts,   \* COMMIT_ATTEMPTS
  Lossy       \* whether an answer may be lost and a publisher may die

ASSUME MaxCycleAssumption == MaxCycle \in Nat
ASSUME AttemptsAssumption == Attempts \in Nat \ {0}
ASSUME LossyAssumption == Lossy \in BOOLEAN
ASSUME StampAssumption == NoStamp \notin Stamps

VARIABLES
  pointer,    \* the stored pointer document
  pending,    \* conditional PUTs whose answer was lost, neither applied nor dropped yet
  job,        \* publisher -> the entry it publishes
  pc,         \* publisher -> where commit_layer_entry is
  attempt,    \* publisher -> compare-and-swap attempts begun
  base,       \* publisher -> the document it read, whose ETag its PUT names
  found       \* publisher -> CommitResult.previous_run_id

commitVars == <<pointer, pending, job, pc, attempt, base, found>>

-----------------------------------------------------------------------------
Cycle == 1..MaxCycle
Run == 0..MaxCycle   \* 0: no run

Entry == [run : Run, prev : Run, stamp : Stamps \cup {NoStamp}]
NoEntry == [run |-> 0, prev |-> 0, stamp |-> NoStamp]

Doc == [exists : BOOLEAN, updated : Stamps \cup {NoStamp}, entry : [Layers -> Entry]]
NoDoc == [exists |-> FALSE, updated |-> NoStamp, entry |-> [l \in Layers |-> NoEntry]]

Job == [layer : Layers, run : Cycle, stamp : Stamps]
Request == [base : Doc, job : Job]

Live == {"read", "put", "settle"}
Ended == {"committed", "stale", "conflict", "dead"}

TypeOK ==
  /\ pointer \in Doc
  /\ pending \subseteq Request
  /\ job \in [Pubs -> Job]
  /\ pc \in [Pubs -> {"ready"} \cup Live \cup Ended]
  /\ attempt \in [Pubs -> 0..Attempts]
  /\ base \in [Pubs -> Doc]
  /\ found \in [Pubs -> Run]

-----------------------------------------------------------------------------
SameCommit(e, j) == e.run = j.run /\ e.stamp = j.stamp

OlderNever(e, j) == FALSE   \* mutant: not checked at the commit
Older(e, j) == e.run > j.run

\* The run a publication keeps as previous; a repeated cycle keeps the older one.
PreviousOfRepeat(e, run) == e.run   \* mutant: a repeated cycle is its own previous
Previous(e, run) == IF e.run = run THEN e.prev ELSE e.run

NewEntry(e, j) == [run |-> j.run, prev |-> Previous(e, j.run), stamp |-> j.stamp]

\* Every other layer's entry as it was read, this layer's replaced.
NewDocAlone(doc, j) ==   \* mutant: the other layers' entries are not carried over
  [exists |-> TRUE, updated |-> j.stamp,
   entry |-> [NoDoc.entry EXCEPT ![j.layer] = NewEntry(doc.entry[j.layer], j)]]
NewDoc(doc, j) ==
  [exists |-> TRUE,
   updated |-> j.stamp,
   entry |-> [doc.entry EXCEPT ![j.layer] = NewEntry(doc.entry[j.layer], j)]]

EntryOf(p) == pointer.entry[job[p].layer]

-----------------------------------------------------------------------------
Init ==
  /\ pointer = NoDoc
  /\ pending = {}
  /\ job \in [Pubs -> Job]
  /\ pc = [p \in Pubs |-> "ready"]
  /\ attempt = [p \in Pubs |-> 0]
  /\ base = [p \in Pubs |-> NoDoc]
  /\ found = [p \in Pubs |-> 0]

Begin(p) ==
  /\ pc[p] = "ready"
  /\ pc' = [pc EXCEPT ![p] = "read"]
  /\ attempt' = [attempt EXCEPT ![p] = 1]
  /\ UNCHANGED <<pointer, pending, job, base, found>>

Finish(p, outcome, prev) ==
  /\ pc' = [pc EXCEPT ![p] = outcome]
  /\ found' = [found EXCEPT ![p] = prev]
  /\ attempt' = [attempt EXCEPT ![p] = 0]
  /\ base' = [base EXCEPT ![p] = NoDoc]

\* The read finds this very entry: an earlier attempt of ours landed.
ReadRecovered(p) ==
  /\ pc[p] = "read"
  /\ SameCommit(EntryOf(p), job[p])
  /\ Finish(p, "committed", EntryOf(p).prev)
  /\ UNCHANGED <<pointer, pending, job>>

\* check_not_older: StalePublishError.
ReadStale(p) ==
  /\ pc[p] = "read"
  /\ ~SameCommit(EntryOf(p), job[p])
  /\ Older(EntryOf(p), job[p])
  /\ Finish(p, "stale", 0)
  /\ UNCHANGED <<pointer, pending, job>>

ReadPrepare(p) ==
  /\ pc[p] = "read"
  /\ ~SameCommit(EntryOf(p), job[p])
  /\ ~Older(EntryOf(p), job[p])
  /\ pc' = [pc EXCEPT ![p] = "put"]
  /\ base' = [base EXCEPT ![p] = pointer]
  /\ UNCHANGED <<pointer, pending, job, attempt, found>>

\* What the store checks: If-Match on the ETag, or If-None-Match when there was no object.
UnconditionalPut(doc) == TRUE   \* mutant: no If-Match
Unchanged(doc) == pointer = doc

PutApplied(p) ==
  /\ pc[p] = "put"
  /\ Unchanged(base[p])
  /\ pointer' = NewDoc(base[p], job[p])
  /\ Finish(p, "committed", Previous(base[p].entry[job[p].layer], job[p].run))
  /\ UNCHANGED <<pending, job>>

RetryInPlace(p) ==   \* mutant: the same document is put again, uncounted
  /\ pc' = [pc EXCEPT ![p] = "put"]
  /\ UNCHANGED <<attempt, base, job, found>>

Retry(p) ==
  /\ pc' = [pc EXCEPT ![p] = IF attempt[p] < Attempts THEN "read" ELSE "settle"]
  /\ attempt' = [attempt EXCEPT ![p] = IF @ < Attempts THEN @ + 1 ELSE @]
  /\ base' = [base EXCEPT ![p] = NoDoc]
  /\ UNCHANGED <<job, found>>

\* PreconditionFailed: the document changed since it was read.
PutRefused(p) ==
  /\ pc[p] = "put"
  /\ ~Unchanged(base[p])
  /\ Retry(p)
  /\ UNCHANGED <<pointer, pending>>

\* UncertainWriteError: connection lost, timeout or 5xx.
PutUnknown(p) ==
  /\ Lossy
  /\ pc[p] = "put"
  /\ pending' = pending \cup {[base |-> base[p], job |-> job[p]]}
  /\ Retry(p)
  /\ UNCHANGED pointer

\* After the last attempt, one more read settles whether it landed.
SettleFound(p) ==
  /\ pc[p] = "settle"
  /\ SameCommit(EntryOf(p), job[p])
  /\ Finish(p, "committed", EntryOf(p).prev)
  /\ UNCHANGED <<pointer, pending, job>>

\* PointerConflictError; the caller prunes nothing.
SettleLost(p) ==
  /\ pc[p] = "settle"
  /\ ~SameCommit(EntryOf(p), job[p])
  /\ Finish(p, "conflict", 0)
  /\ UNCHANGED <<pointer, pending, job>>

\* The job is killed, or a read or an unconditional error raises.
Crash(p) ==
  /\ Lossy
  /\ pc[p] \in {"ready"} \cup Live
  /\ Finish(p, "dead", 0)
  /\ UNCHANGED <<pointer, pending, job>>

\* A request whose answer was lost reaches the store after all.
Land(r) ==
  /\ Unchanged(r.base)
  /\ pointer' = NewDoc(r.base, r.job)
  /\ pending' = pending \ {r}
  /\ UNCHANGED <<job, pc, attempt, base, found>>

\* It is refused there, or never arrives.
Drop(r) ==
  /\ pending' = pending \ {r}
  /\ UNCHANGED <<pointer, job, pc, attempt, base, found>>

CommitStep(p) ==
  \/ ReadRecovered(p) \/ ReadStale(p) \/ ReadPrepare(p)
  \/ PutApplied(p) \/ PutRefused(p) \/ PutUnknown(p)
  \/ SettleFound(p) \/ SettleLost(p)

StoreStep == \E r \in pending : Land(r) \/ Drop(r)

Next ==
  \/ \E p \in Pubs : Begin(p) \/ CommitStep(p) \/ Crash(p)
  \/ StoreStep

Spec == Init /\ [][Next]_commitVars

-----------------------------------------------------------------------------
(***************************************************************************)
(* Properties.                                                             *)
(***************************************************************************)

\* The oldest run a reader of this layer may still be using: its previous run,
\* or its current one when it has no previous.
Oldest(e) == IF e.prev = 0 THEN e.run ELSE e.prev

\* The same for the commit a publisher was told of: apply_retention deletes
\* only below this.
FloorIsOwnRun(p) == job[p].run   \* mutant: the previous run is not kept
FloorTooLow(p) == IF found[p] = 0 THEN job[p].run ELSE found[p] - 1   \* mutant: one run more is kept
Floor(p) == IF found[p] = 0 THEN job[p].run ELSE found[p]

\* A confirmed commit is never lost to another layer's write: the layer stays at
\* that run or moves to a newer one, whoever else rewrites the document.
NoLostCommit ==
  \A p \in Pubs : pc[p] = "committed" => EntryOf(p).run >= job[p].run

\* What a publisher was told to retain is never newer than what the document
\* retains now, however late it acts on it: the reason retention cannot reach a
\* run the pointer names, even when its own re-check is stale.
FloorBehind ==
  \A p \in Pubs : pc[p] = "committed" => Floor(p) <= Oldest(EntryOf(p))

\* A call that ends stale really was overtaken: the document holds a newer run.
StaleIsOvertaken ==
  \A p \in Pubs : pc[p] = "stale" => EntryOf(p).run > job[p].run

\* The document implements the abstract register: every step of the protocol
\* publishes one run of one layer, never an older one, or changes nothing.
Register ==
  INSTANCE LayerRegister
    WITH current <- [l \in Layers |-> pointer.entry[l].run],
         previous <- [l \in Layers |-> pointer.entry[l].prev]

ImplementsRegister == Register!Spec

\* With as many attempts as there are publishers, and no lost answer, no
\* publisher runs out of attempts: each lost race is another one's commit.
NoConflict == \A p \in Pubs : pc[p] # "conflict"

=============================================================================
