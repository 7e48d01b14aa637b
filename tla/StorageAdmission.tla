-------------------------- MODULE StorageAdmission --------------------------
(***************************************************************************)
(* The byte ledger of a bucket, ops/capacity-v1.json: Admission and        *)
(* ReservedStore of src/ingest/storage_admission.py, and                   *)
(* reserved_publication of src/ingest/capacity.py, which puts a            *)
(* publication between acquire and finish.                                 *)
(*                                                                         *)
(* A publication is its plan: the uploads of immutable data, the pointer   *)
(* and the status (mutable keys), and the deletes of retention.  Each is   *)
(* checked against the ledger first and sent afterwards.  The ledger is    *)
(* rewritten by compare-and-swap; every answer may be lost, and what it    *)
(* answered may be applied later.  An object is one byte.                  *)
(***************************************************************************)
EXTENDS Integers, Sequences, FiniteSets

CONSTANTS
  Jobs,       \* publications; each acquires once, so it is its own token
  Managed,    \* owners that upload under reservations
  Shared,     \* the unmanaged owner of the mutable keys
  Owner,      \* job -> its writer
  Works,      \* publication identities
  Work,       \* job -> its identity
  Size,       \* job -> the bytes it reserves
  Plan,       \* what a publication sends, in order
  Ceiling,    \* owner -> its allocation
  Initial,    \* owner -> what is stored when the ledger is provisioned
  Limit, Headroom, Control,   \* limit_bytes, headroom_bytes, CONTROL_BYTES
  Attempts,   \* of a compare-and-swap, 6
  MaxEpoch,   \* bound on reconciliations
  Lossy       \* whether answers are lost and jobs killed

Owners == Managed \cup {Shared}

ASSUME AdmissionJobs ==
  /\ IsFiniteSet(Jobs) /\ IsFiniteSet(Managed) /\ Shared \notin Managed
  /\ Owner \in [Jobs -> Managed] /\ Work \in [Jobs -> Works]
  /\ Size \in [Jobs -> Nat \ {0}]
  /\ Plan \in Seq({"data", "pointer", "delete", "status"}) /\ Plan # <<>>
ASSUME AdmissionBytes ==
  /\ Ceiling \in [Owners -> Nat \ {0}] /\ Initial \in [Owners -> Nat]
  /\ \A o \in Owners : Initial[o] <= Ceiling[o]
  /\ {Limit, Headroom, Attempts} \subseteq Nat \ {0} /\ {Control, MaxEpoch} \subseteq Nat
  /\ Lossy \in BOOLEAN

VARIABLES
  ledger,     \* the document
  writes,     \* writes of the ledger whose answer was lost, on their way
  step,       \* job -> where it is
  held,       \* job -> the ledger it read, and the one it writes
  tries,      \* job -> attempts of the write under way
  term,       \* job -> the epoch of its reservation
  expired,    \* reservations whose time is up
  pos,        \* job -> its place in the plan
  attempted,  \* job -> attempted_bytes
  late,       \* job -> an upload of its own that is on its way, its answer lost
  stored,     \* owner -> its stored bytes, which inventory measures
  strays,     \* job -> requests sent without permission since the pause was last set or lifted
  op          \* what the operator's reconciliation is about to write

admVars == <<ledger, writes, step, held, tries, term, expired, pos, attempted,
             late, stored, strays, op>>
jobVars == <<step, held, tries, term, pos, attempted>>

-----------------------------------------------------------------------------
Ledger ==
  [paused : BOOLEAN, epoch : 0..MaxEpoch, baseline : [Managed -> Nat],
   reservation : [Jobs -> {"none", "active", "finished"}], seen : SUBSET Works]
Write == [base : Ledger, want : Ledger]

Ended == {"ok", "stopped"}
Kinds == {"data", "pointer", "status"}
Steps == {"read", "measure", "write", "confirm", "guard", "weigh", "send",
          "finish", "close"} \cup Ended

\* As prepare_storage_policy provisions it: paused, the baseline is what is stored.
Provisioned ==
  [paused |-> TRUE, epoch |-> 0, baseline |-> [o \in Managed |-> Initial[o]],
   reservation |-> [j \in Jobs |-> "none"], seen |-> {}]
NoWrite == [base |-> Provisioned, want |-> Provisioned]

AdmTypeOK ==
  /\ ledger \in Ledger
  /\ writes \subseteq Write
  /\ step \in [Jobs -> Steps]
  /\ held \in [Jobs -> Write]
  /\ tries \in [Jobs -> 1..Attempts]
  /\ term \in [Jobs -> 0..MaxEpoch]
  /\ expired \subseteq Jobs
  /\ pos \in [Jobs -> 1..Len(Plan) + 1]
  /\ attempted \in [Jobs -> Nat] /\ \A j \in Jobs : attempted[j] <= Size[j]
  /\ late \in [Jobs -> {"none", "data", "pointer", "status"}]
  /\ stored \in [Owners -> Nat]
  /\ strays \in [Jobs -> Nat]
  /\ op \in Write

AdmInit ==
  /\ ledger = Provisioned
  /\ writes = {}
  /\ step = [j \in Jobs |-> "read"]
  /\ held = [j \in Jobs |-> NoWrite]
  /\ tries = [j \in Jobs |-> 1]
  /\ term = [j \in Jobs |-> 0]
  /\ expired = {}
  /\ pos = [j \in Jobs |-> 1]
  /\ attempted = [j \in Jobs |-> 0]
  /\ late = [j \in Jobs |-> "none"]
  /\ stored = Initial
  /\ strays = [j \in Jobs |-> 0]
  /\ op = NoWrite

-----------------------------------------------------------------------------
(***************************************************************************)
(* What is stored and what is charged.                                     *)
(***************************************************************************)
JobsOf(o) == {j \in Jobs : Owner[j] = o}

\* The sum of the naturals f[x], as a count of bytes.
Total(f, S) == Cardinality(UNION {{x} \X (1..f[x]) : x \in S})

\* Expired and finished reservations are still charged.
DebitsOfActive(doc, o) ==   \* mutant: finished reservations are given back
  Total(Size, {j \in JobsOf(o) : doc.reservation[j] = "active"})
Debits(doc, o) == Total(Size, {j \in JobsOf(o) : doc.reservation[j] # "none"})

\* An unmanaged owner is charged its whole ceiling.
Charged(doc, o) ==
  IF o = Shared THEN Ceiling[o] ELSE doc.baseline[o] + Debits(doc, o)

Peak(doc) == Total([o \in Owners |-> Charged(doc, o)], Owners) + Headroom + Control

\* One listing of the bucket, sorted by owner; it is taken as one step.
Inventory == stored

\* envelope raises no CapacityDenied.
Envelope(doc, measured) ==
  /\ \A o \in Owners : measured[o] <= Charged(doc, o) /\ Charged(doc, o) <= Ceiling[o]
  /\ Peak(doc) <= Limit

\* prepare provisions a ledger only if it keeps its own envelope.
ASSUME AdmissionProvisioned == Envelope(Provisioned, Initial)

\* Admission.check: the reservation is there, active, of this epoch and in time.
Permitted(j) ==
  /\ ~ledger.paused
  /\ ledger.epoch = term[j]
  /\ ledger.reservation[j] = "active"
  /\ j \notin expired

Reserved(doc, j) ==
  [doc EXCEPT !.reservation[j] = "active", !.seen = @ \cup {Work[j]}]
Finished(doc, j) == [doc EXCEPT !.reservation[j] = "finished"]

\* What Admission.reconcile writes: the baseline is what is stored now.
ReconciledAfresh(doc, measured) ==   \* mutant: the history of work goes with the debits
  [doc EXCEPT !.baseline = [o \in Managed |-> measured[o]],
              !.reservation = [j \in Jobs |-> "none"], !.epoch = @ + 1, !.seen = {}]
Reconciled(doc, measured) ==
  [doc EXCEPT !.baseline = [o \in Managed |-> measured[o]],
              !.reservation = [j \in Jobs |-> "none"],
              !.epoch = @ + 1]

\* If-Match on the ledger that was read.
Current(doc) == ledger = doc

-----------------------------------------------------------------------------
(***************************************************************************)
(* Admission.acquire.                                                      *)
(***************************************************************************)
Goto(j, s) == step' = [step EXCEPT ![j] = s]
Hold(j, base, want) == held' = [held EXCEPT ![j] = [base |-> base, want |-> want]]
Forget(j) == held' = [held EXCEPT ![j] = NoWrite] /\ tries' = [tries EXCEPT ![j] = 1]
StoreVars == <<late, stored, strays>>

\* CapacityDenied, or whatever else ends the publication.
End(j) == Goto(j, "stopped") /\ Forget(j)

Admissible(j) == ~ledger.paused /\ Work[j] \notin ledger.seen

Read(j) ==
  /\ step[j] = "read"
  /\ IF Admissible(j)
       THEN Goto(j, "measure") /\ Hold(j, ledger, Reserved(ledger, j)) /\ UNCHANGED tries
       ELSE End(j)
  /\ UNCHANGED <<ledger, writes, term, expired, pos, attempted, StoreVars, op>>

\* The inventory is taken after the ledger was read; the envelope must hold before and
\* with the reservation.
Measure(j) ==
  /\ step[j] = "measure"
  /\ IF Envelope(held[j].base, Inventory) /\ Envelope(held[j].want, Inventory)
       THEN Goto(j, "write") /\ UNCHANGED <<held, tries>>
       ELSE End(j)
  /\ UNCHANGED <<ledger, writes, term, expired, pos, attempted, StoreVars, op>>

\* The put of a reservation, or of its end.
Written(j) ==
  /\ step[j] \in {"write", "close"}
  /\ Current(held[j].base)
  /\ ledger' = held[j].want
  /\ Goto(j, IF step[j] = "write" THEN "confirm" ELSE "ok")
  /\ Forget(j)
  /\ term' = [term EXCEPT ![j] = IF step[j] = "write" THEN held[j].base.epoch ELSE @]
  /\ UNCHANGED <<writes, expired, pos, attempted, StoreVars, op>>

Refused(j) ==
  /\ step[j] \in {"write", "close"}
  /\ ~Current(held[j].base)
  /\ IF tries[j] < Attempts
       THEN /\ Goto(j, IF step[j] = "write" THEN "read" ELSE "finish")
            /\ tries' = [tries EXCEPT ![j] = @ + 1]
            /\ held' = [held EXCEPT ![j] = NoWrite]
       ELSE End(j)
  /\ UNCHANGED <<ledger, writes, term, expired, pos, attempted, StoreVars, op>>

\* A fresh read proves the token, and sees a pause.
Confirm(j) ==
  /\ step[j] = "confirm"
  /\ IF Permitted(j) THEN Goto(j, "guard") /\ UNCHANGED <<held, tries>> ELSE End(j)
  /\ UNCHANGED <<ledger, writes, term, expired, pos, attempted, StoreVars, op>>

-----------------------------------------------------------------------------
(***************************************************************************)
(* ReservedStore.put and .delete.                                          *)
(***************************************************************************)
Kind(j) == Plan[pos[j]]

\* The attempt is charged before it is made, and never refunded.
Allowed(j) == attempted[j] + 1 <= Size[j]
Charge(j) ==
  IF Kind(j) = "delete"
    THEN Goto(j, "send") /\ UNCHANGED <<held, tries, attempted>>
  ELSE IF Allowed(j)
    THEN /\ Goto(j, "send")
         /\ attempted' = [attempted EXCEPT ![j] = @ + 1]
         /\ UNCHANGED tries /\ held' = [held EXCEPT ![j] = NoWrite]
  ELSE End(j) /\ UNCHANGED attempted

CheckedAtFirst(j) == pos[j] > 1 \/ Permitted(j)   \* mutant: once, not for each request
Checked(j) == Permitted(j)

Guard(j) ==
  /\ step[j] = "guard"
  /\ \/ ~Checked(j) /\ End(j) /\ UNCHANGED attempted
     \/ Checked(j) /\ Kind(j) \in {"data", "delete"} /\ Charge(j)
     \/ /\ Checked(j) /\ Kind(j) \in {"pointer", "status"}
        /\ Goto(j, "weigh") /\ Hold(j, ledger, ledger) /\ UNCHANGED <<tries, attempted>>
  /\ UNCHANGED <<ledger, writes, term, expired, pos, StoreVars, op>>

\* Before a mutable key: what is stored must fit the ledger that was read, and the
\* allocation of the key's own owner.
Room(doc) == Envelope(doc, Inventory) /\ Inventory[Shared] + 1 <= Ceiling[Shared]
Weigh(j) ==
  /\ step[j] = "weigh"
  /\ IF Room(held[j].base) THEN Charge(j) ELSE End(j) /\ UNCHANGED attempted
  /\ UNCHANGED <<ledger, writes, term, expired, pos, StoreVars, op>>

\* An upload is a new object, or it finds its key taken (a create) or replaces it.
Upload(j, kind, size) ==
  stored' = [stored EXCEPT ![IF kind = "data" THEN Owner[j] ELSE Shared] = @ + size]

Stray(j) == strays' = [strays EXCEPT ![j] = IF Permitted(j) THEN @ ELSE @ + 1]
Advance(j) ==
  /\ pos' = [pos EXCEPT ![j] = @ + 1]
  /\ Goto(j, IF pos[j] = Len(Plan) THEN "finish" ELSE "guard")

SendUpload(j) ==
  /\ step[j] = "send" /\ Kind(j) # "delete"
  /\ \E size \in 0..1 : (late[j] # "none" => size = 1) /\ Upload(j, Kind(j), size)
  /\ late' = [late EXCEPT ![j] = "none"]
  /\ Stray(j) /\ Advance(j)
  /\ UNCHANGED <<ledger, writes, held, tries, term, expired, attempted, op>>

\* A conflict on the pointer, or a lost answer and a read that does not find the object:
\* the upload is made again.
SendAgain(j) ==
  /\ step[j] = "send" /\ Kind(j) \in {"data", "pointer"}
  /\ \/ Kind(j) = "pointer" /\ UNCHANGED late
     \/ Lossy /\ late' = [late EXCEPT ![j] = Kind(j)]
  /\ Stray(j) /\ Goto(j, "guard")
  /\ UNCHANGED <<ledger, writes, held, tries, term, expired, pos, attempted, stored, op>>

\* Retention: a superseded run of the writer, stored before or by another job.
SendDelete(j) ==
  /\ step[j] = "send" /\ Kind(j) = "delete"
  /\ \/ stored[Owner[j]] > 0 /\ stored' = [stored EXCEPT ![Owner[j]] = @ - 1]
     \/ UNCHANGED stored
  /\ Stray(j) /\ Advance(j)
  /\ UNCHANGED <<ledger, writes, held, tries, term, expired, attempted, late, op>>

\* Admission.finish: any number of readers may have changed the ledger meanwhile.
Finish(j) ==
  /\ step[j] = "finish"
  /\ IF ledger.reservation[j] # "none" /\ ledger.epoch = term[j]
       THEN Goto(j, "close") /\ Hold(j, ledger, Finished(ledger, j)) /\ UNCHANGED tries
       ELSE End(j)
  /\ UNCHANGED <<ledger, writes, term, expired, pos, attempted, StoreVars, op>>

\* The job is killed, or an answer is lost and the code gives up: what it sent may be
\* applied all the same.
Stop(j) ==
  /\ Lossy /\ step[j] \notin Ended
  /\ \/ UNCHANGED <<late, writes, strays>>
     \/ /\ step[j] = "send" /\ Kind(j) # "delete"
        /\ late' = [late EXCEPT ![j] = Kind(j)]
        /\ Stray(j) /\ UNCHANGED writes
     \/ /\ step[j] \in {"write", "close"}
        /\ writes' = writes \cup {held[j]} /\ UNCHANGED <<late, strays>>
  /\ End(j)
  /\ UNCHANGED <<ledger, term, expired, pos, attempted, stored, op>>

Expire(j) ==
  /\ ledger.reservation[j] = "active" /\ j \notin expired
  /\ expired' = expired \cup {j}
  /\ UNCHANGED <<ledger, writes, jobVars, StoreVars, op>>

-----------------------------------------------------------------------------
(***************************************************************************)
(* The operator and the store.                                             *)
(***************************************************************************)
\* A pause or its end, a conditional edit of the document.
SetPaused(on) ==
  /\ ledger.paused # on /\ op = NoWrite
  /\ ledger' = [ledger EXCEPT !.paused = on]
  /\ strays' = [j \in Jobs |-> 0]
  /\ UNCHANGED <<writes, jobVars, expired, late, stored, op>>

\* Every writer has stopped and nothing it sent is on its way: the evidence that the
\* operator brings.
Idle(j) == step[j] = "read" /\ tries[j] = 1
DrainedJobs == \A j \in Jobs : Idle(j) \/ step[j] \in Ended
Drained == DrainedJobs /\ \A j \in Jobs : late[j] = "none"

\* Admission.reconcile up to its write.
Reconcilable == ledger.paused /\ Drained
Reconcile ==
  /\ op = NoWrite /\ ledger.epoch < MaxEpoch
  /\ Reconcilable
  /\ LET want == Reconciled(ledger, Inventory)
     IN  Envelope(want, Inventory) /\ op' = [base |-> ledger, want |-> want]
  /\ UNCHANGED <<ledger, writes, jobVars, expired, StoreVars>>

ReconcileWritten ==
  /\ op # NoWrite /\ Current(op.base)
  /\ ledger' = op.want /\ op' = NoWrite
  /\ UNCHANGED <<writes, jobVars, expired, StoreVars>>

\* A conflict, or an unknown outcome: the operator reads again before anything else.
ReconcileFails ==
  /\ op # NoWrite
  /\ \/ ~Current(op.base) /\ UNCHANGED writes
     \/ Lossy /\ writes' = writes \cup {op}
  /\ op' = NoWrite
  /\ UNCHANGED <<ledger, jobVars, expired, StoreVars>>

\* What was on its way is applied, or it never is.
LateUpload(j) ==
  /\ late[j] # "none"
  /\ \E size \in 0..1 : Upload(j, late[j], size)
  /\ late' = [late EXCEPT ![j] = "none"]
  /\ UNCHANGED <<ledger, writes, jobVars, expired, strays, op>>

LateWrite(w) ==
  /\ writes' = writes \ {w}
  /\ ledger' = IF Current(w.base) THEN w.want ELSE ledger
  /\ UNCHANGED <<jobVars, expired, StoreVars, op>>

JobStep(j) ==
  \/ Read(j) \/ Measure(j) \/ Written(j) \/ Refused(j) \/ Confirm(j)
  \/ Guard(j) \/ Weigh(j) \/ SendUpload(j) \/ SendAgain(j) \/ SendDelete(j)
  \/ Finish(j)

AdmNext ==
  \/ \E j \in Jobs : JobStep(j) \/ Stop(j) \/ Expire(j) \/ LateUpload(j)
  \/ \E on \in BOOLEAN : SetPaused(on)
  \/ Reconcile \/ ReconcileWritten \/ ReconcileFails
  \/ \E w \in writes : LateWrite(w)

AdmSpec == AdmInit /\ [][AdmNext]_admVars

-----------------------------------------------------------------------------
(***************************************************************************)
(* Properties.                                                             *)
(***************************************************************************)
Quiet(j) == step[j] \in Ended /\ late[j] = "none"
OnItsWay(o) == {j \in JobsOf(o) : late[j] = "data"}

\* Whatever is lost, late, repeated or killed, all that a managed writer has stored and
\* all that is still on its way is charged in the ledger, reconciled or not; the ledger
\* never promises more than the bucket; and the bucket never holds more than its limit:
\* the headroom takes what races between the checks of mutable keys.
BytesHold ==
  /\ \A o \in Managed : stored[o] + Cardinality(OnItsWay(o)) <= Charged(ledger, o)
  /\ Peak(ledger) <= Limit
  /\ Total(stored, Owners) <= Limit

\* One publication identity is uploaded by one job only, reconciliations included.
WorkOnce ==
  \A j, k \in Jobs : j # k /\ Work[j] = Work[k] => attempted[j] = 0 \/ attempted[k] = 0

\* A job whose permission ends sends what it had already checked, and nothing more.
StopsAfterPause == \A j \in Jobs : strays[j] <= 1

\* Charges shrink only in a reconciliation, under a pause, and then no job with a
\* reservation is running or has anything on its way.  This is so for a reconciliation
\* whose answer was lost, too, which may be applied after the ledger was opened and
\* paused again: whatever was admitted in between has changed the ledger.
NoCredit ==
  [][\A o \in Managed : Charged(ledger', o) < Charged(ledger, o) =>
       /\ ledger.paused /\ ledger'.epoch = ledger.epoch + 1
       /\ \A j \in Jobs : ledger.reservation[j] # "none" => Quiet(j)]_admVars

=============================================================================
