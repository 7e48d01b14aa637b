---------------------------- MODULE StorageAudit ----------------------------
(***************************************************************************)
(* audit_runs and delete_unreferenced of src/ingest/audit.py, next to the  *)
(* publishers of Publication: the audit reads the pointers, lists every    *)
(* run, and deletes the old runs nothing names, reading the pointers again *)
(* before each.                                                            *)
(*                                                                         *)
(* Age is the time since a run's newest object was created.  The audit     *)
(* waits for 24 hours and a job lasts at most 4, so an old run is one      *)
(* whose every creator is over, its requests with it; a job that found all *)
(* it needed stored created nothing, and may be running.                   *)
(***************************************************************************)
EXTENDS Publication

CONSTANT Interrupted   \* whether an audit may fail, or be killed, before it is through

ASSUME InterruptedAssumption == Interrupted \in BOOLEAN

VARIABLES
  wrote,      \* publishers that created an object of their run
  phase,      \* where the audit is
  named,      \* the runs the pointer named when the audit read it
  report,     \* runs to delete: not named, and old
  chosen,     \* the run being deleted
  keys        \* its keys, as listed, still to delete: tiles, and Manifest

auditVars == <<wrote, phase, named, report, chosen, keys>>
allVars == <<vars, auditVars>>

-----------------------------------------------------------------------------
RunIds == Layers \X Cycle
NoRun == <<>>
Manifest == 0   \* its key among those of a run

AuditTypeOK ==
  /\ RunTypeOK
  /\ wrote \subseteq Pubs
  /\ phase \in {"idle", "list", "report", "keys", "delete"}
  /\ named \subseteq RunIds
  /\ report \subseteq RunIds
  /\ chosen \in RunIds \cup {NoRun}
  /\ keys \subseteq Tiles \cup {Manifest}

AuditInit ==
  /\ RunInit
  /\ wrote = {}
  /\ phase = "idle"
  /\ named = {}
  /\ report = {}
  /\ chosen = NoRun
  /\ keys = {}

-----------------------------------------------------------------------------
Keys(l, c) == tiles[l][c] \cup (IF Complete(l, c) THEN {Manifest} ELSE {})

Old(l, c) ==
  /\ \A p \in wrote : job[p].layer = l /\ job[p].run = c => Over(p)
  /\ \A r \in pending : ~(r.job.layer = l /\ r.job.run = c)

\* audit_runs reads the pointers before it lists.
ReadPointers ==
  /\ phase = "idle"
  /\ named' = {id \in RunIds : Referenced(id[1], id[2])}
  /\ phase' = "list"
  /\ UNCHANGED <<vars, wrote, report, chosen, keys>>

ListCompleteRuns ==   \* mutant: what has no manifest is not a run
  /\ phase = "list"
  /\ report' = {id \in RunIds \ named : Complete(id[1], id[2]) /\ Old(id[1], id[2])}
  /\ phase' = "report"
  /\ UNCHANGED <<vars, wrote, named, chosen, keys>>

ListRuns ==
  /\ phase = "list"
  /\ report' = {id \in RunIds \ named : Keys(id[1], id[2]) # {} /\ Old(id[1], id[2])}
  /\ phase' = "report"
  /\ UNCHANGED <<vars, wrote, named, chosen, keys>>

DeleteReported ==   \* mutant: the pointers are not read again
  /\ phase = "report"
  /\ \E id \in report :
       /\ report' = report \ {id}
       /\ phase' = "keys" /\ chosen' = id
  /\ UNCHANGED <<vars, wrote, named, keys>>

\* delete_unreferenced, run by run in the order of their names.
Recheck ==
  /\ phase = "report"
  /\ \E id \in report :
       /\ \A other \in report : other[1] = id[1] => id[2] <= other[2]
       /\ report' = report \ {id}
       /\ IF Referenced(id[1], id[2])
            THEN UNCHANGED <<phase, chosen>>
            ELSE phase' = "keys" /\ chosen' = id
  /\ UNCHANGED <<vars, wrote, named, keys>>

ListKeys ==
  /\ phase = "keys"
  /\ keys' = Keys(chosen[1], chosen[2])
  /\ phase' = "delete"
  /\ UNCHANGED <<vars, wrote, named, report, chosen>>

\* Tiles before the manifest.
DeleteKey ==
  /\ phase = "delete"
  /\ \E k \in keys :
       /\ k = Manifest => keys = {Manifest}
       /\ keys' = keys \ {k}
       /\ IF k = Manifest
            THEN /\ manifest' = [manifest EXCEPT ![chosen[1]][chosen[2]] = NoStamp]
                 /\ UNCHANGED tiles
            ELSE /\ tiles' = [tiles EXCEPT ![chosen[1]][chosen[2]] = @ \ {k}]
                 /\ UNCHANGED manifest
  /\ UNCHANGED <<commitVars, stepVars, wrote, phase, named, report, chosen>>

NextRun ==
  /\ phase = "delete" /\ keys = {}
  /\ phase' = "report"
  /\ chosen' = NoRun
  /\ UNCHANGED <<vars, wrote, named, report, keys>>

\* The audit is through, or cut short; a later one starts anew.
EndAudit ==
  /\ phase # "idle"
  /\ Interrupted \/ (phase = "report" /\ report = {})
  /\ phase' = "idle"
  /\ named' = {} /\ report' = {} /\ chosen' = NoRun /\ keys' = {}
  /\ UNCHANGED <<vars, wrote>>

AuditStep ==
  ReadPointers \/ ListRuns \/ Recheck \/ ListKeys \/ DeleteKey \/ NextRun \/ EndAudit

\* A publisher's step, and whether it created an object.
Publisher(p) ==
  /\ PubStep(p) \/ Die(p)
  /\ LET l == job[p].layer
         c == job[p].run
     IN  wrote' = IF Keys(l, c)' \subseteq Keys(l, c) THEN wrote ELSE wrote \cup {p}
  /\ UNCHANGED <<phase, named, report, chosen, keys>>

LateCommit == Delayed /\ UNCHANGED auditVars

AuditNext == (\E p \in Pubs : Publisher(p)) \/ LateCommit \/ AuditStep

AuditSpec == AuditInit /\ [][AuditNext]_allVars

\* An audit under way is one command, which goes on until it is through, and no request is
\* on its way for ever.  Nothing makes anybody start one: the repository schedules none.
AuditFairness == WF_allVars(phase # "idle" /\ AuditStep) /\ WF_allVars(LateCommit)
AuditFairSpec == AuditSpec /\ AuditFairness

-----------------------------------------------------------------------------
(***************************************************************************)
(* Properties, on RefIntegrity of Publication.                             *)
(***************************************************************************)

\* Nothing of a run the pointer names is deleted, by retention or by the audit,
\* however old the report and the pointer they act on; and the pointer never comes to
\* name a run of which they deleted something before.
NamedRunsStay ==
  [][/\ \A l \in Layers, c \in Cycle :
          Referenced(l, c) => Keys(l, c) \subseteq Keys(l, c)'
     /\ RefIntegrity']_allVars

\* Deletion is an operator's decision, audit_runs.py --delete-unreferenced.  What the next
\* property assumes of the operator: to give the command once, at some moment after the last
\* job is over and no request of a job is left on its way.
Quiet == pending = {} /\ \A p \in Pubs : Over(p)
OperatorAudits == <>(Quiet /\ phase = "idle" /\ <>(phase # "idle"))

\* If the operator does that, all that failed, killed or overtaken jobs and half-done
\* deletions left behind is collected: in the end nothing is stored of a run that the
\* pointer does not name, and one audit is enough.
AbandonedGo ==
  OperatorAudits =>
    \A l \in Layers, c \in Cycle : <>[](Referenced(l, c) \/ Keys(l, c) = {})

=============================================================================
