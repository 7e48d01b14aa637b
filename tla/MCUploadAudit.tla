---------------------------- MODULE MCUploadAudit ----------------------------
(***************************************************************************)
(* Two parts of publication that share no state, in one run: the upload of *)
(* one run down to its bytes, and the deleting audit beside publishers.    *)
(* Each has its own behaviours, in which the variables of the other stay   *)
(* as they are.  The initial state chooses the part that moves.            *)
(***************************************************************************)
EXTENDS MCStorageAudit, MCRunUpload

VARIABLE moving

\* Each part at rest, in a state of its own.
UploadRest ==
  /\ UploadInit /\ regional
  /\ data = [p \in Procs |-> CHOOSE d \in Data : TRUE]
  /\ mine = [p \in Procs |-> [t \in Tile |-> [data |-> data[p], built |-> second[p]]]]
  /\ second = [p \in Procs |-> CHOOSE s \in Seconds : TRUE]
AuditRest == AuditInit /\ job = [p \in Pubs |-> CHOOSE j \in Job : j.run = 1]

BothInit ==
  \/ moving = "upload" /\ UploadInit /\ AuditRest
  \/ moving = "audit" /\ AuditInit /\ UploadRest

UploadMoves(p) == moving = "upload" /\ Step(p) /\ UNCHANGED <<moving, allVars>>

BothNext ==
  \/ moving = "upload" /\ UploadNext /\ UNCHANGED <<moving, allVars>>
  \/ moving = "audit" /\ AuditNext /\ UNCHANGED <<moving, uploadVars>>

bothVars == <<moving, uploadVars, allVars>>

\* The fairness of UploadFairSpec and of AuditFairSpec.
BothFairSpec ==
  /\ BothInit /\ [][BothNext]_bothVars
  /\ \A p \in Procs : WF_bothVars(UploadMoves(p))
  /\ AuditFairness

=============================================================================
