-------------------------- MODULE RegionalControl --------------------------
(***************************************************************************)
(* change_regional_entry of src/ingest/regional_control.py: an operator    *)
(* rolls a regional layer back to its previous run, or disables it, by     *)
(* compare-and-swap on latest-regional.json, next to the publishers of     *)
(* Publication.                                                            *)
(*                                                                         *)
(* Time is a set of seconds: a document written by a command carries the   *)
(* second of the attempt that wrote it, which no other command wrote in.   *)
(***************************************************************************)
EXTENDS Publication

CONSTANTS
  Ops,        \* the operator commands
  OpStamps,   \* the seconds the commands write in
  Restores,   \* the values of restore_previous they are given
  Quiesced    \* those entered only with dispatch and in-flight writers stopped

ASSUME OpStampAssumption == OpStamps \subseteq Stamps
ASSUME QuiescedAssumption == Quiesced \subseteq BOOLEAN
ASSUME RestoresAssumption == Restores \subseteq BOOLEAN

VARIABLES
  cmd,        \* command -> its layer, expected_current and restore_previous
  step,       \* command -> where change_regional_entry is
  try,        \* command -> attempts begun
  read,       \* command -> the document it read
  updated,    \* command -> the entry it wants; NoEntry removes the layer
  second,     \* command -> the second of its last attempt
  used,       \* seconds some command has written in
  late        \* commands' PUTs whose answer was lost, neither applied nor dropped yet

opVars == <<cmd, step, try, read, updated, second, used, late>>
ctlVars == <<vars, opVars>>

-----------------------------------------------------------------------------
Steps == {"ready", "read", "check", "put", "settle", "done", "failed"}

CtlTypeOK ==
  /\ RunTypeOK
  /\ cmd \in [Ops -> [layer : Layers, expected : Cycle, restore : Restores]]
  /\ step \in [Ops -> Steps]
  /\ try \in [Ops -> 0..Attempts]
  /\ read \in [Ops -> Doc]
  /\ updated \in [Ops -> Entry]
  /\ second \in [Ops -> OpStamps \cup {NoStamp}]
  /\ used \subseteq OpStamps
  /\ late \subseteq [base : Doc, doc : Doc, layer : Layers]

CtlInit ==
  /\ RunInit
  /\ \A p \in Pubs : job[p].stamp \notin OpStamps
  /\ cmd \in [Ops -> [layer : Layers, expected : Cycle, restore : Restores]]
  /\ step = [o \in Ops |-> "ready"]
  /\ try = [o \in Ops |-> 0]
  /\ read = [o \in Ops |-> NoDoc]
  /\ updated = [o \in Ops |-> NoEntry]
  /\ second = [o \in Ops |-> NoStamp]
  /\ used = {}
  /\ late = {}

-----------------------------------------------------------------------------
Active == {o \in Ops : step[o] \notin {"ready", "done", "failed"}}

Writing(p) == stage[p] # "idle" /\ ~(stage[p] \in {"refused", "done"} \/ pc[p] \in {"stale", "conflict", "dead"})

EntryFor(o) == pointer.entry[cmd[o].layer]

End(o, outcome) ==
  /\ step' = [step EXCEPT ![o] = outcome]
  /\ read' = [read EXCEPT ![o] = NoDoc]
  /\ updated' = [updated EXCEPT ![o] = NoEntry]
  /\ try' = [try EXCEPT ![o] = 0]
  /\ second' = [second EXCEPT ![o] = NoStamp]

\* The command is entered: where it must be, with every writer stopped.
Enter(o) ==
  /\ step[o] = "ready"
  /\ cmd[o].restore \in Quiesced => Active = {} /\ \A p \in Pubs : ~Writing(p)
  /\ step' = [step EXCEPT ![o] = "read"]
  /\ try' = [try EXCEPT ![o] = 1]
  /\ UNCHANGED <<vars, cmd, read, updated, second, used, late>>

AsExpectedAtFirst(o) == try[o] = 1 => EntryFor(o).run = cmd[o].expected   \* mutant: retries do not look
AsExpected(o) == EntryFor(o).run = cmd[o].expected

\* The document is read; the layer must still be at the expected run.
ReadCurrent(o) ==
  /\ step[o] = "read"
  /\ AsExpected(o)
  /\ cmd[o].restore => EntryFor(o).prev # 0
  /\ read' = [read EXCEPT ![o] = pointer]
  /\ step' = [step EXCEPT ![o] = IF cmd[o].restore THEN "check" ELSE "put"]
  /\ \E s \in OpStamps :
       /\ s \notin used \/ s = second[o]
       /\ second' = [second EXCEPT ![o] = s]
       /\ used' = used \cup {s}
       /\ updated' = [updated EXCEPT ![o] =
                        IF cmd[o].restore
                          THEN [run |-> EntryFor(o).prev, prev |-> 0, stamp |-> s]
                          ELSE NoEntry]
  /\ UNCHANGED <<vars, cmd, try, late>>

\* No catalogue, another current run, or nothing to restore.
ReadOther(o) ==
  /\ step[o] = "read"
  /\ \/ ~AsExpected(o)
     \/ cmd[o].restore /\ EntryFor(o).prev = 0
  /\ End(o, "failed")
  /\ UNCHANGED <<vars, cmd, used, late>>

\* The rollback target is read back before it is restored, as after a publication.
CheckTarget(o) ==
  LET l == cmd[o].layer
      c == updated[o].run
  IN  /\ step[o] = "check"
      /\ Complete(l, c)
      /\ \E S \in SUBSET Tiles :
           /\ Cardinality(S) = Sample \/ S = Tiles
           /\ S \subseteq tiles[l][c]
      /\ step' = [step EXCEPT ![o] = "put"]
      /\ UNCHANGED <<vars, cmd, try, read, updated, second, used, late>>

CheckFails(o) ==
  LET l == cmd[o].layer
      c == updated[o].run
  IN  /\ step[o] = "check"
      /\ ~Whole(l, c)
      /\ End(o, "failed")
      /\ UNCHANGED <<vars, cmd, used, late>>

\* The document as read, with this layer's entry replaced or removed.
NewCatalogue(o) ==
  [exists |-> TRUE,
   updated |-> second[o],
   entry |-> [read[o].entry EXCEPT ![cmd[o].layer] = updated[o]]]

PutChange(o) ==
  /\ step[o] = "put"
  /\ Unchanged(read[o])
  /\ pointer' = NewCatalogue(o)
  /\ End(o, "done")
  /\ UNCHANGED <<pending, job, pc, attempt, base, found, runVars, stepVars, cmd, used, late>>

\* Refused, or the answer is lost: both are settled by a read.
PutUnsettled(o) ==
  /\ step[o] = "put"
  /\ step' = [step EXCEPT ![o] = "settle"]
  /\ \/ ~Unchanged(read[o]) /\ UNCHANGED late
     \/ /\ Lossy
        /\ late' = late \cup {[base |-> read[o], doc |-> NewCatalogue(o), layer |-> cmd[o].layer]}
  /\ UNCHANGED <<vars, cmd, try, read, updated, second, used>>

\* Only this layer's desired entry counts, whoever wrote it.
SettleDone(o) ==
  /\ step[o] = "settle"
  /\ EntryFor(o) = updated[o]
  /\ End(o, "done")
  /\ UNCHANGED <<vars, cmd, used, late>>

SettleAgain(o) ==
  /\ step[o] = "settle"
  /\ EntryFor(o) # updated[o]
  /\ IF try[o] < Attempts
       THEN /\ step' = [step EXCEPT ![o] = "read"]
            /\ try' = [try EXCEPT ![o] = @ + 1]
            /\ read' = [read EXCEPT ![o] = NoDoc]
            /\ UNCHANGED <<updated, second>>
       ELSE End(o, "failed")
  /\ UNCHANGED <<vars, cmd, used, late>>

\* A lost PUT of a command reaches the store after all, or never does.
LateChange(r) ==
  /\ \/ Unchanged(r.base) /\ pointer' = r.doc
     \/ UNCHANGED pointer
  /\ late' = late \ {r}
  /\ UNCHANGED <<pending, job, pc, attempt, base, found, runVars, stepVars>>
  /\ UNCHANGED <<cmd, step, try, read, updated, second, used>>

CommandStep(o) ==
  \/ Enter(o) \/ ReadCurrent(o) \/ ReadOther(o) \/ CheckTarget(o) \/ CheckFails(o)
  \/ PutChange(o) \/ PutUnsettled(o) \/ SettleDone(o) \/ SettleAgain(o)

\* Publishers, while no command excludes them.
Publishers ==
  /\ (\E o \in Active : cmd[o].restore \in Quiesced) => Delayed
  /\ RunNext
  /\ UNCHANGED opVars

CtlNext ==
  \/ Publishers
  \/ \E o \in Ops : CommandStep(o)
  \/ \E r \in late : LateChange(r)

CtlSpec == CtlInit /\ [][CtlNext]_ctlVars

-----------------------------------------------------------------------------
(***************************************************************************)
(* Properties, on RefIntegrity of Publication.                             *)
(***************************************************************************)

\* A layer goes back, or goes, only from the run its operator named: a command
\* never undoes a newer publication, even when its write lands late.
UndoesOnlyExpected ==
  [][\A l \in Layers :
       pointer'.entry[l].run < pointer.entry[l].run =>
         \E o \in Ops : cmd[o].layer = l /\ cmd[o].expected = pointer.entry[l].run]_ctlVars

\* Whatever commands and publishers do, the runs the pointer names are whole; after a
\* rollback, what a publisher was told to retain is still no newer than what the document
\* retains: its retention cannot reach the restored run.
RestoredRunStays ==
  /\ RefIntegrity
  /\ (\A o \in Ops : cmd[o].restore) =>
       \A p \in Pubs : pc[p] = "committed" => Floor(p) <= OldestOf(job[p].layer)

=============================================================================
