---------------------------- MODULE Publication ----------------------------
(***************************************************************************)
(* publish_run of src/ingest/publish.py, whole: the checks before the      *)
(* upload, tiles, manifest last, the post-publish check, the commit of the *)
(* pointer entry (PointerCommit), and retention, which lists the layer's   *)
(* runs, re-reads the pointers before each candidate and deletes its tiles *)
(* before its manifest, one object at a time.                              *)
(*                                                                         *)
(* Runs are immutable and create-only, so the contents of a tile are left  *)
(* to module RunUpload: here a key is stored or not, and a create of a     *)
(* stored key is accepted as identical or refused as different.            *)
(***************************************************************************)
EXTENDS PointerCommit

CONSTANTS
  NTiles,     \* the tiles of a run, numbered in the order they are put
  Sample,     \* tiles _post_publish_check re-reads (3)
  Regional    \* whether the layers are regional: a stored key is then never reused

ASSUME SampleAssumption == Sample \in Nat
ASSUME RegionalAssumption == Regional \in BOOLEAN
ASSUME NTilesAssumption == NTiles \in Nat \ {0}

VARIABLES
  tiles,      \* layer, cycle -> the stored tile keys of that run
  manifest,   \* layer, cycle -> published_at of its stored manifest, or NoStamp
  status,     \* layer -> the run its status document reports
  stage,      \* publisher -> step of publish_run
  sent,       \* publisher -> how many tiles it has stored or found identical
  plan,       \* publisher -> listed runs it has yet to consider for deletion
  victim      \* publisher -> the run it is deleting, with the keys left to delete

runVars == <<tiles, manifest>>
stepVars == <<status, stage, sent, plan, victim>>
vars == <<commitVars, runVars, stepVars>>

-----------------------------------------------------------------------------
Tiles == 1..NTiles
Listed == [run : Cycle, tiles : SUBSET Tiles]   \* a run and its keys, as listed
NoVictim == [run |-> 0, tiles |-> {}]

Stages == {"idle", "probe", "upload", "verify", "commit", "prune", "done", "refused"}

RunTypeOK ==
  /\ TypeOK
  /\ tiles \in [Layers -> [Cycle -> SUBSET Tiles]]
  /\ manifest \in [Layers -> [Cycle -> Stamps \cup {NoStamp}]]
  /\ status \in [Layers -> Run]
  /\ stage \in [Pubs -> Stages]
  /\ sent \in [Pubs -> 0..NTiles]
  /\ plan \in [Pubs -> SUBSET Listed]
  /\ victim \in [Pubs -> Listed \cup {NoVictim}]

Complete(l, c) == manifest[l][c] # NoStamp
Whole(l, c) == Complete(l, c) /\ tiles[l][c] = Tiles

\* referenced_run_ids, for one layer.
Referenced(l, c) == c \in {pointer.entry[l].run, pointer.entry[l].prev}

-----------------------------------------------------------------------------
RunInit ==
  /\ Init
  /\ tiles = [l \in Layers |-> [c \in Cycle |-> {}]]
  /\ manifest = [l \in Layers |-> [c \in Cycle |-> NoStamp]]
  /\ status = [l \in Layers |-> 0]
  /\ stage = [p \in Pubs |-> "idle"]
  /\ sent = [p \in Pubs |-> 0]
  /\ plan = [p \in Pubs |-> {}]
  /\ victim = [p \in Pubs |-> NoVictim]

Goto(p, s) == stage' = [stage EXCEPT ![p] = s]

\* Before any upload: check_not_older against the pointer as read now, and
\* check_storage_guard, which may refuse whatever the pointer says.
Admit(p) ==
  /\ stage[p] = "idle" /\ pc[p] = "ready"
  /\ \/ ~Older(EntryOf(p), job[p]) /\ Goto(p, "probe")
     \/ Goto(p, "refused")
  /\ UNCHANGED <<commitVars, runVars, status, sent, plan, victim>>

\* A stored manifest is final for a regional run; a root run goes on with it when
\* its own differs in nothing, published_at being taken over: published_at is
\* chosen at Init, so the calls that go on are those whose value it is.
Probe(p) ==
  LET stored == manifest[job[p].layer][job[p].run]
  IN  /\ stage[p] = "probe" /\ pc[p] = "ready"
      /\ \/ stored = NoStamp /\ Goto(p, "upload")
         \/ stored = job[p].stamp /\ ~Regional /\ Goto(p, "upload")
         \/ stored # NoStamp /\ Goto(p, "refused")
      /\ UNCHANGED <<commitVars, runVars, status, sent, plan, victim>>

\* put_immutable of the next tile.
PutTile(p) ==
  LET l == job[p].layer
      c == job[p].run
      t == sent[p] + 1
  IN  /\ stage[p] = "upload" /\ pc[p] = "ready"
      /\ t \in Tiles
      /\ \/ /\ t \notin tiles[l][c] \/ ~Regional
            /\ tiles' = [tiles EXCEPT ![l][c] = @ \cup {t}]
            /\ sent' = [sent EXCEPT ![p] = t]
            /\ UNCHANGED stage
         \/ /\ t \in tiles[l][c]
            /\ Goto(p, "refused")
            /\ UNCHANGED <<tiles, sent>>
      /\ UNCHANGED <<commitVars, manifest, status, plan, victim>>

AllSentAssumed(p) == TRUE   \* mutant: the manifest does not wait for the tiles
AllSent(p) == sent[p] = NTiles

\* The manifest, last: its presence marks the run complete.
PutManifest(p) ==
  LET l == job[p].layer
      c == job[p].run
  IN  /\ stage[p] = "upload" /\ pc[p] = "ready"
      /\ AllSent(p)
      /\ \/ /\ manifest[l][c] \in {NoStamp} \cup (IF Regional THEN {} ELSE {job[p].stamp})
            /\ manifest' = [manifest EXCEPT ![l][c] = job[p].stamp]
            /\ Goto(p, "verify")
         \/ /\ manifest[l][c] # NoStamp
            /\ manifest[l][c] # job[p].stamp \/ Regional
            /\ Goto(p, "refused")
            /\ UNCHANGED manifest
      /\ UNCHANGED <<commitVars, tiles, status, sent, plan, victim>>

\* _post_publish_check: the manifest and at most Sample tiles are read back.
Verify(p) ==
  LET l == job[p].layer
      c == job[p].run
      readable == manifest[l][c] = job[p].stamp
  IN  /\ stage[p] = "verify" /\ pc[p] = "ready"
      /\ \/ /\ readable
            /\ \E S \in SUBSET Tiles :
                 /\ Cardinality(S) = Sample \/ S = Tiles
                 /\ S \subseteq tiles[l][c]
            /\ Goto(p, "commit")
            /\ Begin(p)
         \/ /\ ~readable \/ tiles[l][c] # Tiles
            /\ Goto(p, "refused")
            /\ UNCHANGED commitVars
      /\ UNCHANGED <<runVars, status, sent, plan, victim>>

Commit(p) ==
  /\ stage[p] = "commit"
  /\ CommitStep(p)
  /\ UNCHANGED <<runVars, stepVars>>

\* Complete runs older than all that this publisher's commit retains.
AllButOwn(p) == {c \in Cycle : c # job[p].run /\ Complete(job[p].layer, c)}   \* mutant: no floor
Superseded(p) == {c \in Cycle : c < Floor(p) /\ Complete(job[p].layer, c)}

\* apply_retention lists the layer's runs once, after a confirmed commit only.
List(p) ==
  /\ stage[p] = "commit" /\ pc[p] = "committed"
  /\ plan' = [plan EXCEPT ![p] =
                {[run |-> c, tiles |-> tiles[job[p].layer][c]] : c \in Superseded(p)}]
  /\ Goto(p, "prune")
  /\ UNCHANGED <<commitVars, runVars, status, sent, victim>>

\* The next candidate, oldest first; the pointers are read again before it.
Consider(p) ==
  /\ stage[p] = "prune" /\ victim[p] = NoVictim
  /\ \E v \in plan[p] :
       /\ \A w \in plan[p] : v.run <= w.run
       /\ plan' = [plan EXCEPT ![p] = @ \ {v}]
       /\ victim' = [victim EXCEPT ![p] =
                       IF Referenced(job[p].layer, v.run) THEN NoVictim ELSE v]
  /\ UNCHANGED <<commitVars, runVars, status, stage, sent>>

DeleteTile(p, t) ==
  /\ stage[p] = "prune"
  /\ t \in victim[p].tiles
  /\ tiles' = [tiles EXCEPT ![job[p].layer][victim[p].run] = @ \ {t}]
  /\ victim' = [victim EXCEPT ![p].tiles = @ \ {t}]
  /\ UNCHANGED <<commitVars, manifest, status, stage, sent, plan>>

DeleteManifest(p) ==
  /\ stage[p] = "prune"
  /\ victim[p] # NoVictim /\ victim[p].tiles = {}
  /\ manifest' = [manifest EXCEPT ![job[p].layer][victim[p].run] = NoStamp]
  /\ victim' = [victim EXCEPT ![p] = NoVictim]
  /\ UNCHANGED <<commitVars, tiles, status, stage, sent, plan>>

\* Retention is through: the status document, last, whatever it reported before.
PutStatus(p) ==
  /\ stage[p] = "prune"
  /\ plan[p] = {} /\ victim[p] = NoVictim
  /\ status' = [status EXCEPT ![job[p].layer] = job[p].run]
  /\ Goto(p, "done")
  /\ UNCHANGED <<commitVars, runVars, sent, plan, victim>>

\* Retention or the status write fails, or the job is killed inside them.
Leave(p) ==
  /\ Lossy
  /\ stage[p] = "prune"
  /\ Goto(p, "done")
  /\ plan' = [plan EXCEPT ![p] = {}]
  /\ victim' = [victim EXCEPT ![p] = NoVictim]
  /\ UNCHANGED <<commitVars, runVars, status, sent>>

\* The job is killed, or an error no retry covers is raised, before its commit is
\* confirmed; whatever it stored stays.
Die(p) ==
  /\ stage[p] \notin {"idle", "refused"}
  /\ Crash(p)
  /\ UNCHANGED <<runVars, stepVars>>

PubStep(p) ==
  \/ Admit(p) \/ Probe(p) \/ PutTile(p) \/ PutManifest(p) \/ Verify(p) \/ Commit(p)
  \/ List(p) \/ Consider(p) \/ \E t \in Tiles : DeleteTile(p, t)
  \/ DeleteManifest(p) \/ PutStatus(p) \/ Leave(p)

Delayed == StoreStep /\ UNCHANGED <<runVars, stepVars>>

RunNext == (\E p \in Pubs : PubStep(p) \/ Die(p)) \/ Delayed

RunSpec == RunInit /\ [][RunNext]_vars

RunFairSpec == RunSpec /\ \A p \in Pubs : WF_vars(PubStep(p))

-----------------------------------------------------------------------------
(***************************************************************************)
(* Properties.                                                             *)
(***************************************************************************)
OldestOf(l) == Oldest(pointer.entry[l])

Over(p) ==
  \/ stage[p] \in {"refused", "done"}
  \/ stage[p] = "commit" /\ pc[p] \in {"stale", "conflict"}
  \/ pc[p] = "dead"

\* Every run the pointer names, current or previous, is there with its manifest and
\* every tile, however retention, late writes and crashes interleave.
RefIntegrity ==
  \A l \in Layers, c \in Cycle : Referenced(l, c) => Whole(l, c)

\* A manifest vouches for its tiles for as long as its run is not superseded: only
\* a run older than all the pointer retains may be half deleted.
CompleteIsWhole ==
  \A l \in Layers, c \in Cycle :
    Complete(l, c) /\ c >= OldestOf(l) => tiles[l][c] = Tiles

\* Nothing is deleted but objects of runs older than all the pointer retains at
\* that moment: never a referenced run, nor one newer than it still uploading.
OnlySupersededDeleted ==
  [][\A l \in Layers, c \in Cycle :
       \/ ~(tiles[l][c] \subseteq tiles'[l][c])
       \/ Complete(l, c) /\ ~Complete(l, c)'
       => c < OldestOf(l)]_vars

\* Status never reports a run the pointer has not reached, though it may fall back:
\* nothing orders the status writes of two publishers.
StatusBehind == \A l \in Layers : status[l] <= pointer.entry[l].run

\* When every call is over and none died, a superseded complete run is left only
\* by a call that was overtaken: the others have pruned all they should.
NoLeak ==
  (\A p \in Pubs : Over(p)) =>
    \A l \in Layers, c \in Cycle :
      Complete(l, c) /\ c < OldestOf(l) =>
        \E p \in Pubs : job[p].layer = l /\ job[p].run = c /\ pc[p] # "committed"

\* With as many attempts as publishers, nothing lost and nobody killed, every publication
\* comes to its end, retention and status included, unless it is refused or overtaken, and
\* none for want of attempts: each lost race is another one's commit.
EveryRunEnds == \A p \in Pubs : <>(Over(p) /\ pc[p] # "conflict")

=============================================================================
