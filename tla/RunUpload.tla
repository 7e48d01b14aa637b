----------------------------- MODULE RunUpload -----------------------------
(***************************************************************************)
(* The upload of one run by several processes of the same layer and cycle, *)
(* down to the bytes: publish_run of src/ingest/publish.py from its look   *)
(* at a stored manifest to the post-publish check, with put_immutable and  *)
(* _reuse_partial_root_tiles.  A job may be started again, by hand or by   *)
(* the dispatcher, while an earlier one is uploading or after it died.     *)
(*                                                                         *)
(* The bytes of a tile are its data, which follow from the provider's      *)
(* cycle, and for a root layer the second it was built in (generated_at),  *)
(* which the next process does not share.  What another run, retention or  *)
(* the audit does to these keys is the business of other modules.          *)
(***************************************************************************)
EXTENDS Naturals, FiniteSets

CONSTANTS
  Procs,      \* the processes
  UpTiles,    \* the tiles of the run, in the order they are put
  Data,       \* the data a cycle's tiles may have been built from
  Seconds,    \* values of generated_at and published_at
  Tries,      \* attempts of put_immutable, 3
  UpSample,   \* tiles the post-publish check reads back, 3
  UpLossy,    \* whether the answer to a create may be lost
  Mortal,     \* whether a process may be killed, or fail outside these steps
  Absent,     \* no object at a tile's key
  NoManifest  \* none at the manifest's

ASSUME UploadNumbers == UpTiles \in Nat \ {0} /\ Tries \in Nat \ {0} /\ UpSample \in Nat
ASSUME UploadSwitches == {UpLossy, Mortal} \subseteq BOOLEAN

VARIABLES
  regional,   \* whether the layer is regional: built reproducibly, and nothing is ever resumed
  store,      \* tile -> its stored bytes, or Absent
  stored,     \* the stored manifest, or NoManifest
  inflight,   \* creates whose answer was lost, neither applied nor dropped yet
  upStage,    \* process -> where it is
  data,       \* process -> the data it built its tiles from
  mine,       \* process -> tile -> the bytes it publishes
  second,     \* process -> published_at of the manifest it publishes
  upSent,     \* process -> tiles stored or found identical
  tries       \* process -> attempts of the put under way

uploadVars == <<regional, store, stored, inflight, upStage, data, mine, second, upSent, tries>>

-----------------------------------------------------------------------------
Tile == 1..UpTiles
Key == 0..UpTiles        \* 0 is manifest.json
Bytes == [data : Data, built : Seconds]
RunManifest == [published : Seconds, tiles : [Tile -> Bytes]]

ASSUME AbsenceAssumption == Absent \notin Bytes /\ NoManifest \notin RunManifest

UpStages == {"ready", "reuse", "put", "settle", "verify", "verified", "refused", "failed", "dead"}
UpEnded == {"verified", "refused", "failed", "dead"}

UploadTypeOK ==
  /\ regional \in BOOLEAN
  /\ store \in [Tile -> Bytes \cup {Absent}]
  /\ stored \in RunManifest \cup {NoManifest}
  /\ inflight \subseteq [key : Tile, object : Bytes] \cup [key : {0}, object : RunManifest]
  /\ upStage \in [Procs -> UpStages]
  /\ data \in [Procs -> Data]
  /\ mine \in [Procs -> [Tile -> Bytes]]
  /\ second \in [Procs -> Seconds]
  /\ upSent \in [Procs -> 0..(UpTiles + 1)]
  /\ tries \in [Procs -> 1..Tries]

\* A process builds all its tiles in one second; regional tiles carry the cycle's.
UploadInit ==
  /\ regional \in BOOLEAN
  /\ store = [t \in Tile |-> Absent]
  /\ stored = NoManifest
  /\ inflight = {}
  /\ upStage = [p \in Procs |-> "ready"]
  /\ data \in [Procs -> Data]
  /\ \E built \in [Procs -> Seconds] :
       /\ regional => \A p, q \in Procs : built[p] = built[q]
       /\ mine = [p \in Procs |-> [t \in Tile |-> [data |-> data[p], built |-> built[p]]]]
  /\ second \in [Procs -> Seconds]
  /\ upSent = [p \in Procs |-> 0]
  /\ tries = [p \in Procs |-> 1]

-----------------------------------------------------------------------------
UpGoto(p, s) == upStage' = [upStage EXCEPT ![p] = s]

Mine(p) == [published |-> second[p], tiles |-> mine[p]]

\* The key p puts next, its object, and what is stored there: tiles, then the manifest.
NextKey(p) == IF upSent[p] < UpTiles THEN upSent[p] + 1 ELSE 0
Object(p) == IF NextKey(p) = 0 THEN Mine(p) ELSE mine[p][NextKey(p)]
StoredAt(k) == IF k = 0 THEN stored ELSE store[k]
Overwritable(k) == TRUE   \* mutant: puts are not conditional
Missing(k) == StoredAt(k) = IF k = 0 THEN NoManifest ELSE Absent

\* A create, If-None-Match: *.
Create(k, object) ==
  IF k = 0
    THEN stored' = object /\ UNCHANGED store
    ELSE store' = [store EXCEPT ![k] = object] /\ UNCHANGED stored

\* What a put refused by the store accepts as its own.
IdenticalAccepted(p) == StoredAt(NextKey(p)) = Object(p)   \* mutant: in a regional run too
Identical(p) == ~regional /\ StoredAt(NextKey(p)) = Object(p)

\* Before any upload: a stored manifest is final for a regional run; a root run may
\* only repeat it byte for byte, its published_at taken over.
Look(p) ==
  /\ upStage[p] = "ready"
  /\ \/ stored = NoManifest /\ UpGoto(p, IF regional THEN "put" ELSE "reuse") /\ UNCHANGED second
     \/ /\ stored # NoManifest /\ ~regional
        /\ mine[p] = stored.tiles
        /\ second' = [second EXCEPT ![p] = stored.published]
        /\ UpGoto(p, "put")
     \/ /\ stored # NoManifest /\ (regional \/ mine[p] # stored.tiles)
        /\ UpGoto(p, "refused") /\ UNCHANGED second
  /\ UNCHANGED <<store, stored, inflight, data, mine, upSent, tries>>

\* A stored tile of the same decoded data, whatever second it was built in.
SameDataAssumed(p, t) == TRUE   \* mutant: not compared
SameData(p, t) == store[t].data = mine[p][t].data

\* The bytes a process goes on with: those of the stored tiles where there are any.
OwnBytes(p) == mine[p]   \* mutant: its own
Resumed(p) == [t \in Tile |-> IF store[t] # Absent THEN store[t] ELSE mine[p][t]]

\* _reuse_partial_root_tiles: stored tiles with the same data are taken as they are;
\* other data, or a manifest by now, refuses.
Reuse(p) ==
  /\ upStage[p] = "reuse"
  /\ IF stored = NoManifest /\ \A t \in Tile : store[t] # Absent => SameData(p, t)
       THEN mine' = [mine EXCEPT ![p] = Resumed(p)] /\ UpGoto(p, "put")
       ELSE UpGoto(p, "refused") /\ UNCHANGED mine
  /\ UNCHANGED <<store, stored, inflight, data, second, upSent, tries>>

Advance(p) ==
  /\ upSent' = [upSent EXCEPT ![p] = @ + 1]
  /\ tries' = [tries EXCEPT ![p] = 1]
  /\ UpGoto(p, IF NextKey(p) = 0 THEN "verify" ELSE "put")

\* The store creates the object.
PutCreated(p) ==
  /\ upStage[p] = "put"
  /\ Missing(NextKey(p))
  /\ Create(NextKey(p), Object(p))
  /\ Advance(p)
  /\ UNCHANGED <<inflight, data, mine, second>>

\* PreconditionFailed: a root put accepts identical bytes.
CreateRefused(p) ==
  /\ upStage[p] = "put"
  /\ ~Missing(NextKey(p))
  /\ IF Identical(p)
       THEN Advance(p)
       ELSE UpGoto(p, "refused") /\ UNCHANGED <<upSent, tries>>
  /\ UNCHANGED <<store, stored, inflight, data, mine, second>>

\* UncertainWriteError: a root put reads the key back, a regional one gives up.
CreateUnknown(p) ==
  /\ UpLossy
  /\ upStage[p] = "put"
  /\ inflight' = inflight \cup {[key |-> NextKey(p), object |-> Object(p)]}
  /\ UpGoto(p, IF regional THEN "failed" ELSE "settle")
  /\ UNCHANGED <<store, stored, data, mine, second, upSent, tries>>

MayRetry(p) == tries[p] < Tries

SettleAssumed(p) ==   \* mutant: the write is taken for done
  /\ upStage[p] = "settle"
  /\ Advance(p)
  /\ UNCHANGED <<store, stored, inflight, data, mine, second>>

\* The read that settles it: there, retried when absent, or given up.
Settle(p) ==
  /\ upStage[p] = "settle"
  /\ \/ StoredAt(NextKey(p)) = Object(p) /\ Advance(p)
     \/ /\ Missing(NextKey(p)) /\ MayRetry(p)
        /\ tries' = [tries EXCEPT ![p] = @ + 1]
        /\ UpGoto(p, "put")
        /\ UNCHANGED upSent
     \/ /\ IF Missing(NextKey(p)) THEN ~MayRetry(p) ELSE StoredAt(NextKey(p)) # Object(p)
        /\ UpGoto(p, "failed")
        /\ UNCHANGED <<upSent, tries>>
  /\ UNCHANGED <<store, stored, inflight, data, mine, second>>

\* _post_publish_check.
PostCheck(p) ==
  /\ upStage[p] = "verify"
  /\ IF stored = Mine(p)
       THEN \E S \in SUBSET Tile :
              /\ Cardinality(S) = UpSample \/ S = Tile
              /\ UpGoto(p, IF \A t \in S : store[t] = mine[p][t] THEN "verified" ELSE "failed")
       ELSE UpGoto(p, "failed")
  /\ UNCHANGED <<store, stored, inflight, data, mine, second, upSent, tries>>

\* Killed, refused by the storage guard, or failed in a read.
UpDie(p) ==
  /\ Mortal
  /\ upStage[p] \notin UpEnded
  /\ UpGoto(p, "dead")
  /\ UNCHANGED <<store, stored, inflight, data, mine, second, upSent, tries>>

\* A create whose answer was lost reaches the store after all, or never does.
LateCreate ==
  \E r \in inflight :
    /\ inflight' = inflight \ {r}
    /\ \/ Missing(r.key) /\ Create(r.key, r.object)
       \/ UNCHANGED <<store, stored>>
    /\ UNCHANGED <<upStage, data, mine, second, upSent, tries>>

Step(p) ==
  /\ \/ Look(p) \/ Reuse(p)
     \/ PutCreated(p) \/ CreateRefused(p) \/ CreateUnknown(p) \/ Settle(p)
     \/ PostCheck(p)
  /\ UNCHANGED regional

UploadNext ==
  \/ \E p \in Procs : Step(p)
  \/ (LateCreate \/ \E p \in Procs : UpDie(p)) /\ UNCHANGED regional

UploadSpec == UploadInit /\ [][UploadNext]_uploadVars

UploadFairSpec == UploadSpec /\ \A p \in Procs : WF_uploadVars(Step(p))

-----------------------------------------------------------------------------
(***************************************************************************)
(* Properties.                                                             *)
(***************************************************************************)

\* A stored manifest names the bytes that are stored, every one: not those of the
\* process that lost a race, nor those of a create that never arrived.
ManifestMatches ==
  stored # NoManifest => \A t \in Tile : store[t] = stored.tiles[t]

\* A process that goes on to the commit published the stored manifest, and no
\* later step of any process changes it under the pointer.
VerifiedIsStored ==
  \A p \in Procs : upStage[p] = "verified" => stored = Mine(p)

\* One run never mixes two versions of the provider's data.
OneVersion ==
  \A t, u \in Tile :
    stored # NoManifest => stored.tiles[t].data = stored.tiles[u].data

\* A regional run is published by one process at most.
RegionalOnce ==
  regional =>
    \A p, q \in Procs :
      upStage[p] \in {"verify", "verified"} /\ upStage[q] \in {"verify", "verified"} => p = q

\* Process p has the run to itself from the start.
Alone(p) ==
  /\ upStage[p] = "ready"
  /\ inflight = {}
  /\ \A q \in Procs \ {p} : upStage[q] \in UpEnded

\* A root run that a job left behind incomplete is completed by the next job with the
\* same data, whatever seconds the two were built in: it may be killed or give up a
\* create whose answers are lost, but it is not refused.
Resumable ==
  \A p \in Procs :
    /\ Alone(p) /\ ~regional
    /\ stored = NoManifest
    /\ \A t \in Tile : store[t] # Absent => store[t].data = data[p]
    ~> upStage[p] \in {"verified", "dead"} \cup (IF UpLossy THEN {"failed"} ELSE {})

\* A complete root run is published again by a job with the same data.
ForceRepublishes ==
  \A p \in Procs :
    /\ Alone(p) /\ ~regional
    /\ stored # NoManifest
    /\ \A t \in Tile : store[t].data = data[p]
    ~> upStage[p] \in {"verified", "dead"}

=============================================================================
