------------------------------ MODULE LandIndex ------------------------------
(***************************************************************************)
(* publish_index of src/ingest/land/publish.py: routing indexes, one       *)
(* pointer entry per domain in land-index/latest.json, moved without       *)
(* cycles or stamps.  An index id is its domain and the hour of its build, *)
(* so two builds of one hour share an id and differ in their bytes, which  *)
(* carry the second of the build: contents are the publisher's.            *)
(*                                                                         *)
(* The creation of one object is one step: RunUpload has its answers.      *)
(***************************************************************************)
EXTENDS Naturals, FiniteSets, FiniteSetsExt

CONSTANTS
  Domains,       \* DOMAINS of land/build.py
  Builders,      \* processes of `ingest land`
  LastHour,      \* bound on the hours of builds; hour 0 is "no index"
  LandTiles,     \* a domain's tiles are 1..LandTiles, uploaded in that order
  LandSample,    \* of them the check after the upload reads, 2
  LandAttempts,  \* of the pointer's compare-and-swap, 6
  LandLossy      \* whether answers are lost and processes killed

ASSUME LandConstants ==
  /\ {LastHour, LandTiles, LandSample, LandAttempts} \subseteq Nat \ {0}
  /\ LandSample <= LandTiles /\ LandLossy \in BOOLEAN

VARIABLES
  latest,      \* land-index/latest.json: domain -> its current and previous index
  indexes,     \* stored objects: domain, hour, tile (or the manifest, 0), and whose bytes
  landStatus,  \* status/land-index.json
  requests,    \* puts of the pointer whose answer was lost
  build,       \* builder -> the domain and hour of its index
  phase,       \* builder -> where it is
  round,       \* builder -> the tile it uploads, or its attempt at the pointer
  seen,        \* builder -> the pointer document it read
  kept,        \* builder -> previous_index_id, as _update_latest returned it
  todo,        \* builder -> the older indexes retention still has to look at
  keys         \* builder -> objects it listed and has still to delete

landVars == <<latest, indexes, landStatus, requests, build, phase, round, seen, kept, todo, keys>>

-----------------------------------------------------------------------------
Hours == 1..LastHour
Hour == 0..LastHour
LandEntry == [index : Hour, prev : Hour]
Pointers == [Domains -> LandEntry]
NoPointer == [d \in Domains |-> [index |-> 0, prev |-> 0]]
Build == [domain : Domains, hour : Hours]
Object == [domain : Domains, hour : Hours, tile : 0..LandTiles, by : Builders]
Phases == {"start", "admit", "tiles", "manifest", "check", "read", "put", "settle",
           "list", "prune", "recheck", "delete", "status"}
LandEnded == {"ok", "refused", "stale", "conflict", "failed"}

LandTypeOK ==
  /\ latest \in Pointers /\ indexes \subseteq Object
  /\ landStatus \in Build \cup {[domain |-> d, hour |-> 0] : d \in Domains}
  /\ requests \subseteq [seen : Pointers, build : Build]
  /\ build \in [Builders -> Build] /\ phase \in [Builders -> Phases \cup LandEnded]
  /\ round \in [Builders -> Nat] /\ seen \in [Builders -> Pointers]
  /\ kept \in [Builders -> Hour] /\ todo \in [Builders -> SUBSET Hours]
  /\ keys \in [Builders -> SUBSET (0..LandTiles)]

LandInit ==
  /\ latest = NoPointer /\ indexes = {} /\ requests = {}
  /\ landStatus \in {[domain |-> d, hour |-> 0] : d \in Domains}
  /\ build \in [Builders -> Build]
  /\ phase = [b \in Builders |-> "start"]
  /\ round = [b \in Builders |-> 1]
  /\ seen = [b \in Builders |-> NoPointer]
  /\ kept = [b \in Builders |-> 0]
  /\ todo = [b \in Builders |-> {}]
  /\ keys = [b \in Builders |-> {}]

LandGo(b, p) == phase' = [phase EXCEPT ![b] = p]
ObjectOf(b, tile) ==
  [domain |-> build[b].domain, hour |-> build[b].hour, tile |-> tile, by |-> b]
At(d, h, tile) == {o \in indexes : o.domain = d /\ o.hour = h /\ o.tile = tile}
EntryAt(b) == latest[build[b].domain]

-----------------------------------------------------------------------------
(***************************************************************************)
(* Up to the pointer.                                                      *)
(***************************************************************************)
\* Bytes carry the second of their build: a manifest of this id is another build's.
StartLand(b) ==
  /\ phase[b] = "start"
  /\ LandGo(b, IF At(build[b].domain, build[b].hour, 0) = {} THEN "admit" ELSE "refused")
  /\ UNCHANGED <<latest, indexes, landStatus, requests, build, round, seen, kept, todo, keys>>

\* A newer index is named already, or the byte guards refuse: nothing is uploaded.
AdmitLand(b) ==
  /\ phase[b] = "admit"
  /\ IF EntryAt(b).index > build[b].hour
       THEN LandGo(b, "stale")
       ELSE LandGo(b, "tiles") \/ LandGo(b, "refused")
  /\ UNCHANGED <<latest, indexes, landStatus, requests, build, round, seen, kept, todo, keys>>

\* put_immutable: create, or find the very same bytes.
CreateOver(b, tile) ==   \* mutant: an unconditional put
  indexes' = {o \in indexes : o \notin At(build[b].domain, build[b].hour, tile)}
               \cup {ObjectOf(b, tile)}
Create(b, tile) ==
  /\ At(build[b].domain, build[b].hour, tile) \subseteq {ObjectOf(b, tile)}
  /\ indexes' = indexes \cup {ObjectOf(b, tile)}

UploadTile(b) ==
  /\ phase[b] = "tiles"
  /\ Create(b, round[b])
  /\ IF round[b] < LandTiles
       THEN round' = [round EXCEPT ![b] = @ + 1] /\ UNCHANGED phase
       ELSE LandGo(b, "manifest") /\ UNCHANGED round
  /\ UNCHANGED <<latest, landStatus, requests, build, seen, kept, todo, keys>>

UploadManifest(b) ==
  /\ phase[b] = "manifest"
  /\ Create(b, 0)
  /\ LandGo(b, "check")
  /\ UNCHANGED <<latest, landStatus, requests, build, round, seen, kept, todo, keys>>

\* Another build of this hour was first.
Taken(b) ==
  /\ phase[b] \in {"tiles", "manifest"}
  /\ LET tile == IF phase[b] = "tiles" THEN round[b] ELSE 0
     IN  At(build[b].domain, build[b].hour, tile) \ {ObjectOf(b, tile)} # {}
  /\ LandGo(b, "failed")
  /\ UNCHANGED <<latest, indexes, landStatus, requests, build, round, seen, kept, todo, keys>>

\* _post_publish_check: the manifest and a sample of the tiles.
CheckIndex(b) ==
  /\ phase[b] = "check"
  /\ \E sample \in kSubset(LandSample, 1..LandTiles) :
       IF \A tile \in sample \cup {0} : ObjectOf(b, tile) \in indexes
         THEN LandGo(b, "read") /\ round' = [round EXCEPT ![b] = 1]
         ELSE LandGo(b, "failed") /\ UNCHANGED round
  /\ UNCHANGED <<latest, indexes, landStatus, requests, build, seen, kept, todo, keys>>

-----------------------------------------------------------------------------
(***************************************************************************)
(* _update_latest.                                                         *)
(***************************************************************************)
NewerThan(e, hour) == e.index > hour

\* The entry names this very index: an earlier put of ours arrived.
Told(b, prev) == LandGo(b, "list") /\ kept' = [kept EXCEPT ![b] = prev]

\* This domain's entry replaced, every other one as it was read.
MovedAlone(doc, j) ==   \* mutant: the other domains are not carried over
  [NoPointer EXCEPT ![j.domain] = [index |-> j.hour, prev |-> doc[j.domain].index]]
Moved(doc, j) ==
  [doc EXCEPT ![j.domain] = [index |-> j.hour, prev |-> doc[j.domain].index]]

ReadLatest(b) ==
  /\ phase[b] = "read"
  /\ IF EntryAt(b).index = build[b].hour THEN Told(b, EntryAt(b).prev) /\ UNCHANGED seen
     ELSE IF NewerThan(EntryAt(b), build[b].hour)
       THEN LandGo(b, "stale") /\ UNCHANGED <<seen, kept>>
       ELSE LandGo(b, "put") /\ seen' = [seen EXCEPT ![b] = latest] /\ UNCHANGED kept
  /\ UNCHANGED <<latest, indexes, landStatus, requests, build, round, todo, keys>>

PutLatest(b) ==
  /\ phase[b] = "put" /\ latest = seen[b]
  /\ latest' = Moved(seen[b], build[b])
  /\ Told(b, seen[b][build[b].domain].index)
  /\ seen' = [seen EXCEPT ![b] = NoPointer]
  /\ UNCHANGED <<indexes, landStatus, requests, build, round, todo, keys>>

\* PreconditionFailed, or UncertainWriteError: read again before anything else.
PutLatestFails(b) ==
  /\ phase[b] = "put"
  /\ \/ latest # seen[b] /\ UNCHANGED requests
     \/ LandLossy /\ requests' = requests \cup {[seen |-> seen[b], build |-> build[b]]}
  /\ IF round[b] < LandAttempts
       THEN LandGo(b, "read") /\ round' = [round EXCEPT ![b] = @ + 1]
       ELSE LandGo(b, "settle") /\ UNCHANGED round
  /\ seen' = [seen EXCEPT ![b] = NoPointer]
  /\ UNCHANGED <<latest, indexes, landStatus, build, kept, todo, keys>>

SettleLatest(b) ==
  /\ phase[b] = "settle"
  /\ IF EntryAt(b).index = build[b].hour
       THEN Told(b, EntryAt(b).prev)
       ELSE LandGo(b, "conflict") /\ UNCHANGED kept
  /\ UNCHANGED <<latest, indexes, landStatus, requests, build, round, seen, todo, keys>>

-----------------------------------------------------------------------------
(***************************************************************************)
(* Retention and status.                                                   *)
(***************************************************************************)
HoursOf(d) == {o.hour : o \in {x \in indexes : x.domain = d}}
OldestKept(b) == IF kept[b] = 0 THEN build[b].hour ELSE kept[b]

\* existing_index_ids, and the skips that need no further read.
Superseded(b) == {h \in HoursOf(build[b].domain) : h < OldestKept(b)}

PruneOn(b) == LandGo(b, IF todo'[b] = {} THEN "status" ELSE "prune")

ListIndexes(b) ==
  /\ phase[b] = "list"
  /\ todo' = [todo EXCEPT ![b] = Superseded(b)]
  /\ PruneOn(b)
  /\ UNCHANGED <<latest, indexes, landStatus, requests, build, round, seen, kept, keys>>

PruneSkip(b) ==
  /\ todo' = [todo EXCEPT ![b] = @ \ {Min(@)}]
  /\ PruneOn(b)

\* Oldest first.  An index without a manifest may still be uploading.
ListKeys(b) ==
  /\ phase[b] = "prune"
  /\ LET stored == {o \in indexes : o.domain = build[b].domain /\ o.hour = Min(todo[b])}
         tiles == {o.tile : o \in stored}
     IN  IF 0 \in tiles
           THEN LandGo(b, "recheck") /\ keys' = [keys EXCEPT ![b] = tiles] /\ UNCHANGED todo
           ELSE PruneSkip(b) /\ UNCHANGED keys
  /\ UNCHANGED <<latest, indexes, landStatus, requests, build, round, seen, kept>>

RecheckLatest(b) ==
  /\ phase[b] = "recheck"
  /\ IF Min(todo[b]) \in {EntryAt(b).index, EntryAt(b).prev}
       THEN PruneSkip(b) /\ keys' = [keys EXCEPT ![b] = {}]
       ELSE LandGo(b, "delete") /\ UNCHANGED <<todo, keys>>
  /\ UNCHANGED <<latest, indexes, landStatus, requests, build, round, seen, kept>>

\* Key by key, the manifest last.
DeleteObject(b) ==
  /\ phase[b] = "delete"
  /\ LET tile == IF keys[b] = {0} THEN 0 ELSE Min(keys[b] \ {0})
     IN  /\ indexes' = indexes \ At(build[b].domain, Min(todo[b]), tile)
         /\ keys' = [keys EXCEPT ![b] = @ \ {tile}]
         /\ IF tile = 0 THEN PruneSkip(b) ELSE UNCHANGED <<todo, phase>>
  /\ UNCHANGED <<latest, landStatus, requests, build, round, seen, kept>>

PutLandStatus(b) ==
  /\ phase[b] = "status"
  /\ landStatus' = build[b]
  /\ LandGo(b, "ok")
  /\ UNCHANGED <<latest, indexes, requests, build, round, seen, kept, todo, keys>>

\* Killed, or a request that raises.
Abort(b) ==
  /\ LandLossy /\ phase[b] \in Phases
  /\ LandGo(b, "failed")
  /\ UNCHANGED <<latest, indexes, landStatus, requests, build, round, seen, kept, todo, keys>>

\* A put whose answer was lost arrives, or is refused there.
Arrive(r) ==
  /\ requests' = requests \ {r}
  /\ latest' = IF latest = r.seen THEN Moved(r.seen, r.build) ELSE latest
  /\ UNCHANGED <<indexes, landStatus, build, phase, round, seen, kept, todo, keys>>

BuilderStep(b) ==
  \/ StartLand(b) \/ AdmitLand(b) \/ UploadTile(b) \/ UploadManifest(b) \/ Taken(b)
  \/ CheckIndex(b)
  \/ ReadLatest(b) \/ PutLatest(b) \/ PutLatestFails(b) \/ SettleLatest(b)
  \/ ListIndexes(b) \/ ListKeys(b) \/ RecheckLatest(b) \/ DeleteObject(b) \/ PutLandStatus(b)

LandNext ==
  \/ \E b \in Builders : BuilderStep(b) \/ Abort(b)
  \/ \E r \in requests : Arrive(r)

LandSpec == LandInit /\ [][LandNext]_landVars

-----------------------------------------------------------------------------
(***************************************************************************)
(* Properties.                                                             *)
(***************************************************************************)
\* Every index the pointer names, current or previous, of any domain, has its manifest
\* and all its tiles, of one build: whatever retention of an older publication is still
\* deleting, whoever was killed, and whichever lost put arrives late.
NamedWhole(d, h) ==
  \E b \in Builders : \A tile \in 0..LandTiles :
    [domain |-> d, hour |-> h, tile |-> tile, by |-> b] \in indexes
LandIntegrity ==
  \A d \in Domains : \A h \in {latest[d].index, latest[d].prev} \ {0} : NamedWhole(d, h)

\* The document of the land index implements the register of forecast layers, though its
\* protocol is another: no stamps, and a repeated hour is not written again.
LandRegister ==
  INSTANCE LayerRegister
    WITH Layers <- Domains, MaxCycle <- LastHour,
         current <- [d \in Domains |-> latest[d].index],
         previous <- [d \in Domains |-> latest[d].prev]

LandImplementsRegister == LandRegister!Spec

=============================================================================
