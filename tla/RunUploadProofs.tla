-------------------------- MODULE RunUploadProofs --------------------------
(***************************************************************************)
(* Theorems about RunUpload: the stored manifest describes the stored      *)
(* tiles, for any number of processes, tiles and attempts, whatever is     *)
(* lost, late or killed.                                                   *)
(***************************************************************************)
EXTENDS RunUpload, TLAPS

-----------------------------------------------------------------------------
(***************************************************************************)
(* The inductive invariant.                                                *)
(***************************************************************************)

\* A process counts its tiles only after the upload has begun, and not too far.
Counted ==
  \A p \in Procs :
    /\ upStage[p] \in {"ready", "reuse"} => upSent[p] = 0
    /\ upStage[p] \in {"put", "settle"} => upSent[p] <= UpTiles

\* The tiles a process counts are stored with its own bytes.
CountedStored ==
  \A p \in Procs :
    upStage[p] \in {"put", "settle", "verify", "verified"} =>
      \A t \in Tile : t <= upSent[p] => store[t] = mine[p][t]

\* Once past the manifest, its own is the stored one.
PublishedStored ==
  \A p \in Procs : upStage[p] \in {"verify", "verified"} => stored = Mine(p)

\* A manifest on its way describes what is stored already.
LateMatches ==
  \A r \in inflight : r.key = 0 => \A t \in Tile : store[t] = r.object.tiles[t]

UploadInv ==
  /\ UploadTypeOK
  /\ Counted /\ CountedStored /\ PublishedStored /\ LateMatches
  /\ ManifestMatches

-----------------------------------------------------------------------------
(***************************************************************************)
(* Keys and objects.                                                       *)
(***************************************************************************)
LEMMA ObjectType ==
  ASSUME UploadTypeOK, Counted, NEW p \in Procs, upStage[p] \in {"put", "settle"}
  PROVE  \/ /\ NextKey(p) = 0 /\ upSent[p] = UpTiles
            /\ Object(p) = Mine(p) /\ Object(p) \in RunManifest
         \/ /\ NextKey(p) \in Tile /\ NextKey(p) = upSent[p] + 1 /\ upSent[p] < UpTiles
            /\ Object(p) = mine[p][NextKey(p)] /\ Object(p) \in Bytes
<1>1. upSent[p] \in 0..UpTiles /\ UpTiles \in Nat
  BY UploadNumbers DEF UploadTypeOK, Counted
<1>2. CASE upSent[p] = UpTiles
  BY <1>1, <1>2 DEF NextKey, Object, Mine, RunManifest, UploadTypeOK
<1>3. CASE upSent[p] < UpTiles
  <2>1. NextKey(p) = upSent[p] + 1 /\ NextKey(p) \in Tile /\ NextKey(p) # 0
    BY <1>1, <1>3 DEF NextKey, Tile
  <2>2. QED
    BY <1>3, <2>1 DEF Object, UploadTypeOK
<1>4. QED
  BY <1>1, <1>2, <1>3

\* What a create may do: it fills one empty key.
Fills(k, object) ==
  /\ Missing(k)
  /\ Create(k, object)

\* A create that fills a key replaces nothing and touches no other key.
LEMMA FillsKeeps ==
  ASSUME UploadTypeOK, NEW k \in Key, NEW object, Fills(k, object),
         k = 0 => object \in RunManifest,
         k # 0 => object \in Bytes
  PROVE  /\ store' \in [Tile -> Bytes \cup {Absent}]
         /\ stored' \in RunManifest \cup {NoManifest}
         /\ \A t \in Tile : store[t] # Absent => store'[t] = store[t]
         /\ stored # NoManifest => stored' = stored
         /\ k = 0 => stored' = object /\ store' = store
         /\ k # 0 => store'[k] = object /\ stored' = stored
<1>1. CASE k = 0
  BY <1>1 DEF Fills, Create, Missing, StoredAt, UploadTypeOK
<1>2. CASE k # 0
  <2>1. k \in Tile
    BY <1>2, UploadNumbers DEF Key, Tile
  <2>2. store[k] = Absent /\ store' = [store EXCEPT ![k] = object] /\ stored' = stored
    BY <1>2 DEF Fills, Create, Missing, StoredAt
  <2>3. QED
    BY <1>2, <2>1, <2>2 DEF UploadTypeOK
<1>3. QED
  BY <1>1, <1>2

\* Every step leaves the store alone or fills one empty key, with an object whose
\* manifest, if it is one, matches the stored tiles.
LEMMA StepFills ==
  ASSUME UploadInv, UploadNext
  PROVE  \/ UNCHANGED <<store, stored>>
         \/ \E k \in Key, object \in Bytes \cup RunManifest :
              /\ Fills(k, object)
              /\ k = 0 => object \in RunManifest /\ \A t \in Tile : store[t] = object.tiles[t]
              /\ k # 0 => object \in Bytes
<1> USE DEF UploadInv
<1>1. ASSUME NEW p \in Procs, PutCreated(p)
      PROVE  \E k \in Key, object \in Bytes \cup RunManifest :
               /\ Fills(k, object)
               /\ k = 0 => object \in RunManifest /\ \A t \in Tile : store[t] = object.tiles[t]
               /\ k # 0 => object \in Bytes
  <2>1. upStage[p] = "put" /\ Fills(NextKey(p), Object(p))
    BY <1>1 DEF PutCreated, Fills
  <2>2. CASE /\ NextKey(p) = 0 /\ upSent[p] = UpTiles
             /\ Object(p) = Mine(p) /\ Object(p) \in RunManifest
    <3>1. \A t \in Tile : store[t] = Object(p).tiles[t]
      BY <2>1, <2>2, UploadNumbers DEF CountedStored, Mine, Tile
    <3>2. 0 \in Key
      BY UploadNumbers DEF Key
    <3>3. QED
      BY <2>1, <2>2, <3>1, <3>2
  <2>3. CASE NextKey(p) \in Tile /\ Object(p) \in Bytes
    <3>1. NextKey(p) \in Key /\ NextKey(p) # 0
      BY <2>3, UploadNumbers DEF Key, Tile
    <3>2. QED
      BY <2>1, <2>3, <3>1
  <2>4. QED
    BY <2>1, <2>2, <2>3, ObjectType
<1>2. ASSUME NEW r \in inflight, Missing(r.key) /\ Create(r.key, r.object)
      PROVE  \E k \in Key, object \in Bytes \cup RunManifest :
               /\ Fills(k, object)
               /\ k = 0 => object \in RunManifest /\ \A t \in Tile : store[t] = object.tiles[t]
               /\ k # 0 => object \in Bytes
  <2>1. \/ r.key \in Tile /\ r.object \in Bytes
        \/ r.key = 0 /\ r.object \in RunManifest
    BY DEF UploadTypeOK
  <2>2. r.key \in Key /\ (r.key \in Tile => r.key # 0)
    BY <2>1, UploadNumbers DEF Key, Tile
  <2>3. QED
    BY <1>2, <2>1, <2>2 DEF Fills, LateMatches
<1>3. ASSUME NEW p \in Procs,
             \/ Look(p) \/ Reuse(p) \/ CreateRefused(p) \/ CreateUnknown(p) \/ Settle(p)
             \/ PostCheck(p) \/ UpDie(p)
      PROVE  UNCHANGED <<store, stored>>
  BY <1>3 DEF Look, Reuse, CreateRefused, CreateUnknown, Settle, PostCheck, UpDie
<1>4. CASE LateCreate
  BY <1>2, <1>4 DEF LateCreate
<1>5. QED
  BY <1>1, <1>3, <1>4 DEF UploadNext, Step

\* Nothing stored is ever replaced, and a manifest appears only when it matches.
LEMMA StoreGrows ==
  ASSUME UploadInv, [UploadNext]_uploadVars
  PROVE  /\ store' \in [Tile -> Bytes \cup {Absent}]
         /\ stored' \in RunManifest \cup {NoManifest}
         /\ \A t \in Tile : store[t] # Absent => store'[t] = store[t]
         /\ stored # NoManifest => stored' = stored
         /\ stored' = stored \/ \A t \in Tile : store[t] = stored'.tiles[t]
<1>1. CASE UNCHANGED <<store, stored>>
  BY <1>1 DEF UploadInv, UploadTypeOK
<1>2. ASSUME NEW k \in Key, NEW object \in Bytes \cup RunManifest,
             Fills(k, object),
             k = 0 => object \in RunManifest /\ \A t \in Tile : store[t] = object.tiles[t],
             k # 0 => object \in Bytes
      PROVE  /\ store' \in [Tile -> Bytes \cup {Absent}]
             /\ stored' \in RunManifest \cup {NoManifest}
             /\ \A t \in Tile : store[t] # Absent => store'[t] = store[t]
             /\ stored # NoManifest => stored' = stored
             /\ stored' = stored \/ \A t \in Tile : store[t] = stored'.tiles[t]
  BY <1>2, FillsKeeps DEF UploadInv
<1>3. QED
  BY <1>1, <1>2, StepFills DEF uploadVars

-----------------------------------------------------------------------------
(***************************************************************************)
(* The processes.                                                          *)
(***************************************************************************)

\* A process is moved by its own steps only.
LEMMA OwnSteps ==
  ASSUME UploadTypeOK, [UploadNext]_uploadVars, NEW p \in Procs
  PROVE  \/ Step(p) \/ UpDie(p)
         \/ /\ upStage'[p] = upStage[p] /\ upSent'[p] = upSent[p] /\ mine'[p] = mine[p]
            /\ second'[p] = second[p] /\ tries'[p] = tries[p]
<1>1. ASSUME NEW q \in Procs, q # p, Step(q) \/ UpDie(q)
      PROVE  /\ upStage'[p] = upStage[p] /\ upSent'[p] = upSent[p] /\ mine'[p] = mine[p]
             /\ second'[p] = second[p] /\ tries'[p] = tries[p]
  <2> USE <1>1 DEF UploadTypeOK, UpGoto
  <2>1. CASE Look(q) \/ UpDie(q) \/ PostCheck(q) \/ CreateUnknown(q)
    BY <2>1 DEF Look, UpDie, PostCheck, CreateUnknown
  <2>2. CASE Reuse(q)
    BY <2>2 DEF Reuse
  <2>3. CASE PutCreated(q) \/ CreateRefused(q) \/ Settle(q)
    BY <2>3 DEF PutCreated, CreateRefused, Settle, MayRetry, Identical, Advance
  <2>4. QED
    BY <2>1, <2>2, <2>3 DEF Step
<1>2. CASE LateCreate
  BY <1>2 DEF LateCreate
<1>3. CASE UNCHANGED uploadVars
  BY <1>3 DEF uploadVars
<1>4. QED
  BY <1>1, <1>2, <1>3 DEF UploadNext

\* A process that counts one more key finds its object there.
LEMMA AdvanceStored ==
  ASSUME UploadInv, NEW p \in Procs, PutCreated(p) \/ CreateRefused(p) \/ Settle(p), upSent'[p] # upSent[p]
  PROVE  /\ upStage[p] \in {"put", "settle"} /\ Advance(p)
         /\ UNCHANGED <<mine, second>>
         /\ NextKey(p) = 0 => stored' = Mine(p)
         /\ NextKey(p) # 0 => store'[NextKey(p)] = mine[p][NextKey(p)]
<1> USE DEF UploadInv
<1>1. upStage[p] \in {"put", "settle"} /\ Advance(p) /\ UNCHANGED <<mine, second>>
  BY DEF PutCreated, CreateRefused, Settle, MayRetry, Identical
<1>2. \/ NextKey(p) = 0 /\ Object(p) = Mine(p) /\ Object(p) \in RunManifest
      \/ NextKey(p) \in Tile /\ NextKey(p) # 0 /\ Object(p) = mine[p][NextKey(p)] /\ Object(p) \in Bytes
  BY <1>1, ObjectType, UploadNumbers DEF Tile
<1>3. CASE PutCreated(p)
  <2>1. Fills(NextKey(p), Object(p))
    BY <1>3 DEF PutCreated, Fills
  <2>2. NextKey(p) \in Key
    BY <1>2, UploadNumbers DEF Key, Tile
  <2>3. QED
    BY <1>1, <1>2, <2>1, <2>2, FillsKeeps
<1>4. CASE CreateRefused(p) \/ Settle(p)
  <2>1. StoredAt(NextKey(p)) = Object(p) /\ UNCHANGED <<store, stored>>
    BY <1>4 DEF CreateRefused, Settle, Identical
  <2>2. QED
    BY <1>1, <1>2, <2>1 DEF StoredAt
<1>5. QED
  BY <1>3, <1>4

\* Every step of an upload keeps the types.
LEMMA NextUploadTypeOK == UploadInv /\ [UploadNext]_uploadVars => UploadTypeOK'
<1> SUFFICES ASSUME UploadInv, [UploadNext]_uploadVars PROVE UploadTypeOK'
  OBVIOUS
<1> USE DEF UploadInv, UploadTypeOK
<1>1. /\ regional' \in BOOLEAN
      /\ store' \in [Tile -> Bytes \cup {Absent}]
      /\ stored' \in RunManifest \cup {NoManifest}
  BY StoreGrows DEF UploadNext, Step, uploadVars
<1>2. ASSUME NEW p \in Procs, Look(p) PROVE UploadTypeOK'
  BY <1>1, <1>2 DEF Look, UpGoto, UpStages, RunManifest
<1>3. ASSUME NEW p \in Procs, Reuse(p) PROVE UploadTypeOK'
  <2>1. Resumed(p) \in [Tile -> Bytes]
    BY DEF Resumed
  <2>2. mine' = mine \/ mine' = [mine EXCEPT ![p] = Resumed(p)]
    BY <1>3 DEF Reuse
  <2>3. mine' \in [Procs -> [Tile -> Bytes]]
    BY <2>1, <2>2
  <2>4. upStage' \in [Procs -> UpStages]
    BY <1>3 DEF Reuse, UpGoto, UpStages
  <2>5. QED
    BY <1>1, <1>3, <2>3, <2>4 DEF Reuse
<1>4. ASSUME NEW p \in Procs, PutCreated(p) \/ CreateRefused(p) \/ Settle(p) PROVE UploadTypeOK'
  <2>1. upStage[p] \in {"put", "settle"} /\ UNCHANGED <<inflight, data, mine, second>>
    BY <1>4 DEF PutCreated, CreateRefused, Settle, MayRetry, Identical
  <2>2. upSent[p] + 1 \in 0..(UpTiles + 1)
    BY <2>1, UploadNumbers DEF Counted
  <2>3. CASE Advance(p)
    BY <1>1, <2>1, <2>2, <2>3, UploadNumbers DEF Advance, UpGoto, UpStages
  <2>4. CASE UNCHANGED <<upSent, tries>> /\ (UpGoto(p, "refused") \/ UpGoto(p, "failed"))
    BY <1>1, <2>1, <2>4 DEF UpGoto, UpStages
  <2>5. CASE tries[p] < Tries /\ tries' = [tries EXCEPT ![p] = @ + 1] /\ UpGoto(p, "put") /\ UNCHANGED upSent
    BY <1>1, <2>1, <2>5, UploadNumbers DEF UpGoto, UpStages
  <2>6. QED
    BY <1>4, <2>3, <2>4, <2>5 DEF PutCreated, CreateRefused, Settle, MayRetry, Identical
<1>5. ASSUME NEW p \in Procs, CreateUnknown(p) PROVE UploadTypeOK'
  <2>1. [key |-> NextKey(p), object |-> Object(p)]
          \in [key : Tile, object : Bytes] \cup [key : {0}, object : RunManifest]
    BY <1>5, ObjectType DEF CreateUnknown
  <2>2. QED
    BY <1>1, <1>5, <2>1 DEF CreateUnknown, UpGoto, UpStages
<1>6. ASSUME NEW p \in Procs, PostCheck(p) \/ UpDie(p) PROVE UploadTypeOK'
  BY <1>1, <1>6 DEF PostCheck, UpDie, UpGoto, UpStages
<1>7. CASE LateCreate
  BY <1>1, <1>7 DEF LateCreate
<1>8. CASE UNCHANGED uploadVars
  BY <1>8 DEF uploadVars
<1>9. QED
  BY <1>2, <1>3, <1>4, <1>5, <1>6, <1>7, <1>8 DEF UploadNext, Step

\* Every step keeps a process's tiles counted in order.
LEMMA NextCounted == UploadInv /\ [UploadNext]_uploadVars => Counted'
<1> SUFFICES ASSUME UploadInv, [UploadNext]_uploadVars, NEW p \in Procs
             PROVE  /\ upStage'[p] \in {"ready", "reuse"} => upSent'[p] = 0
                    /\ upStage'[p] \in {"put", "settle"} => upSent'[p] <= UpTiles
  BY DEF Counted
<1> USE DEF UploadInv, UploadTypeOK, Counted
<1>1. CASE Look(p) \/ Reuse(p)
  BY <1>1, UploadNumbers DEF Look, Reuse, UpGoto
<1>2. CASE PostCheck(p) \/ UpDie(p) \/ CreateUnknown(p)
  BY <1>2 DEF PostCheck, UpDie, CreateUnknown, UpGoto
<1>3. CASE PutCreated(p) \/ CreateRefused(p) \/ Settle(p)
  <2>1. CASE Advance(p)
    <3>1. upStage[p] \in {"put", "settle"}
      BY <1>3 DEF PutCreated, CreateRefused, Settle, MayRetry, Identical
    <3>2. CASE upSent[p] = UpTiles
      BY <2>1, <3>2, UploadNumbers DEF Advance, UpGoto, NextKey
    <3>3. CASE upSent[p] < UpTiles
      BY <2>1, <3>3, UploadNumbers DEF Advance, UpGoto, NextKey
    <3>4. upSent[p] <= UpTiles /\ upSent[p] \in 0..(UpTiles + 1) /\ UpTiles \in Nat
      BY <3>1, UploadNumbers
    <3>5. upSent[p] = UpTiles \/ upSent[p] < UpTiles
      BY ONLY <3>4
    <3>6. QED
      BY <3>2, <3>3, <3>5
  <2>2. CASE UNCHANGED upSent /\ upStage[p] \in {"put", "settle"}
             /\ (UpGoto(p, "refused") \/ UpGoto(p, "failed") \/ UpGoto(p, "put"))
    BY <2>2 DEF UpGoto
  <2>3. QED
    BY <1>3, <2>1, <2>2 DEF PutCreated, CreateRefused, Settle, MayRetry, Identical
<1>4. QED
  BY <1>1, <1>2, <1>3, OwnSteps DEF Step

\* What a process has counted as sent stays stored with its own bytes.
LEMMA NextCountedStored == UploadInv /\ [UploadNext]_uploadVars => CountedStored'
<1> SUFFICES ASSUME UploadInv, [UploadNext]_uploadVars, NEW p \in Procs, NEW t \in Tile,
                    upStage'[p] \in {"put", "settle", "verify", "verified"}, t <= upSent'[p]
             PROVE  store'[t] = mine'[p][t]
  BY DEF CountedStored
<1> USE DEF UploadInv, UploadTypeOK
<1>1. t \in Nat /\ t > 0
  BY UploadNumbers DEF Tile
<1>2. ASSUME upStage[p] \in {"put", "settle", "verify", "verified"}, t <= upSent[p]
      PROVE  store'[t] = mine[p][t]
  <2>1. store[t] = mine[p][t] /\ mine[p][t] \in Bytes
    BY <1>2 DEF CountedStored
  <2>2. QED
    BY <2>1, StoreGrows, AbsenceAssumption
<1>3. CASE Look(p) \/ Reuse(p)
  BY <1>1, <1>3 DEF Look, Reuse, Counted
<1>4. CASE PostCheck(p) \/ CreateUnknown(p)
  BY <1>2, <1>4 DEF PostCheck, CreateUnknown
<1>5. CASE UpDie(p)
  BY <1>5 DEF UpDie, UpGoto
<1>6. CASE PutCreated(p) \/ CreateRefused(p) \/ Settle(p)
  <2>1. upStage[p] \in {"put", "settle"} /\ mine' = mine
    BY <1>6 DEF PutCreated, CreateRefused, Settle, MayRetry, Identical
  <2>2. CASE upSent'[p] = upSent[p]
    BY <1>2, <2>1, <2>2
  <2>3. CASE upSent'[p] # upSent[p]
    <3>1. /\ Advance(p)
          /\ NextKey(p) # 0 => store'[NextKey(p)] = mine[p][NextKey(p)]
      BY <1>6, <2>3, AdvanceStored
    <3>2. upSent'[p] = upSent[p] + 1 /\ upSent[p] \in Nat /\ upSent[p] <= UpTiles
      BY <2>1, <3>1 DEF Advance, Counted
    <3>3. CASE t <= upSent[p]
      BY <1>2, <2>1, <3>3
    <3>4. CASE t = upSent[p] + 1
      <4>1. NextKey(p) = t
        BY <3>2, <3>4, UploadNumbers DEF NextKey, Tile
      <4>2. QED
        BY <1>1, <2>1, <3>1, <4>1
    <3>5. QED
      BY <1>1, <3>2, <3>3, <3>4
  <2>4. QED
    BY <2>2, <2>3
<1>7. QED
  BY <1>2, <1>3, <1>4, <1>5, <1>6, OwnSteps DEF Step

\* A manifest that a process published stays the stored one.
LEMMA NextPublishedStored == UploadInv /\ [UploadNext]_uploadVars => PublishedStored'
<1> SUFFICES ASSUME UploadInv, [UploadNext]_uploadVars, NEW p \in Procs,
                    upStage'[p] \in {"verify", "verified"}
             PROVE  stored' = [published |-> second'[p], tiles |-> mine'[p]]
  BY DEF PublishedStored, Mine
<1> USE DEF UploadInv, UploadTypeOK
<1>1. ASSUME upStage[p] \in {"verify", "verified"}
      PROVE  stored' = Mine(p)
  <2>1. stored = Mine(p) /\ Mine(p) \in RunManifest
    BY <1>1 DEF PublishedStored, Mine, RunManifest
  <2>2. QED
    BY <2>1, StoreGrows, AbsenceAssumption
<1>2. CASE Look(p) \/ Reuse(p) \/ CreateUnknown(p) \/ UpDie(p)
  BY <1>2 DEF Look, Reuse, CreateUnknown, UpDie, UpGoto
<1>3. CASE PostCheck(p)
  BY <1>1, <1>3 DEF PostCheck, Mine
<1>4. CASE PutCreated(p) \/ CreateRefused(p) \/ Settle(p)
  <2>1. upStage[p] \in {"put", "settle"} /\ upSent[p] \in Nat
    BY <1>4 DEF PutCreated, CreateRefused, Settle, MayRetry, Identical
  <2>2. Advance(p) /\ NextKey(p) = 0
    BY <1>4 DEF PutCreated, CreateRefused, Settle, MayRetry, Identical, Advance, UpGoto
  <2>3. upSent'[p] # upSent[p]
    BY <2>1, <2>2 DEF Advance
  <2>4. stored' = Mine(p) /\ UNCHANGED <<mine, second>>
    BY <1>4, <2>2, <2>3, AdvanceStored
  <2>5. QED
    BY <2>4 DEF Mine
<1>5. QED
  BY <1>1, <1>2, <1>3, <1>4, OwnSteps DEF Step, Mine

\* A manifest on its way goes on to describe what is stored.
LEMMA NextLateMatches == UploadInv /\ [UploadNext]_uploadVars => LateMatches'
<1> SUFFICES ASSUME UploadInv, [UploadNext]_uploadVars, NEW r \in inflight', r.key = 0, NEW t \in Tile
             PROVE  store'[t] = r.object.tiles[t]
  BY DEF LateMatches
<1> USE DEF UploadInv
<1>1. \/ r \in inflight
      \/ \E p \in Procs : CreateUnknown(p) /\ r = [key |-> NextKey(p), object |-> Object(p)]
  BY DEF UploadNext, Step, Look, Reuse, PutCreated, CreateRefused, CreateUnknown, Settle, PostCheck, UpDie,
         LateCreate, uploadVars
<1>2. CASE r \in inflight
  <2>1. r.object \in RunManifest /\ store[t] = r.object.tiles[t]
    BY <1>2, UploadNumbers DEF UploadTypeOK, LateMatches, Tile
  <2>2. r.object.tiles[t] \in Bytes
    BY <2>1 DEF RunManifest
  <2>3. QED
    BY <2>1, <2>2, StoreGrows, AbsenceAssumption
<1>3. ASSUME NEW p \in Procs, CreateUnknown(p), r = [key |-> NextKey(p), object |-> Object(p)]
      PROVE  store'[t] = r.object.tiles[t]
  <2>1. NextKey(p) = 0 /\ upStage[p] = "put" /\ UNCHANGED store
    BY <1>3 DEF CreateUnknown
  <2>2. Object(p) = Mine(p) /\ upSent[p] = UpTiles
    BY <2>1, ObjectType, UploadNumbers DEF Tile
  <2>3. store[t] = mine[p][t]
    BY <2>1, <2>2, UploadNumbers DEF CountedStored, Tile
  <2>4. QED
    BY <1>3, <2>1, <2>2, <2>3 DEF Mine
<1>4. QED
  BY <1>1, <1>2, <1>3

\* A stored manifest goes on to describe the stored tiles.
LEMMA NextManifestMatches == UploadInv /\ [UploadNext]_uploadVars => ManifestMatches'
<1> SUFFICES ASSUME UploadInv, [UploadNext]_uploadVars, stored' # NoManifest, NEW t \in Tile
             PROVE  store'[t] = stored'.tiles[t]
  BY DEF ManifestMatches
<1>1. stored' \in RunManifest /\ stored'.tiles[t] \in Bytes
  BY StoreGrows DEF RunManifest
<1>2. store[t] = stored'.tiles[t]
  BY StoreGrows DEF UploadInv, ManifestMatches
<1>3. QED
  BY <1>1, <1>2, StoreGrows, AbsenceAssumption

-----------------------------------------------------------------------------
(***************************************************************************)
(* The theorems.                                                           *)
(***************************************************************************)
LEMMA InitUploadInv == UploadInit => UploadInv
<1> SUFFICES ASSUME UploadInit PROVE UploadInv
  OBVIOUS
<1>1. UploadTypeOK
  <2>1. mine \in [Procs -> [Tile -> Bytes]]
    BY DEF UploadInit, Bytes
  <2>2. QED
    BY <2>1, UploadNumbers DEF UploadInit, UploadTypeOK, UpStages
<1>2. Counted /\ CountedStored /\ PublishedStored
  BY DEF UploadInit, Counted, CountedStored, PublishedStored
<1>3. LateMatches /\ ManifestMatches
  BY DEF UploadInit, LateMatches, ManifestMatches
<1>4. QED
  BY <1>1, <1>2, <1>3 DEF UploadInv

\* The invariant holds of every upload.
THEOREM UploadInvariant == UploadSpec => []UploadInv
<1>1. UploadInv /\ [UploadNext]_uploadVars => UploadInv'
  BY NextUploadTypeOK, NextCounted, NextCountedStored, NextPublishedStored, NextLateMatches,
     NextManifestMatches DEF UploadInv
<1>2. QED
  BY InitUploadInv, <1>1, PTL DEF UploadSpec

\* A stored manifest names exactly the bytes that are stored, however many processes
\* publish the run and whichever of their creates are lost or late.
THEOREM ManifestNamesStoredBytes == UploadSpec => []ManifestMatches
BY UploadInvariant, PTL DEF UploadInv

\* A process that goes on to commit published the manifest that is stored, for good.
THEOREM CommittedManifestIsStored == UploadSpec => []VerifiedIsStored
<1>1. UploadInv => VerifiedIsStored
  BY DEF UploadInv, PublishedStored, VerifiedIsStored
<1>2. QED
  BY <1>1, UploadInvariant, PTL

-----------------------------------------------------------------------------
(***************************************************************************)
(* One version, and one regional publisher.                                *)
(***************************************************************************)

\* What a process publishes, resumed tiles included, is of the data it built from,
\* and so is every manifest, stored or on its way.
Uniform ==
  /\ \A p \in Procs, t \in Tile : mine[p][t].data = data[p]
  /\ stored # NoManifest => \A t, u \in Tile : stored.tiles[t].data = stored.tiles[u].data
  /\ \A r \in inflight :
       r.key = 0 => \A t, u \in Tile : r.object.tiles[t].data = r.object.tiles[u].data

\* At the start nothing is stored or on its way, and a process has tiles of its own data.
LEMMA InitUniform == UploadInit => Uniform
<1> SUFFICES ASSUME UploadInit PROVE Uniform
  OBVIOUS
<1>1. PICK built \in [Procs -> Seconds] :
        mine = [p \in Procs |-> [t \in Tile |-> [data |-> data[p], built |-> built[p]]]]
  BY DEF UploadInit
<1>2. \A p \in Procs, t \in Tile : mine[p][t].data = data[p]
  BY <1>1
<1>3. stored = NoManifest /\ inflight = {}
  BY DEF UploadInit
<1>4. QED
  BY <1>2, <1>3 DEF Uniform

\* Every step keeps what is published of the data that it was built from.
LEMMA NextUniform == UploadInv /\ Uniform /\ [UploadNext]_uploadVars => Uniform'
<1> SUFFICES ASSUME UploadInv, Uniform, [UploadNext]_uploadVars PROVE Uniform'
  OBVIOUS
<1> USE DEF UploadInv, Uniform
<1>1. ASSUME NEW p \in Procs, Reuse(p) PROVE Uniform'
  <2>1. UNCHANGED <<stored, inflight, data>>
    BY <1>1 DEF Reuse
  <2>2. CASE mine' = mine
    BY <2>1, <2>2
  <2>3. CASE mine' = [mine EXCEPT ![p] = Resumed(p)] /\ \A t \in Tile : store[t] # Absent => SameData(p, t)
    <3>1. \A t \in Tile : Resumed(p)[t].data = data[p]
      BY <2>3 DEF Resumed, SameData
    <3>2. \A q \in Procs, t \in Tile : mine'[q][t].data = data[q]
      BY <2>3, <3>1 DEF UploadTypeOK
    <3>3. QED
      BY <2>1, <3>2
  <2>4. QED
    BY <1>1, <2>2, <2>3 DEF Reuse
<1>2. ASSUME NEW p \in Procs, PutCreated(p) PROVE Uniform'
  <2>1. UNCHANGED <<inflight, data, mine>> /\ Create(NextKey(p), Object(p)) /\ upStage[p] = "put"
    BY <1>2 DEF PutCreated
  <2>2. NextKey(p) = 0 => Object(p) = Mine(p)
    BY DEF Object
  <2>3. stored' = stored \/ stored' = Mine(p)
    BY ONLY <2>1, <2>2 DEF Create
  <2>4. \A t, u \in Tile : Mine(p).tiles[t].data = Mine(p).tiles[u].data
    BY DEF Mine
  <2>5. QED
    BY <2>1, <2>3, <2>4
<1>3. ASSUME NEW p \in Procs, CreateUnknown(p) PROVE Uniform'
  <2>1. /\ UNCHANGED <<stored, data, mine>> /\ upStage[p] = "put"
        /\ inflight' = inflight \cup {[key |-> NextKey(p), object |-> Object(p)]}
    BY <1>3 DEF CreateUnknown
  <2>2. NextKey(p) = 0 => Object(p) = Mine(p)
    BY DEF Object
  <2>3. \A t, u \in Tile : Mine(p).tiles[t].data = Mine(p).tiles[u].data
    BY DEF Mine
  <2>4. QED
    BY <2>1, <2>2, <2>3
<1>4. CASE LateCreate
  <2>1. PICK r \in inflight :
          /\ inflight' = inflight \ {r}
          /\ Create(r.key, r.object) \/ UNCHANGED <<store, stored>>
    BY <1>4 DEF LateCreate
  <2>2. UNCHANGED <<data, mine>>
    BY <1>4 DEF LateCreate
  <2>3. stored' = stored \/ (r.key = 0 /\ stored' = r.object)
    BY <2>1 DEF Create
  <2>4. QED
    BY <2>1, <2>2, <2>3
<1>5. ASSUME NEW p \in Procs, Look(p) \/ CreateRefused(p) \/ Settle(p) \/ PostCheck(p) \/ UpDie(p)
      PROVE  Uniform'
  BY <1>5 DEF Look, CreateRefused, Settle, PostCheck, UpDie
<1>6. CASE UNCHANGED uploadVars
  BY <1>6 DEF uploadVars
<1>7. QED
  BY <1>1, <1>2, <1>3, <1>4, <1>5, <1>6 DEF UploadNext, Step

\* A complete run never mixes two versions of the provider's data, whoever
\* uploaded which of its tiles.
THEOREM RunsAreOneVersion == UploadSpec => []OneVersion
<1>1. Uniform => OneVersion
  BY DEF Uniform, OneVersion
<1>2. QED
  BY <1>1, InitUniform, NextUniform, UploadInvariant, PTL DEF UploadSpec

\* No two processes move in one step.
LEMMA OneMoves ==
  ASSUME UploadTypeOK, [UploadNext]_uploadVars, NEW p \in Procs, NEW q \in Procs, p # q
  PROVE  upStage'[p] = upStage[p] \/ upStage'[q] = upStage[q]
<1>1. ASSUME NEW r \in Procs, Step(r) \/ UpDie(r)
      PROVE  \A o \in Procs \ {r} : upStage'[o] = upStage[o]
  BY <1>1 DEF Step, Look, Reuse, PutCreated, CreateRefused, CreateUnknown, Settle, Advance, PostCheck, UpDie,
     UpGoto, UploadTypeOK
<1>2. CASE LateCreate
  BY <1>2 DEF LateCreate
<1>3. CASE UNCHANGED uploadVars
  BY <1>3 DEF uploadVars
<1>4. QED
  BY <1>1, <1>2, <1>3 DEF UploadNext

\* In a regional run no put is settled by a read, and no second process gets past
\* the manifest.
RegionalAlone ==
  regional => RegionalOnce /\ \A p \in Procs : upStage[p] # "settle"

\* One process at most gets past the manifest of a regional run.
LEMMA NextRegionalAlone ==
  UploadInv /\ RegionalAlone /\ [UploadNext]_uploadVars => RegionalAlone'
<1> SUFFICES ASSUME UploadInv, RegionalAlone, [UploadNext]_uploadVars, regional'
             PROVE  RegionalOnce' /\ \A p \in Procs : upStage'[p] # "settle"
  BY DEF RegionalAlone
<1> DEFINE Past(p) == upStage[p] \in {"verify", "verified"}
           EntersNow(p) == upStage[p] = "put" /\ stored = NoManifest
<1> USE DEF UploadInv
<1>1. regional
  BY DEF UploadNext, Step, uploadVars
<1>2. ASSUME NEW p \in Procs
      PROVE  upStage'[p] # "settle" /\ (Past(p)' => Past(p) \/ EntersNow(p))
  <2>1. upStage[p] # "settle"
    BY <1>1 DEF RegionalAlone
  <2>2. CASE upStage'[p] = upStage[p]
    BY <2>1, <2>2
  <2>3. CASE Look(p) \/ Reuse(p) \/ CreateUnknown(p) \/ PostCheck(p) \/ UpDie(p)
    BY <1>1, <2>3 DEF Look, Reuse, CreateUnknown, PostCheck, UpDie, UpGoto, UploadTypeOK
  <2>4. CASE CreateRefused(p) \/ Settle(p)
    BY <1>1, <2>1, <2>4 DEF CreateRefused, Settle, Identical, UpGoto, UploadTypeOK
  <2>5. CASE PutCreated(p)
    BY <2>5 DEF PutCreated, Advance, UpGoto, Missing, StoredAt, UploadTypeOK
  <2>6. QED
    BY <2>2, <2>3, <2>4, <2>5, OwnSteps DEF Step
<1>3. \A p \in Procs : Past(p) => stored # NoManifest
  BY AbsenceAssumption DEF PublishedStored, Mine, RunManifest, UploadTypeOK
<1>4. ASSUME NEW p \in Procs, NEW q \in Procs, Past(p)', Past(q)', p # q
      PROVE  FALSE
  <2>1. upStage'[p] = upStage[p] \/ upStage'[q] = upStage[q]
    BY <1>4, OneMoves
  <2>2. CASE EntersNow(p)
    BY <1>2, <1>3, <1>4, <2>1, <2>2
  <2>3. CASE EntersNow(q)
    BY <1>2, <1>3, <1>4, <2>1, <2>3
  <2>4. CASE Past(p) /\ Past(q)
    BY <1>1, <1>4, <2>4 DEF RegionalAlone, RegionalOnce
  <2>5. QED
    BY <1>2, <1>4, <2>2, <2>3, <2>4
<1>5. QED
  BY <1>2, <1>4 DEF RegionalOnce

\* A regional run has one publisher: a second process that was at the upload or at
\* the manifest too is refused before it could commit.
THEOREM RegionalRunsPublishedOnce == UploadSpec => []RegionalOnce
<1>1. UploadInit => RegionalAlone
  BY DEF UploadInit, RegionalAlone, RegionalOnce
<1>2. RegionalAlone => RegionalOnce
  BY DEF RegionalAlone, RegionalOnce
<1>3. QED
  BY <1>1, <1>2, NextRegionalAlone, UploadInvariant, PTL DEF UploadSpec

=============================================================================
