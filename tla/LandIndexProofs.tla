--------------------------- MODULE LandIndexProofs ---------------------------
(***************************************************************************)
(* Proofs about LandIndex and LandRaster.                                  *)
(*                                                                         *)
(* LandIndex: what the pointer names stays whole, and the document         *)
(* implements the register of forecast layers. LandInv strengthens         *)
(* integrity by what a builder has stored (Uploading), by the direction of *)
(* puts that are under way or lost (Forward), and by what retention knows  *)
(* of the pointer from the moment its own index is named (Pruning): what   *)
(* it deletes will never be named again.                                   *)
(*                                                                         *)
(* LandRaster: a built tile covers its sources.  Whatever cell an edge     *)
(* passes through is a sample of the edge or an elbow of two.  Rays from a *)
(* cell's centre to the north and to the west cross a closed shoreline an  *)
(* even number of times between them, unless an edge passes through the    *)
(* cell itself: what is inside is filled or marked.  Widening keeps and    *)
(* surrounds it, and the bytes of a row give back its cells.               *)
(***************************************************************************)
EXTENDS LandIndex, LandRaster, BundleProofs

-----------------------------------------------------------------------------
(***************************************************************************)
(* The inductive invariant.                                                *)
(***************************************************************************)
Index(d) == latest[d].index
Prev(d) == latest[d].prev
Domain(b) == build[b].domain
BuildHour(b) == build[b].hour

\* What b has stored by now, unless a newer index of its domain is named.
Uploaded(b) ==
  CASE phase[b] = "tiles" -> 1..(round[b] - 1)
    [] phase[b] = "manifest" -> 1..LandTiles
    [] phase[b] \in {"check", "read", "put", "settle"} -> 0..LandTiles
    [] OTHER -> {}

Uploading ==
  /\ \A b \in Builders : phase[b] \in {"start", "admit"} => round[b] = 1
  /\ \A b \in Builders : phase[b] = "tiles" => round[b] \in 1..LandTiles
  /\ \A b \in Builders, nr \in 0..LandTiles :
       nr \in Uploaded(b) => ObjectOf(b, nr) \in indexes \/ BuildHour(b) < Index(Domain(b))

\* The previous index of a domain is older than its current one.
Ordered == \A d \in Domains : Prev(d) < Index(d) \/ (Index(d) = 0 /\ Prev(d) = 0)

\* A put, under way or lost, goes forward from the document that it expects, and brings
\* a whole index.
Forward ==
  /\ \A b \in Builders : phase[b] = "put" => seen[b][Domain(b)].index < BuildHour(b)
  /\ \A r \in requests :
       /\ r.seen[r.build.domain].index < r.build.hour
       /\ NamedWhole(r.build.domain, r.build.hour) \/ r.build.hour < Index(r.build.domain)

\* From the moment its index is named, a builder knows what the pointer will not name again.
Telling == {"list", "prune", "recheck", "delete", "status"}
Pruning ==
  /\ \A b \in Builders : phase[b] \in Telling =>
       /\ kept[b] < BuildHour(b) /\ BuildHour(b) <= Index(Domain(b))
       /\ \/ Index(Domain(b)) = BuildHour(b) /\ Prev(Domain(b)) = kept[b]
          \/ BuildHour(b) <= Prev(Domain(b))
  /\ \A b \in Builders : phase[b] \in {"prune", "recheck", "delete"} =>
       todo[b] # {} /\ (\A h \in todo[b] : h < OldestKept(b))

LandInv == LandTypeOK /\ Uploading /\ Ordered /\ Forward /\ Pruning /\ LandIntegrity

-----------------------------------------------------------------------------
(***************************************************************************)
(* Types.                                                                  *)
(***************************************************************************)
\* What the type says of the variables.
LEMMA LandTypes ==
  ASSUME LandTypeOK
  PROVE  /\ latest \in Pointers /\ indexes \subseteq Object
         /\ requests \subseteq [seen : Pointers, build : Build]
         /\ build \in [Builders -> Build] /\ phase \in [Builders -> Phases \cup LandEnded]
         /\ round \in [Builders -> Nat] /\ seen \in [Builders -> Pointers]
         /\ kept \in [Builders -> Hour] /\ todo \in [Builders -> SUBSET Hours]
         /\ keys \in [Builders -> SUBSET (0..LandTiles)]
         /\ \A d \in Domains : Index(d) \in Hour /\ Prev(d) \in Hour
         /\ \A b \in Builders : Domain(b) \in Domains /\ BuildHour(b) \in Hours
         /\ Hours \subseteq Nat /\ Hour \subseteq Nat /\ 0 \notin Hours /\ Hours \subseteq Hour
         /\ LandTiles \in Nat /\ LandTiles > 0
<1>1. /\ latest \in Pointers /\ indexes \subseteq Object
      /\ requests \subseteq [seen : Pointers, build : Build]
      /\ build \in [Builders -> Build] /\ phase \in [Builders -> Phases \cup LandEnded]
      /\ round \in [Builders -> Nat] /\ seen \in [Builders -> Pointers]
      /\ kept \in [Builders -> Hour] /\ todo \in [Builders -> SUBSET Hours]
      /\ keys \in [Builders -> SUBSET (0..LandTiles)]
  BY DEF LandTypeOK
<1>2. \A d \in Domains : latest[d] \in LandEntry
  BY <1>1 DEF Pointers
<1>3. \A b \in Builders : build[b] \in Build
  BY <1>1
<1> QED  BY <1>1, <1>2, <1>3, LandConstants
         DEF LandEntry, Build, Index, Prev, Domain, BuildHour, Hours, Hour

\* A set of naturals has a least member.
Before == {ss \in Nat \X Nat : ss[1] < ss[2]}
\* A set of natural numbers has a least one.
LEMMA LeastNatural ==
  ASSUME NEW S, S \subseteq Nat, S # {}
  PROVE  \E x \in S : \A y \in S : x <= y
<1>1. IsWellFoundedOn(Before, Nat)
  BY NatLessThanWellFounded, Zenon DEF OpToRel, Before
<1>2. PICK x \in S : \A y \in S : ~(<<y, x>> \in Before)
  BY <1>1, WFMin
<1>3. ASSUME NEW y \in S  PROVE x <= y
  <2>1. x \in Nat /\ y \in Nat /\ <<y, x>> \in Nat \X Nat
    OBVIOUS
  <2>2. <<y, x>>[1] = y /\ <<y, x>>[2] = x
    OBVIOUS
  <2>3. ~(y < x)
    BY <1>2, <2>1, <2>2, Zenon DEF Before
  <2> QED  BY <2>1, <2>3
<1> QED  BY <1>3

\* The oldest of a set of hours is one of them.
LEMMA OldestHour ==
  ASSUME NEW S, S \subseteq Hours, S # {}
  PROVE  Min(S) \in S
<1>1. S \subseteq Nat
  BY LandConstants DEF Hours
<1>2. \E m \in S : \A y \in S : m =< y
  BY <1>1, LeastNatural
<1> QED  BY <1>2 DEF Min

\* A document that is moved is a document.
LEMMA MovedIs ==
  ASSUME NEW document \in Pointers, NEW j \in Build
  PROVE  /\ Moved(document, j) \in Pointers
         /\ Moved(document, j)[j.domain].index = j.hour
         /\ Moved(document, j)[j.domain].prev = document[j.domain].index
         /\ \A d \in Domains \ {j.domain} : Moved(document, j)[d] = document[d]
<1>1. /\ j.domain \in Domains /\ j.hour \in Hour /\ document[j.domain] \in LandEntry
      /\ document \in [Domains -> LandEntry]
  BY LandConstants DEF Build, Pointers, Hours, Hour
<1> DEFINE e == [index |-> j.hour, prev |-> document[j.domain].index]
<1>2. e \in LandEntry /\ e.index = j.hour /\ e.prev = document[j.domain].index
  BY <1>1 DEF LandEntry
<1>3. Moved(document, j) = [document EXCEPT ![j.domain] = e]
  BY DEF Moved
<1> HIDE DEF e
<1>4. /\ Moved(document, j) \in [Domains -> LandEntry]
      /\ Moved(document, j)[j.domain] = e
      /\ \A d \in Domains \ {j.domain} : Moved(document, j)[d] = document[d]
  BY <1>1, <1>2, <1>3
<1> QED  BY <1>2, <1>4 DEF Pointers

\* Every step keeps the types.
LEMMA LandTypedKept ==
  ASSUME LandTypeOK, Uploading, LandNext
  PROVE  LandTypeOK'
<1>0. /\ latest \in Pointers /\ indexes \subseteq Object
      /\ landStatus \in Build \cup {[domain |-> d, hour |-> 0] : d \in Domains}
      /\ requests \subseteq [seen : Pointers, build : Build]
      /\ build \in [Builders -> Build] /\ phase \in [Builders -> Phases \cup LandEnded]
      /\ round \in [Builders -> Nat] /\ seen \in [Builders -> Pointers]
      /\ kept \in [Builders -> Hour] /\ todo \in [Builders -> SUBSET Hours]
      /\ keys \in [Builders -> SUBSET (0..LandTiles)]
  BY DEF LandTypeOK
<1>1. /\ NoPointer \in Pointers /\ LandTiles \in Nat
      /\ \A d \in Domains : latest[d] \in LandEntry /\ latest[d].index \in Hour
         /\ latest[d].prev \in Hour
      /\ \A b \in Builders : build[b].domain \in Domains /\ build[b].hour \in Hours
         /\ build[b] \in Build
  BY <1>0, LandConstants DEF NoPointer, Pointers, LandEntry, Hour, Build
<1>2. ASSUME NEW b \in Builders, NEW p \in Phases \cup LandEnded, LandGo(b, p)
      PROVE  phase' \in [Builders -> Phases \cup LandEnded]
  BY <1>0, <1>2 DEF LandGo
<1>3. /\ {"start", "admit", "tiles", "manifest", "check", "read", "put", "settle",
           "list", "prune", "recheck", "delete", "status"} \subseteq Phases \cup LandEnded
      /\ {"ok", "refused", "stale", "conflict", "failed"} \subseteq Phases \cup LandEnded
  BY DEF Phases, LandEnded
<1>4. ASSUME NEW b \in Builders, NEW nr \in 0..LandTiles, Create(b, nr)
      PROVE  indexes' \subseteq Object
  BY <1>0, <1>1, <1>4 DEF Create, ObjectOf, Object
<1>5. ASSUME NEW b \in Builders, PruneSkip(b)
      PROVE  /\ todo' \in [Builders -> SUBSET Hours]
             /\ phase' \in [Builders -> Phases \cup LandEnded]
  BY <1>0, <1>2, <1>3, <1>5 DEF PruneSkip, PruneOn
<1>6. ASSUME NEW b \in Builders, NEW prev \in Hour, Told(b, prev)
      PROVE  kept' \in [Builders -> Hour] /\ phase' \in [Builders -> Phases \cup LandEnded]
  BY <1>0, <1>2, <1>3, <1>6 DEF Told
<1>7. ASSUME NEW b \in Builders, BuilderStep(b)  PROVE LandTypeOK'
  <2>1. CASE StartLand(b) \/ AdmitLand(b) \/ Taken(b)
    <3>1. phase' \in [Builders -> Phases \cup LandEnded]
      BY <1>2, <1>3, <2>1 DEF StartLand, AdmitLand, Taken
    <3> QED  BY <1>0, <2>1, <3>1 DEF StartLand, AdmitLand, Taken, LandTypeOK
  <2>2. CASE UploadTile(b)
    <3>1. round[b] \in 0..LandTiles
      BY <1>1, <2>2 DEF UploadTile, Uploading
    <3>2. indexes' \subseteq Object
      BY <1>4, <2>2, <3>1 DEF UploadTile
    <3>3. phase' \in [Builders -> Phases \cup LandEnded] /\ round' \in [Builders -> Nat]
      BY <1>0, <1>2, <1>3, <2>2 DEF UploadTile
    <3> QED  BY <1>0, <2>2, <3>2, <3>3 DEF UploadTile, LandTypeOK
  <2>3. CASE UploadManifest(b)
    <3>1. 0 \in 0..LandTiles
      BY <1>1
    <3>2. indexes' \subseteq Object
      BY <1>4, <2>3, <3>1 DEF UploadManifest
    <3>3. phase' \in [Builders -> Phases \cup LandEnded]
      BY <1>2, <1>3, <2>3 DEF UploadManifest
    <3> QED  BY <1>0, <2>3, <3>2, <3>3 DEF UploadManifest, LandTypeOK
  <2>4. CASE CheckIndex(b)
    <3>1. phase' \in [Builders -> Phases \cup LandEnded]
      BY <1>2, <1>3, <2>4 DEF CheckIndex
    <3>2. round' = round \/ round' = [round EXCEPT ![b] = 1]
      BY <2>4 DEF CheckIndex
    <3>3. round' \in [Builders -> Nat]
      BY <1>0, <3>2
    <3> QED  BY <1>0, <2>4, <3>1, <3>3 DEF CheckIndex, LandTypeOK
  <2>5. CASE ReadLatest(b)
    <3>1. EntryAt(b).prev \in Hour
      BY <1>1 DEF EntryAt
    <3>2. phase' \in [Builders -> Phases \cup LandEnded] /\ kept' \in [Builders -> Hour]
      BY <1>0, <1>2, <1>3, <1>6, <2>5, <3>1 DEF ReadLatest
    <3>3. seen' \in [Builders -> Pointers]
      BY <1>0, <2>5 DEF ReadLatest
    <3> QED  BY <1>0, <2>5, <3>2, <3>3 DEF ReadLatest, LandTypeOK
  <2>6. CASE PutLatest(b)
    <3>1. latest' \in Pointers /\ seen[b][build[b].domain].index \in Hour
      BY <1>0, <1>1, <2>6, MovedIs DEF PutLatest
    <3>2. phase' \in [Builders -> Phases \cup LandEnded] /\ kept' \in [Builders -> Hour]
      BY <1>6, <2>6, <3>1 DEF PutLatest
    <3>3. seen' \in [Builders -> Pointers]
      BY <1>0, <1>1, <2>6 DEF PutLatest
    <3> QED  BY <1>0, <2>6, <3>1, <3>2, <3>3 DEF PutLatest, LandTypeOK
  <2>7. CASE PutLatestFails(b)
    <3>1. phase' \in [Builders -> Phases \cup LandEnded] /\ round' \in [Builders -> Nat]
      BY <1>0, <1>2, <1>3, <2>7 DEF PutLatestFails
    <3>2. seen' \in [Builders -> Pointers]
      BY <1>0, <1>1, <2>7 DEF PutLatestFails
    <3>3. [seen |-> seen[b], build |-> build[b]] \in [seen : Pointers, build : Build]
      BY <1>0, <1>1
    <3>4. requests' \subseteq [seen : Pointers, build : Build]
      BY <1>0, <2>7, <3>3 DEF PutLatestFails
    <3> QED  BY <1>0, <2>7, <3>1, <3>2, <3>4 DEF PutLatestFails, LandTypeOK
  <2>8. CASE SettleLatest(b)
    <3>1. EntryAt(b).prev \in Hour
      BY <1>1 DEF EntryAt
    <3>2. phase' \in [Builders -> Phases \cup LandEnded] /\ kept' \in [Builders -> Hour]
      BY <1>0, <1>2, <1>3, <1>6, <2>8, <3>1 DEF SettleLatest
    <3> QED  BY <1>0, <2>8, <3>2 DEF SettleLatest, LandTypeOK
  <2>9. CASE ListIndexes(b)
    <3>1. Superseded(b) \subseteq Hours
      BY <1>0 DEF Superseded, HoursOf, Object
    <3>2. todo' \in [Builders -> SUBSET Hours]
      BY <1>0, <2>9, <3>1 DEF ListIndexes
    <3>3. phase' \in [Builders -> Phases \cup LandEnded]
      BY <1>2, <1>3, <2>9 DEF ListIndexes, PruneOn
    <3> QED  BY <1>0, <2>9, <3>2, <3>3 DEF ListIndexes, LandTypeOK
  <2>10. CASE ListKeys(b)
    <3>1. todo' \in [Builders -> SUBSET Hours] /\ phase' \in [Builders -> Phases \cup LandEnded]
      BY <1>0, <1>2, <1>3, <1>5, <2>10 DEF ListKeys
    <3>2. keys' \in [Builders -> SUBSET (0..LandTiles)]
      <4> DEFINE listed == {o.tile : o \in {x \in indexes : x.domain = build[b].domain
                                                          /\ x.hour = Min(todo[b])}}
      <4>1. listed \subseteq 0..LandTiles
        BY <1>0 DEF Object
      <4>2. keys' = [keys EXCEPT ![b] = listed] \/ keys' = keys
        BY <2>10 DEF ListKeys
      <4> HIDE DEF listed
      <4> QED  BY <1>0, <4>1, <4>2
    <3> QED  BY <1>0, <2>10, <3>1, <3>2 DEF ListKeys, LandTypeOK
  <2>11. CASE RecheckLatest(b)
    <3>1. todo' \in [Builders -> SUBSET Hours] /\ phase' \in [Builders -> Phases \cup LandEnded]
      BY <1>0, <1>2, <1>3, <1>5, <2>11 DEF RecheckLatest
    <3>2. keys' \in [Builders -> SUBSET (0..LandTiles)]
      BY <1>0, <2>11 DEF RecheckLatest
    <3> QED  BY <1>0, <2>11, <3>1, <3>2 DEF RecheckLatest, LandTypeOK
  <2>12. CASE DeleteObject(b)
    <3>1. todo' \in [Builders -> SUBSET Hours] /\ phase' \in [Builders -> Phases \cup LandEnded]
      BY <1>0, <1>5, <2>12 DEF DeleteObject
    <3>2. keys' \in [Builders -> SUBSET (0..LandTiles)] /\ indexes' \subseteq Object
      BY <1>0, <2>12 DEF DeleteObject
    <3> QED  BY <1>0, <2>12, <3>1, <3>2 DEF DeleteObject, LandTypeOK
  <2>13. CASE PutLandStatus(b)
    <3>1. phase' \in [Builders -> Phases \cup LandEnded]
      BY <1>2, <1>3, <2>13 DEF PutLandStatus
    <3> QED  BY <1>0, <1>1, <2>13, <3>1 DEF PutLandStatus, LandTypeOK
  <2> QED  BY <1>7, <2>1, <2>2, <2>3, <2>4, <2>5, <2>6, <2>7, <2>8, <2>9, <2>10, <2>11, <2>12, <2>13
           DEF BuilderStep
<1>8. ASSUME NEW b \in Builders, Abort(b)  PROVE LandTypeOK'
  <2>1. phase' \in [Builders -> Phases \cup LandEnded]
    BY <1>2, <1>3, <1>8 DEF Abort
  <2> QED  BY <1>0, <1>8, <2>1 DEF Abort, LandTypeOK
<1>9. ASSUME NEW r \in requests, Arrive(r)  PROVE LandTypeOK'
  <2>1. latest' \in Pointers
    BY <1>0, <1>9, MovedIs DEF Arrive
  <2> QED  BY <1>0, <1>9, <2>1 DEF Arrive, LandTypeOK
<1> QED  BY <1>7, <1>8, <1>9 DEF LandNext

-----------------------------------------------------------------------------
(***************************************************************************)
(* What a step does to the other builders, to the pointer and to the store.*)
(***************************************************************************)
\* A builder leaves what the other builders hold alone.
LEMMA LandFrame ==
  ASSUME LandTypeOK, NEW b \in Builders, BuilderStep(b) \/ Abort(b)
  PROVE  /\ build' = build
         /\ \A c \in Builders \ {b} : /\ phase'[c] = phase[c] /\ round'[c] = round[c]
                                      /\ seen'[c] = seen[c] /\ kept'[c] = kept[c]
                                      /\ todo'[c] = todo[c]
<1>1. /\ phase \in [Builders -> Phases \cup LandEnded] /\ round \in [Builders -> Nat]
      /\ seen \in [Builders -> Pointers] /\ kept \in [Builders -> Hour]
      /\ todo \in [Builders -> SUBSET Hours]
  BY LandTypes
<1>2. ASSUME NEW p, LandGo(b, p)  PROVE \A c \in Builders \ {b} : phase'[c] = phase[c]
  BY <1>1, <1>2 DEF LandGo
<1>3. ASSUME PruneSkip(b)
      PROVE  \A c \in Builders \ {b} : phase'[c] = phase[c] /\ todo'[c] = todo[c]
  BY <1>1, <1>2, <1>3 DEF PruneSkip, PruneOn
<1>4. ASSUME NEW prev, Told(b, prev)
      PROVE  \A c \in Builders \ {b} : phase'[c] = phase[c] /\ kept'[c] = kept[c]
  BY <1>1, <1>2, <1>4 DEF Told
<1> DEFINE G == /\ build' = build
                /\ \A c \in Builders \ {b} : /\ phase'[c] = phase[c] /\ round'[c] = round[c]
                                             /\ seen'[c] = seen[c] /\ kept'[c] = kept[c]
                                             /\ todo'[c] = todo[c]
<1>5. CASE StartLand(b) \/ AdmitLand(b) \/ Taken(b) \/ PutLandStatus(b) \/ UploadManifest(b)
  BY <1>2, <1>5 DEF StartLand, AdmitLand, Taken, PutLandStatus, UploadManifest
<1>6. CASE UploadTile(b) \/ CheckIndex(b)
  BY <1>1, <1>2, <1>6 DEF UploadTile, CheckIndex
<1>7. CASE ReadLatest(b) \/ SettleLatest(b)
  BY <1>1, <1>2, <1>4, <1>7 DEF ReadLatest, SettleLatest
<1>8. CASE PutLatest(b) \/ PutLatestFails(b)
  BY <1>1, <1>2, <1>4, <1>8 DEF PutLatest, PutLatestFails
<1>9. CASE ListIndexes(b)
  BY <1>1, <1>2, <1>9 DEF ListIndexes, PruneOn
<1>10. CASE ListKeys(b) \/ RecheckLatest(b) \/ DeleteObject(b)
  BY <1>1, <1>2, <1>3, <1>10 DEF ListKeys, RecheckLatest, DeleteObject
<1>11. CASE Abort(b)
  BY <1>2, <1>11 DEF Abort
<1> QED  BY <1>5, <1>6, <1>7, <1>8, <1>9, <1>10, <1>11 DEF BuilderStep

\* The pointer stays, or one domain's entry goes forward, to an index that is whole.
LEMMA PointerMoves ==
  ASSUME LandInv, LandNext, latest' # latest
  PROVE  \E j \in Build : /\ latest' = Moved(latest, j) /\ Index(j.domain) < j.hour
                          /\ NamedWhole(j.domain, j.hour)
<1>0. LandTypeOK /\ Uploading /\ Forward
  BY DEF LandInv
<1>1. /\ requests \subseteq [seen : Pointers, build : Build] /\ build \in [Builders -> Build]
      /\ \A b \in Builders : Domain(b) \in Domains /\ BuildHour(b) \in Hours
      /\ \A d \in Domains : Index(d) \in Hour
      /\ Hours \subseteq Nat /\ Hour \subseteq Nat
  BY <1>0, LandTypes
<1>2. ASSUME NEW b \in Builders, BuilderStep(b) \/ Abort(b)  PROVE PutLatest(b)
  BY <1>2 DEF BuilderStep, Abort, StartLand, AdmitLand, UploadTile, UploadManifest, Taken,
       CheckIndex, ReadLatest, PutLatestFails, SettleLatest, ListIndexes, ListKeys,
       RecheckLatest, DeleteObject, PutLandStatus
<1>3. ASSUME NEW b \in Builders, PutLatest(b)
      PROVE  \E j \in Build : /\ latest' = Moved(latest, j) /\ Index(j.domain) < j.hour
                              /\ NamedWhole(j.domain, j.hour)
  <2>1. /\ build[b] \in Build /\ build[b].domain = Domain(b) /\ build[b].hour = BuildHour(b)
        /\ phase[b] = "put" /\ latest = seen[b] /\ latest' = Moved(latest, build[b])
    BY <1>1, <1>3 DEF PutLatest, Domain, BuildHour
  <2>2. Index(Domain(b)) < BuildHour(b)
    BY <1>0, <2>1 DEF Forward, Index
  <2>3. Index(Domain(b)) \in Nat /\ BuildHour(b) \in Nat
    BY <1>1
  <2>4. Uploaded(b) = 0..LandTiles /\ ~(BuildHour(b) < Index(Domain(b)))
    BY <2>1, <2>2, <2>3 DEF Uploaded
  <2>5. \A nr \in 0..LandTiles : ObjectOf(b, nr) \in indexes
    BY <1>0, <2>4 DEF Uploading
  <2>6. NamedWhole(Domain(b), BuildHour(b))
    BY <2>5 DEF NamedWhole, ObjectOf, Domain, BuildHour
  <2> QED  BY <2>1, <2>2, <2>6
<1>4. ASSUME NEW r \in requests, Arrive(r)
      PROVE  \E j \in Build : /\ latest' = Moved(latest, j) /\ Index(j.domain) < j.hour
                              /\ NamedWhole(j.domain, j.hour)
  <2>1. r.build \in Build /\ r.build.domain \in Domains /\ r.build.hour \in Hours
    BY <1>1 DEF Build
  <2>2. latest = r.seen /\ latest' = Moved(latest, r.build)
    BY <1>4 DEF Arrive
  <2>3. Index(r.build.domain) < r.build.hour
    BY <1>0, <2>2 DEF Forward, Index
  <2>4. Index(r.build.domain) \in Nat /\ r.build.hour \in Nat
    BY <1>1, <2>1
  <2>5. ~(r.build.hour < Index(r.build.domain))
    BY <2>3, <2>4
  <2>6. NamedWhole(r.build.domain, r.build.hour)
    BY <1>0, <2>5 DEF Forward
  <2> QED  BY <2>1, <2>2, <2>3, <2>6
<1> QED  BY <1>2, <1>3, <1>4 DEF LandNext

\* The same, domain by domain.
Stands(d) == Index(d)' = Index(d) /\ Prev(d)' = Prev(d)
MovesOn(d) ==
  /\ Index(d) < Index(d)' /\ Prev(d)' = Index(d)
  /\ \E h \in Hours : h = Index(d)' /\ NamedWhole(d, h)
\* A domain's entry stands still or moves on to the newer index of a builder.
LEMMA EntriesMove ==
  ASSUME LandInv, LandNext, NEW d \in Domains
  PROVE  Stands(d) \/ MovesOn(d)
<1>1. CASE latest' = latest
  BY <1>1 DEF Stands, Index, Prev
<1>2. CASE latest' # latest
  <2>1. PICK j \in Build : /\ latest' = Moved(latest, j) /\ Index(j.domain) < j.hour
                           /\ NamedWhole(j.domain, j.hour)
    BY <1>2, PointerMoves
  <2>2. latest \in Pointers
    BY LandTypes DEF LandInv
  <2>3. /\ latest'[j.domain].index = j.hour
        /\ latest'[j.domain].prev = latest[j.domain].index
        /\ \A x \in Domains \ {j.domain} : latest'[x] = latest[x]
    BY <2>1, <2>2, MovedIs
  <2>4. CASE d = j.domain
    BY <2>1, <2>3, <2>4 DEF MovesOn, Index, Prev, Build
  <2>5. CASE d # j.domain
    BY <2>3, <2>5 DEF Stands, Index, Prev
  <2> QED  BY <2>4, <2>5
<1> QED  BY <1>1, <1>2

\* What retention deletes is neither named nor to be named again.
LEMMA RetentionDeletes ==
  ASSUME LandInv, NEW b \in Builders, DeleteObject(b)
  PROVE  \E h \in Hours :
           /\ h < Index(Domain(b)) /\ h # Prev(Domain(b))
           /\ \A o \in indexes : o.domain # Domain(b) \/ o.hour # h => o \in indexes'
<1>0. /\ \A d \in Domains : Index(d) \in Hour /\ Prev(d) \in Hour
      /\ Domain(b) \in Domains /\ BuildHour(b) \in Hours /\ kept[b] \in Hour
         /\ todo[b] \subseteq Hours
      /\ Hours \subseteq Nat /\ Hour \subseteq Nat /\ 0 \notin Hours
  BY LandTypes DEF LandInv
<1>1. phase[b] = "delete"
  BY DEF DeleteObject
<1>2. /\ kept[b] < BuildHour(b) /\ BuildHour(b) <= Index(Domain(b))
      /\ \/ Index(Domain(b)) = BuildHour(b) /\ Prev(Domain(b)) = kept[b]
         \/ BuildHour(b) <= Prev(Domain(b))
      /\ todo[b] # {} /\ \A x \in todo[b] : x < OldestKept(b)
  BY <1>1 DEF LandInv, Pruning, Telling
<1> DEFINE h == Min(todo[b])
<1>3. h \in todo[b]
  BY <1>0, <1>2, OldestHour
<1>4. indexes' = indexes \ At(Domain(b), h, IF keys[b] = {0} THEN 0 ELSE Min(keys[b] \ {0}))
  BY DEF DeleteObject, Domain
<1> HIDE DEF h
<1>5. h \in Hours /\ h < OldestKept(b)
  BY <1>0, <1>2, <1>3
<1>6. /\ BuildHour(b) \in Nat /\ kept[b] \in Nat /\ h \in Nat /\ h # 0
      /\ Index(Domain(b)) \in Nat /\ Prev(Domain(b)) \in Nat
  BY <1>0, <1>5
<1>7. OldestKept(b) = IF kept[b] = 0 THEN BuildHour(b) ELSE kept[b]
  BY DEF OldestKept, BuildHour
<1>8. h < Index(Domain(b)) /\ h # Prev(Domain(b))
  BY <1>2, <1>5, <1>6, <1>7
<1>9. \A o \in indexes : o.domain # Domain(b) \/ o.hour # h => o \in indexes'
  BY <1>4 DEF At
<1> QED  BY <1>5, <1>8, <1>9

\* Every other step keeps every object.
LEMMA StoreGrows ==
  ASSUME LandNext, ~ \E b \in Builders : DeleteObject(b)
  PROVE  indexes \subseteq indexes'
<1>1. ASSUME NEW b \in Builders, BuilderStep(b) \/ Abort(b)  PROVE indexes \subseteq indexes'
  BY <1>1 DEF BuilderStep, Abort, StartLand, AdmitLand, UploadTile, UploadManifest, Taken,
       CheckIndex, ReadLatest, PutLatest, PutLatestFails, SettleLatest, ListIndexes, ListKeys,
       RecheckLatest, PutLandStatus, Create
<1>2. ASSUME NEW r \in requests, Arrive(r)  PROVE indexes \subseteq indexes'
  BY <1>2 DEF Arrive
<1> QED  BY <1>1, <1>2 DEF LandNext

\* An object goes only once a newer index of its domain is named, and then never
\* while the pointer names it as the previous one.
LEMMA ObjectsStay ==
  ASSUME LandInv, LandNext, NEW o \in indexes,
         o.hour >= Index(o.domain) \/ o.hour = Prev(o.domain)
  PROVE  o \in indexes'
<1>0. /\ \A d \in Domains : Index(d) \in Hour /\ Prev(d) \in Hour
      /\ \A b \in Builders : Domain(b) \in Domains
      /\ o \in Object /\ Hours \subseteq Nat /\ Hour \subseteq Nat
  BY LandTypes DEF LandInv
<1>1. CASE \E b \in Builders : DeleteObject(b)
  <2>1. PICK b \in Builders : DeleteObject(b)
    BY <1>1
  <2>2. PICK h \in Hours :
           /\ h < Index(Domain(b)) /\ h # Prev(Domain(b))
           /\ \A x \in indexes : x.domain # Domain(b) \/ x.hour # h => x \in indexes'
    BY <2>1, RetentionDeletes
  <2>3. /\ Index(Domain(b)) \in Nat /\ Prev(Domain(b)) \in Nat /\ h \in Nat
        /\ o.domain \in Domains /\ o.hour \in Nat
    BY <1>0, <2>1 DEF Object
  <2>4. CASE o.domain = Domain(b)
    <3>1. o.hour # h
      BY <2>2, <2>3, <2>4
    <3> QED  BY <2>2, <3>1
  <2> QED  BY <2>2, <2>4
<1> QED  BY <1>1, StoreGrows

\* A whole index of an hour no older than the current one, or the previous one, stays whole.
LEMMA WholeStays ==
  ASSUME LandInv, LandNext, NEW d \in Domains, NEW h \in Hours, NamedWhole(d, h),
         h >= Index(d) \/ h = Prev(d)
  PROVE  NamedWhole(d, h)'
<1>1. PICK b \in Builders : \A nr \in 0..LandTiles :
        [domain |-> d, hour |-> h, tile |-> nr, by |-> b] \in indexes
  BY DEF NamedWhole
<1>2. ASSUME NEW nr \in 0..LandTiles
      PROVE  [domain |-> d, hour |-> h, tile |-> nr, by |-> b] \in indexes'
  <2> DEFINE o == [domain |-> d, hour |-> h, tile |-> nr, by |-> b]
  <2>1. o \in indexes /\ o.domain = d /\ o.hour = h
    BY <1>1
  <2> HIDE DEF o
  <2>2. o \in indexes'
    BY <2>1, ObjectsStay
  <2> QED  BY <2>2 DEF o
<1> QED  BY <1>2 DEF NamedWhole

-----------------------------------------------------------------------------
(***************************************************************************)
(* The parts of the invariant.                                             *)
(***************************************************************************)
\* Entries only go forward.
LEMMA OrderedKept ==
  ASSUME LandInv, LandNext
  PROVE  Ordered'
<1>1. ASSUME NEW d \in Domains
      PROVE  Prev(d)' < Index(d)' \/ (Index(d)' = 0 /\ Prev(d)' = 0)
  <2>1. Stands(d) \/ MovesOn(d)
    BY EntriesMove
  <2>2. Prev(d) < Index(d) \/ (Index(d) = 0 /\ Prev(d) = 0)
    BY DEF LandInv, Ordered
  <2> QED  BY <2>1, <2>2 DEF Stands, MovesOn
<1> QED  BY <1>1 DEF Ordered

\* What the pointer names stays whole.
LEMMA IntegrityKept ==
  ASSUME LandInv, LandNext
  PROVE  LandIntegrity'
<1>0. /\ \A d \in Domains : Index(d) \in Hour /\ Prev(d) \in Hour
      /\ Hours \subseteq Nat /\ Hour \subseteq Nat /\ \A h \in Hour : h = 0 \/ h \in Hours
  BY LandTypes, LandConstants DEF LandInv, Hours, Hour
<1>1. ASSUME NEW d \in Domains, NEW h, h # 0, h = Index(d)' \/ h = Prev(d)'
      PROVE  NamedWhole(d, h)'
  <2>1. Stands(d) \/ MovesOn(d)
    BY EntriesMove
  <2>2. /\ Index(d) = 0 \/ NamedWhole(d, Index(d))
        /\ Prev(d) = 0 \/ NamedWhole(d, Prev(d))
    BY DEF LandInv, LandIntegrity, Index, Prev
  <2>3. Index(d) \in Nat /\ Prev(d) \in Nat
    BY <1>0
  <2>4. ASSUME h \in Hours, NamedWhole(d, h), h >= Index(d) \/ h = Prev(d)
        PROVE  NamedWhole(d, h)'
    BY <2>4, WholeStays
  <2>5. CASE Stands(d)
    <3>1. h \in Hours /\ NamedWhole(d, h) /\ (h >= Index(d) \/ h = Prev(d))
      BY <1>0, <1>1, <2>2, <2>3, <2>5 DEF Stands
    <3> QED  BY <2>4, <3>1
  <2>6. CASE MovesOn(d)
    <3>1. h \in Hours /\ NamedWhole(d, h)
      BY <1>0, <1>1, <2>2, <2>6 DEF MovesOn
    <3>2. h >= Index(d)
      BY <1>0, <1>1, <2>3, <2>6, <3>1 DEF MovesOn
    <3> QED  BY <2>4, <3>1, <3>2
  <2> QED  BY <2>1, <2>5, <2>6
<1> QED  BY <1>1 DEF LandIntegrity, Index, Prev

\* A step that adds to what a builder has uploaded stores it.
LEMMA UploadedStored ==
  ASSUME LandInv, LandNext, NEW b \in Builders, NEW nr \in 0..LandTiles, nr \in Uploaded(b)'
  PROVE  /\ ObjectOf(b, nr)' = ObjectOf(b, nr) /\ Domain(b)' = Domain(b)
         /\ BuildHour(b)' = BuildHour(b)
         /\ nr \in Uploaded(b) \/ ObjectOf(b, nr) \in indexes'
<1>0. /\ LandTypeOK /\ Uploading
      /\ phase \in [Builders -> Phases \cup LandEnded] /\ round \in [Builders -> Nat]
      /\ LandTiles \in Nat
  BY LandTypes DEF LandInv
<1>1. build' = build
  <2>1. ASSUME NEW c \in Builders, BuilderStep(c) \/ Abort(c)  PROVE build' = build
    BY <1>0, <2>1, LandFrame
  <2> QED  BY <2>1 DEF LandNext, Arrive
<1>2. ObjectOf(b, nr)' = ObjectOf(b, nr) /\ Domain(b)' = Domain(b) /\ BuildHour(b)' = BuildHour(b)
  BY <1>1 DEF ObjectOf, Domain, BuildHour
<1> DEFINE U(p, n) == CASE p = "tiles" -> 1..(n - 1)
                        [] p = "manifest" -> 1..LandTiles
                        [] p \in {"check", "read", "put", "settle"} -> 0..LandTiles
                        [] OTHER -> {}
<1>3. Uploaded(b) = U(phase[b], round[b]) /\ Uploaded(b)' = U(phase'[b], round'[b])
  BY DEF Uploaded
<1>4. CASE phase'[b] = phase[b] /\ round'[b] = round[b]
  <2> HIDE DEF U
  <2> QED  BY <1>2, <1>3, <1>4
<1>5. ASSUME NEW p, LandGo(b, p)  PROVE phase'[b] = p
  BY <1>0, <1>5 DEF LandGo
<1>6. ASSUME BuilderStep(b) \/ Abort(b)
      PROVE  nr \in Uploaded(b) \/ ObjectOf(b, nr) \in indexes'
  <2>1. CASE StartLand(b)
    BY <1>3, <1>5, <2>1 DEF StartLand
  <2>2. CASE AdmitLand(b)
    <3>1. round[b] = 1 /\ round' = round
      BY <1>0, <2>2 DEF AdmitLand, Uploading
    <3>2. phase'[b] \in {"stale", "tiles", "refused"}
      BY <1>5, <2>2 DEF AdmitLand
    <3> QED  BY <1>3, <3>1, <3>2
  <2>3. CASE UploadTile(b)
    <3>1. phase[b] = "tiles" /\ round[b] \in 1..LandTiles /\ ObjectOf(b, round[b]) \in indexes'
      BY <1>0, <2>3 DEF UploadTile, Uploading, Create
    <3>2. \/ phase'[b] = "tiles" /\ round'[b] = round[b] + 1
          \/ phase'[b] = "manifest" /\ round[b] = LandTiles
      BY <1>0, <1>5, <2>3, <3>1 DEF UploadTile
    <3>3. nr \in 1..round[b]
      BY <1>0, <1>3, <3>1, <3>2
    <3>4. nr = round[b] \/ nr \in Uploaded(b)
      BY <1>0, <1>3, <3>1, <3>3
    <3> QED  BY <3>1, <3>4
  <2>4. CASE UploadManifest(b)
    <3>1. phase[b] = "manifest" /\ phase'[b] = "check" /\ ObjectOf(b, 0) \in indexes'
      BY <1>5, <2>4 DEF UploadManifest, Create
    <3>2. nr = 0 \/ nr \in Uploaded(b)
      BY <1>0, <1>3, <3>1
    <3> QED  BY <3>1, <3>2
  <2>5. CASE CheckIndex(b) \/ ReadLatest(b) \/ PutLatestFails(b)
    <3>1. phase[b] \in {"check", "read", "put"}
      BY <2>5 DEF CheckIndex, ReadLatest, PutLatestFails
    <3> QED  BY <1>3, <3>1
  <2>6. CASE Taken(b) \/ Abort(b)
    BY <1>3, <1>5, <2>6 DEF Taken, Abort
  <2>7. CASE PutLatest(b) \/ SettleLatest(b)
    <3>1. phase'[b] \in {"list", "conflict"}
      BY <1>5, <2>7 DEF PutLatest, SettleLatest, Told
    <3> QED  BY <1>3, <3>1
  <2>8. CASE ListIndexes(b) \/ ListKeys(b) \/ RecheckLatest(b) \/ DeleteObject(b)
    <3>1. phase'[b] \in {"prune", "status", "recheck", "delete"} \/ phase'[b] = phase[b]
      BY <1>5, <2>8 DEF ListIndexes, ListKeys, RecheckLatest, DeleteObject, PruneSkip, PruneOn
    <3>2. phase[b] \in Telling
      BY <2>8 DEF ListIndexes, ListKeys, RecheckLatest, DeleteObject, Telling
    <3> QED  BY <1>3, <3>1, <3>2 DEF Telling
  <2>9. CASE PutLandStatus(b)
    BY <1>3, <1>5, <2>9 DEF PutLandStatus
  <2> HIDE DEF U
  <2> QED  BY <1>6, <2>1, <2>2, <2>3, <2>4, <2>5, <2>6, <2>7, <2>8, <2>9 DEF BuilderStep
<1>7. ASSUME NEW c \in Builders \ {b}, BuilderStep(c) \/ Abort(c)
      PROVE  phase'[b] = phase[b] /\ round'[b] = round[b]
  BY <1>0, <1>7, LandFrame
<1>8. ASSUME NEW r \in requests, Arrive(r)
      PROVE  phase'[b] = phase[b] /\ round'[b] = round[b]
  BY <1>8 DEF Arrive
<1>9. \/ BuilderStep(b) \/ Abort(b)
      \/ phase'[b] = phase[b] /\ round'[b] = round[b]
  BY <1>7, <1>8 DEF LandNext
<1> HIDE DEF U
<1> QED  BY <1>2, <1>4, <1>6, <1>9

\* What a builder has uploaded stays, or a newer index of its domain is named.
LEMMA UploadingKept ==
  ASSUME LandInv, LandNext
  PROVE  Uploading'
<1>0. /\ LandTypeOK /\ Uploading
      /\ phase \in [Builders -> Phases \cup LandEnded] /\ round \in [Builders -> Nat]
      /\ LandTiles \in Nat /\ LandTiles > 0
      /\ \A d \in Domains : Index(d) \in Nat
      /\ \A b \in Builders : Domain(b) \in Domains /\ BuildHour(b) \in Nat
  BY LandTypes DEF LandInv
<1>1. ASSUME NEW b \in Builders
      PROVE  /\ phase'[b] \in {"start", "admit"} => round'[b] = 1
             /\ phase'[b] = "tiles" => round'[b] \in 1..LandTiles
  <2>1. /\ phase[b] \in {"start", "admit"} => round[b] = 1
        /\ phase[b] = "tiles" => round[b] \in 1..LandTiles
    BY <1>0 DEF Uploading
  <2>2. ASSUME NEW p, LandGo(b, p)  PROVE phase'[b] = p
    BY <1>0, <2>2 DEF LandGo
  <2>3. CASE StartLand(b) \/ AdmitLand(b)
    <3>1. /\ round[b] = 1 /\ round' = round
          /\ phase'[b] \in {"admit", "refused", "stale", "tiles"}
      BY <2>1, <2>2, <2>3 DEF StartLand, AdmitLand
    <3> QED  BY <1>0, <3>1
  <2>4. CASE UploadTile(b)
    BY <1>0, <2>1, <2>2, <2>4 DEF UploadTile
  <2>5. CASE UploadManifest(b) \/ Taken(b) \/ CheckIndex(b) \/ Abort(b) \/ PutLandStatus(b)
    <3>1. phase'[b] \in {"check", "failed", "read", "ok"}
      BY <2>2, <2>5 DEF UploadManifest, Taken, CheckIndex, Abort, PutLandStatus
    <3> QED  BY <3>1
  <2>6. CASE ReadLatest(b) \/ PutLatest(b) \/ PutLatestFails(b) \/ SettleLatest(b)
    <3>1. phase'[b] \in {"list", "stale", "put", "read", "settle", "conflict"}
      BY <2>2, <2>6 DEF ReadLatest, PutLatest, PutLatestFails, SettleLatest, Told
    <3> QED  BY <3>1
  <2>7. CASE ListIndexes(b) \/ ListKeys(b) \/ RecheckLatest(b) \/ DeleteObject(b)
    <3>1. phase'[b] \in {"prune", "status", "recheck", "delete"} \/ phase'[b] = phase[b]
      BY <2>2, <2>7 DEF ListIndexes, ListKeys, RecheckLatest, DeleteObject, PruneSkip, PruneOn
    <3>2. phase[b] \in Telling
      BY <2>7 DEF ListIndexes, ListKeys, RecheckLatest, DeleteObject, Telling
    <3> QED  BY <3>1, <3>2 DEF Telling
  <2>8. ASSUME NEW c \in Builders \ {b}, BuilderStep(c) \/ Abort(c)
        PROVE  phase'[b] = phase[b] /\ round'[b] = round[b]
    BY <1>0, <2>8, LandFrame
  <2>9. ASSUME NEW r \in requests, Arrive(r)
        PROVE  phase'[b] = phase[b] /\ round'[b] = round[b]
    BY <2>9 DEF Arrive
  <2>10. \/ BuilderStep(b) \/ Abort(b)
         \/ phase'[b] = phase[b] /\ round'[b] = round[b]
    BY <2>8, <2>9 DEF LandNext
  <2>11. CASE phase'[b] = phase[b] /\ round'[b] = round[b]
    BY <2>1, <2>11
  <2> QED  BY <2>3, <2>4, <2>5, <2>6, <2>7, <2>10, <2>11 DEF BuilderStep
<1>2. ASSUME NEW b \in Builders, NEW nr \in 0..LandTiles, nr \in Uploaded(b)'
      PROVE  ObjectOf(b, nr)' \in indexes' \/ BuildHour(b)' < Index(Domain(b))'
  <2>1. /\ ObjectOf(b, nr)' = ObjectOf(b, nr)
        /\ Domain(b)' = Domain(b) /\ BuildHour(b)' = BuildHour(b)
        /\ nr \in Uploaded(b) \/ ObjectOf(b, nr) \in indexes'
    BY <1>2, UploadedStored
  <2>2. PICK d \in Domains : d = Domain(b)
    BY <1>0
  <2>3. Stands(d) \/ MovesOn(d)
    BY EntriesMove
  <2>4. Index(d)' \in Nat /\ Index(d)' >= Index(d)
    BY <1>0, <2>3, LandConstants DEF Stands, MovesOn, Hours
  <2>5. CASE ObjectOf(b, nr) \in indexes'
    BY <2>1, <2>5
  <2>6. CASE nr \in Uploaded(b) /\ BuildHour(b) < Index(d)
    <3>1. BuildHour(b) < Index(d)'
      BY <1>0, <2>4, <2>6
    <3> QED  BY <2>1, <2>2, <3>1
  <2>7. CASE nr \in Uploaded(b) /\ ~(BuildHour(b) < Index(d))
    <3>1. ObjectOf(b, nr) \in indexes
      BY <1>0, <2>2, <2>7 DEF Uploading
    <3>2. ObjectOf(b, nr).domain = d /\ ObjectOf(b, nr).hour = BuildHour(b)
      BY <2>2 DEF ObjectOf, Domain, BuildHour
    <3>3. BuildHour(b) >= Index(d)
      BY <1>0, <2>7
    <3>4. ObjectOf(b, nr) \in indexes'
      BY <3>1, <3>2, <3>3, ObjectsStay
    <3> QED  BY <2>1, <3>4
  <2> QED  BY <2>1, <2>5, <2>6, <2>7
<1>3. \A b \in Builders : \A nr : nr \in Uploaded(b)' => nr \in 0..LandTiles
  BY <1>0, <1>1 DEF Uploaded
<1> QED  BY <1>1, <1>2, <1>3 DEF Uploading

\* A put goes forward, and brings a whole index.
LEMMA ForwardKept ==
  ASSUME LandInv, LandNext
  PROVE  Forward'
<1>0. /\ LandTypeOK /\ Uploading /\ Forward
      /\ phase \in [Builders -> Phases \cup LandEnded] /\ seen \in [Builders -> Pointers]
      /\ requests \subseteq [seen : Pointers, build : Build] /\ build \in [Builders -> Build]
      /\ \A d \in Domains : Index(d) \in Nat
      /\ \A b \in Builders : Domain(b) \in Domains /\ BuildHour(b) \in Hours
      /\ Hours \subseteq Nat /\ LandTiles \in Nat
  BY LandTypes DEF LandInv
<1>1. build' = build
  <2>1. ASSUME NEW c \in Builders, BuilderStep(c) \/ Abort(c)  PROVE build' = build
    BY <1>0, <2>1, LandFrame
  <2> QED  BY <2>1 DEF LandNext, Arrive
<1>2. ASSUME NEW b \in Builders, phase'[b] = "put"
      PROVE  seen'[b][Domain(b)].index < BuildHour(b)
  <2>1. ASSUME NEW p, LandGo(b, p)  PROVE phase'[b] = p
    BY <1>0, <2>1 DEF LandGo
  <2>2. CASE BuilderStep(b) \/ Abort(b)
    <3>1. ReadLatest(b)
      BY <1>2, <2>1, <2>2
         DEF BuilderStep, Abort, StartLand, AdmitLand, UploadTile, UploadManifest, Taken,
             CheckIndex, PutLatest, PutLatestFails, SettleLatest, Told, ListIndexes, ListKeys,
             RecheckLatest, DeleteObject, PruneSkip, PruneOn, PutLandStatus
    <3>2. /\ seen'[b] = latest /\ Index(Domain(b)) # BuildHour(b)
          /\ ~(Index(Domain(b)) > BuildHour(b))
      BY <1>0, <1>2, <2>1, <3>1
         DEF ReadLatest, Told, NewerThan, EntryAt, Index, Domain, BuildHour
    <3>3. Index(Domain(b)) \in Nat /\ BuildHour(b) \in Nat
      BY <1>0
    <3>4. Index(Domain(b)) < BuildHour(b)
      BY <3>2, <3>3
    <3> QED  BY <3>2, <3>4 DEF Index
  <2>3. ASSUME phase'[b] = phase[b], seen'[b] = seen[b]
        PROVE  seen'[b][Domain(b)].index < BuildHour(b)
    BY <1>0, <1>2, <2>3 DEF Forward
  <2>4. ASSUME NEW c \in Builders \ {b}, BuilderStep(c) \/ Abort(c)
        PROVE  phase'[b] = phase[b] /\ seen'[b] = seen[b]
    BY <1>0, <2>4, LandFrame
  <2>5. ASSUME NEW r \in requests, Arrive(r)  PROVE phase'[b] = phase[b] /\ seen'[b] = seen[b]
    BY <2>5 DEF Arrive
  <2> QED  BY <2>2, <2>3, <2>4, <2>5 DEF LandNext
<1>3. ASSUME NEW r \in requests'
      PROVE  \/ r \in requests
             \/ \E b \in Builders : /\ phase[b] = "put"
                                    /\ r = [seen |-> seen[b], build |-> build[b]]
  <2>1. ASSUME NEW b \in Builders, BuilderStep(b) \/ Abort(b)
        PROVE  requests' = requests \/ PutLatestFails(b)
    BY <2>1 DEF BuilderStep, Abort, StartLand, AdmitLand, UploadTile, UploadManifest, Taken,
       CheckIndex, ReadLatest, PutLatest, SettleLatest, ListIndexes, ListKeys,
       RecheckLatest, DeleteObject, PutLandStatus
  <2>2. ASSUME NEW b \in Builders, PutLatestFails(b)
        PROVE  /\ phase[b] = "put"
               /\ \/ requests' = requests
                  \/ requests' = requests \cup {[seen |-> seen[b], build |-> build[b]]}
    BY <2>2 DEF PutLatestFails
  <2>3. ASSUME NEW q \in requests, Arrive(q)  PROVE requests' \subseteq requests
    BY <2>3 DEF Arrive
  <2> QED  BY <1>3, <2>1, <2>2, <2>3 DEF LandNext
<1>4. ASSUME NEW r \in requests'
      PROVE  /\ r.seen[r.build.domain].index < r.build.hour
             /\ r.build.domain \in Domains /\ r.build.hour \in Hours
             /\ \/ NamedWhole(r.build.domain, r.build.hour)
                \/ r.build.hour < Index(r.build.domain)
  <2>1. CASE r \in requests
    BY <1>0, <2>1 DEF Forward, Build
  <2>2. ASSUME NEW b \in Builders, phase[b] = "put",
               r = [seen |-> seen[b], build |-> build[b]]
        PROVE  /\ r.seen[r.build.domain].index < r.build.hour
               /\ r.build.domain \in Domains /\ r.build.hour \in Hours
               /\ \/ NamedWhole(r.build.domain, r.build.hour)
                  \/ r.build.hour < Index(r.build.domain)
    <3>1. r.seen = seen[b] /\ r.build.domain = Domain(b) /\ r.build.hour = BuildHour(b)
      BY <2>2 DEF Domain, BuildHour
    <3>2. seen[b][Domain(b)].index < BuildHour(b)
      BY <1>0, <2>2 DEF Forward
    <3>3. Uploaded(b) = 0..LandTiles
      BY <2>2 DEF Uploaded
    <3>4. \/ \A nr \in 0..LandTiles : ObjectOf(b, nr) \in indexes
          \/ BuildHour(b) < Index(Domain(b))
      BY <1>0, <3>3 DEF Uploading
    <3>5. NamedWhole(Domain(b), BuildHour(b)) \/ BuildHour(b) < Index(Domain(b))
      BY <3>4 DEF NamedWhole, ObjectOf, Domain, BuildHour
    <3> QED  BY <1>0, <3>1, <3>2, <3>5
  <2> QED  BY <1>3, <2>1, <2>2
<1>5. ASSUME NEW r \in requests'
      PROVE  NamedWhole(r.build.domain, r.build.hour)' \/ r.build.hour < Index(r.build.domain)'
  <2> DEFINE d == r.build.domain
             h == r.build.hour
  <2>0. d \in Domains /\ h \in Hours /\ h \in Nat /\ Index(d) \in Nat
    BY <1>0, <1>4
  <2>1. NamedWhole(d, h) \/ h < Index(d)
    BY <1>4
  <2> HIDE DEF d, h
  <2>2. CASE h < Index(d)
    <3>1. Stands(d) \/ MovesOn(d)
      BY <2>0, EntriesMove
    <3>2. h < Index(d)'
      BY <1>0, <2>0, <2>2, <3>1 DEF Stands, MovesOn
    <3> QED  BY <3>2 DEF d, h
  <2>3. CASE NamedWhole(d, h) /\ ~(h < Index(d))
    <3>1. h >= Index(d)
      BY <2>0, <2>3
    <3>2. NamedWhole(d, h)'
      BY <2>0, <2>3, <3>1, WholeStays
    <3> QED  BY <3>2 DEF d, h
  <2> QED  BY <2>1, <2>2, <2>3
<1>6. \A b \in Builders : Domain(b)' = Domain(b) /\ BuildHour(b)' = BuildHour(b)
  BY <1>1 DEF Domain, BuildHour
<1> QED  BY <1>2, <1>4, <1>5, <1>6 DEF Forward

\* From the moment its index is named, a builder knows what will not be named again.
LEMMA PruningKept ==
  ASSUME LandInv, LandNext
  PROVE  Pruning'
<1>0. /\ LandTypeOK /\ Pruning /\ Ordered
      /\ phase \in [Builders -> Phases \cup LandEnded] /\ kept \in [Builders -> Hour]
      /\ todo \in [Builders -> SUBSET Hours] /\ seen \in [Builders -> Pointers]
      /\ build \in [Builders -> Build]
      /\ \A d \in Domains : Index(d) \in Nat /\ Prev(d) \in Nat
      /\ \A b \in Builders : Domain(b) \in Domains /\ BuildHour(b) \in Hours
      /\ Hours \subseteq Nat /\ Hour \subseteq Nat /\ 0 \notin Hours
  BY LandTypes DEF LandInv
<1>1. build' = build
  <2>1. ASSUME NEW c \in Builders, BuilderStep(c) \/ Abort(c)  PROVE build' = build
    BY <1>0, <2>1, LandFrame
  <2> QED  BY <2>1 DEF LandNext, Arrive
<1>2. ASSUME NEW b \in Builders
      PROVE  \/ BuilderStep(b)
             \/ phase'[b] = "failed"
             \/ phase'[b] = phase[b] /\ kept'[b] = kept[b] /\ todo'[b] = todo[b]
  <2>1. ASSUME NEW c \in Builders \ {b}, BuilderStep(c) \/ Abort(c)
        PROVE  phase'[b] = phase[b] /\ kept'[b] = kept[b] /\ todo'[b] = todo[b]
    BY <1>0, <2>1, LandFrame
  <2>2. ASSUME NEW r \in requests, Arrive(r)
        PROVE  phase'[b] = phase[b] /\ kept'[b] = kept[b] /\ todo'[b] = todo[b]
    BY <2>2 DEF Arrive
  <2>3. Abort(b) => phase'[b] = "failed"
    BY <1>0 DEF Abort, LandGo
  <2> QED  BY <2>1, <2>2, <2>3 DEF LandNext
<1>3. ASSUME NEW b \in Builders, BuilderStep(b), phase'[b] \in Telling
      PROVE  \/ phase[b] \in Telling /\ kept'[b] = kept[b]
             \/ /\ latest'[Domain(b)].index = BuildHour(b)
                /\ latest'[Domain(b)].prev = kept'[b]
  <2>1. ASSUME NEW p, LandGo(b, p)  PROVE phase'[b] = p
    BY <1>0, <2>1 DEF LandGo
  <2>2. ASSUME NEW prev, Told(b, prev)  PROVE phase'[b] = "list" /\ kept'[b] = prev
    BY <1>0, <2>1, <2>2 DEF Told
  <2>3. CASE ReadLatest(b) \/ SettleLatest(b)
    <3>1. /\ latest' = latest /\ EntryAt(b).index = build[b].hour
          /\ kept'[b] = EntryAt(b).prev
      BY <1>3, <2>1, <2>2, <2>3 DEF ReadLatest, SettleLatest, Telling
    <3> QED  BY <3>1 DEF EntryAt, Domain, BuildHour
  <2>4. CASE PutLatest(b)
    <3>1. /\ latest' = Moved(seen[b], build[b])
          /\ kept'[b] = seen[b][build[b].domain].index
      BY <2>2, <2>4 DEF PutLatest
    <3> QED  BY <1>0, <3>1, MovedIs DEF Domain, BuildHour
  <2>5. CASE ListIndexes(b) \/ ListKeys(b) \/ RecheckLatest(b) \/ DeleteObject(b)
    BY <2>5 DEF ListIndexes, ListKeys, RecheckLatest, DeleteObject, Telling
  <2>6. CASE \/ StartLand(b) \/ AdmitLand(b) \/ UploadTile(b) \/ UploadManifest(b) \/ Taken(b)
             \/ CheckIndex(b) \/ PutLatestFails(b) \/ PutLandStatus(b)
    <3>1. phase'[b] \notin Telling
      BY <2>1, <2>6 DEF StartLand, AdmitLand, UploadTile, UploadManifest, Taken, CheckIndex,
                        PutLatestFails, PutLandStatus, Telling
    <3> QED  BY <1>3, <3>1
  <2> QED  BY <1>3, <2>3, <2>4, <2>5, <2>6 DEF BuilderStep
<1>4. ASSUME NEW b \in Builders, phase'[b] \in Telling
      PROVE  /\ kept'[b] < BuildHour(b)
             /\ BuildHour(b) <= latest'[Domain(b)].index
             /\ \/ latest'[Domain(b)].index = BuildHour(b) /\ latest'[Domain(b)].prev = kept'[b]
                \/ BuildHour(b) <= latest'[Domain(b)].prev
  <2>1. PICK d \in Domains : d = Domain(b)
    BY <1>0
  <2> DEFINE i == latest'[d].index
             q == latest'[d].prev
             h == BuildHour(b)
  <2>2. /\ Index(d) \in Nat /\ Prev(d) \in Nat /\ h \in Nat /\ h # 0
    BY <1>0
  <2>3. \/ i = Index(d) /\ q = Prev(d)
        \/ Index(d) < i /\ q = Index(d) /\ i \in Nat
    BY <1>0, EntriesMove DEF Stands, MovesOn, Index, Prev
  <2>4. Prev(d) < Index(d) \/ (Index(d) = 0 /\ Prev(d) = 0)
    BY <1>0 DEF Ordered
  <2>5. CASE phase[b] \in Telling /\ kept'[b] = kept[b]
    <3>1. /\ kept[b] < h /\ h <= Index(d)
          /\ (Index(d) = h /\ Prev(d) = kept[b]) \/ h <= Prev(d)
      BY <1>0, <2>1, <2>5 DEF Pruning
    <3> HIDE DEF i, q, h
    <3>2. /\ kept'[b] < h /\ h <= i
          /\ (i = h /\ q = kept'[b]) \/ h <= q
      BY <2>2, <2>3, <2>4, <2>5, <3>1
    <3> QED  BY <2>1, <3>2 DEF i, q, h
  <2>6. CASE i = h /\ q = kept'[b]
    <3> HIDE DEF i, q, h
    <3>1. kept'[b] < h /\ h <= i
      BY <2>2, <2>3, <2>4, <2>6
    <3> QED  BY <2>1, <2>6, <3>1 DEF i, q, h
  <2>7. phase'[b] # "failed"
    BY <1>4 DEF Telling
  <2> HIDE DEF i, q, h
  <2> QED  BY <1>2, <1>3, <1>4, <2>1, <2>5, <2>6, <2>7 DEF i, q, h
<1>5. ASSUME NEW b \in Builders, phase'[b] \in {"prune", "recheck", "delete"}
      PROVE  todo'[b] # {} /\ (\A h \in todo'[b] : h < OldestKept(b)')
  <2> DEFINE old(k) == IF k = 0 THEN BuildHour(b) ELSE k
  <2>1. OldestKept(b) = old(kept[b]) /\ OldestKept(b)' = old(kept'[b])
    BY <1>1 DEF OldestKept, BuildHour
  <2>2. ASSUME NEW p, LandGo(b, p)  PROVE phase'[b] = p
    BY <1>0, <2>2 DEF LandGo
  <2>3. phase[b] \in {"prune", "recheck", "delete"} =>
          todo[b] # {} /\ (\A h \in todo[b] : h < old(kept[b]))
    BY <1>0, <2>1 DEF Pruning
  <2> HIDE DEF old
  <2>4. CASE phase'[b] = phase[b] /\ kept'[b] = kept[b] /\ todo'[b] = todo[b]
    BY <1>5, <2>1, <2>3, <2>4
  <2>5. ASSUME PruneSkip(b), phase[b] \in {"prune", "recheck", "delete"}, kept' = kept
        PROVE  todo'[b] # {} /\ (\A h \in todo'[b] : h < OldestKept(b)')
    <3>1. todo'[b] \subseteq todo[b]
      BY <1>0, <2>5 DEF PruneSkip
    <3>2. todo'[b] # {}
      BY <1>5, <2>2, <2>5 DEF PruneSkip, PruneOn
    <3> QED  BY <2>1, <2>3, <2>5, <3>1, <3>2
  <2>6. CASE ListIndexes(b)
    <3>1. todo'[b] = Superseded(b) /\ kept' = kept
      BY <1>0, <2>6 DEF ListIndexes
    <3>2. todo'[b] # {}
      BY <1>5, <2>2, <2>6 DEF ListIndexes, PruneOn
    <3>3. \A h \in Superseded(b) : h < OldestKept(b)
      BY DEF Superseded
    <3> QED  BY <2>1, <3>1, <3>2, <3>3
  <2>7. CASE ListKeys(b) \/ RecheckLatest(b) \/ DeleteObject(b)
    <3>1. phase[b] \in {"prune", "recheck", "delete"} /\ kept' = kept
      BY <2>7 DEF ListKeys, RecheckLatest, DeleteObject
    <3>2. PruneSkip(b) \/ todo' = todo
      BY <2>7 DEF ListKeys, RecheckLatest, DeleteObject
    <3>3. CASE todo' = todo
      BY <2>1, <2>3, <3>1, <3>3
    <3> QED  BY <2>5, <3>1, <3>2, <3>3
  <2>8. ASSUME \/ StartLand(b) \/ AdmitLand(b) \/ UploadTile(b) \/ UploadManifest(b) \/ Taken(b)
               \/ CheckIndex(b) \/ ReadLatest(b) \/ PutLatest(b) \/ PutLatestFails(b)
               \/ SettleLatest(b) \/ PutLandStatus(b)
        PROVE  FALSE
    BY <1>5, <2>2, <2>8
       DEF StartLand, AdmitLand, UploadTile, UploadManifest, Taken, CheckIndex, ReadLatest,
           PutLatest, PutLatestFails, SettleLatest, PutLandStatus, Told
  <2>9. phase'[b] # "failed"
    BY <1>5
  <2> QED  BY <1>2, <2>4, <2>6, <2>7, <2>8, <2>9 DEF BuilderStep
<1>6. /\ \A b \in Builders : Domain(b)' = Domain(b) /\ BuildHour(b)' = BuildHour(b)
      /\ \A b \in Builders : /\ Index(Domain(b))' = latest'[Domain(b)].index
                             /\ Prev(Domain(b))' = latest'[Domain(b)].prev
  BY <1>1 DEF Domain, BuildHour, Index, Prev
<1> QED  BY <1>4, <1>5, <1>6 DEF Pruning

-----------------------------------------------------------------------------
(***************************************************************************)
(* The theorems.                                                           *)
(***************************************************************************)
\* Before any build the invariant holds.
LEMMA LandStarts ==
  ASSUME LandInit
  PROVE  LandInv
<1>1. NoPointer \in Pointers /\ \A d \in Domains : NoPointer[d].index = 0 /\ NoPointer[d].prev = 0
  BY LandConstants DEF NoPointer, Pointers, LandEntry, Hour
<1>2. /\ latest = NoPointer /\ indexes = {} /\ requests = {}
      /\ landStatus \in {[domain |-> d, hour |-> 0] : d \in Domains}
      /\ build \in [Builders -> Build]
      /\ \A b \in Builders : phase[b] = "start" /\ round[b] = 1
  BY DEF LandInit
<1>3. LandTypeOK
  <2>1. /\ phase \in [Builders -> Phases \cup LandEnded] /\ round \in [Builders -> Nat]
        /\ seen \in [Builders -> Pointers] /\ kept \in [Builders -> Hour]
        /\ todo \in [Builders -> SUBSET Hours] /\ keys \in [Builders -> SUBSET (0..LandTiles)]
    BY <1>1, LandConstants DEF LandInit, Phases, Hour
  <2> QED  BY <1>1, <1>2, <2>1 DEF LandTypeOK
<1>4. \A b \in Builders : Uploaded(b) = {}
  BY <1>2 DEF Uploaded
<1>5. Uploading
  BY <1>2, <1>4 DEF Uploading
<1>6. Ordered /\ LandIntegrity
  BY <1>1, <1>2 DEF Ordered, LandIntegrity, Index, Prev
<1>7. Forward /\ Pruning
  BY <1>2 DEF Forward, Pruning, Telling
<1> QED  BY <1>3, <1>5, <1>6, <1>7 DEF LandInv

\* The invariant is inductive.
LEMMA LandInvKept ==
  ASSUME LandInv, [LandNext]_landVars
  PROVE  LandInv'
<1>1. CASE LandNext
  <2>1. LandTypeOK'
    BY <1>1, LandTypedKept DEF LandInv
  <2> QED  BY <1>1, <2>1, UploadingKept, OrderedKept, ForwardKept, PruningKept, IntegrityKept
           DEF LandInv
<1>2. CASE UNCHANGED landVars
  BY <1>2 DEF landVars, LandInv, LandTypeOK, Uploading, Uploaded, Ordered, Forward, Pruning,
              LandIntegrity, NamedWhole, ObjectOf, OldestKept, Index, Prev, Domain, BuildHour
<1> QED  BY <1>1, <1>2

\* LandInv holds in every state of `ingest land`.
THEOREM LandInvariant == LandSpec => []LandInv
<1> QED  BY LandStarts, LandInvKept, PTL DEF LandSpec

\* The state of the land index keeps its types.
THEOREM LandTyped == LandSpec => []LandTypeOK
<1>1. LandInv => LandTypeOK
  BY DEF LandInv
<1> QED  BY <1>1, LandInvariant, PTL

\* Every index that the pointer names, current or previous, has its manifest and all its
\* tiles, of one build: however many builders publish and prune at once, wherever one is
\* killed, and whenever a lost put arrives.
THEOREM LandIndexesStayWhole == LandSpec => []LandIntegrity
<1>1. LandInv => LandIntegrity
  BY DEF LandInv
<1> QED  BY <1>1, LandInvariant, PTL

\* A step of the land index publishes one domain in the register, or leaves it alone.
LEMMA LandStepRefines ==
  ASSUME LandInv, [LandNext]_landVars
  PROVE  [LandRegister!Next]_(LandRegister!vars)
<1>1. CASE latest' = latest
  BY <1>1 DEF LandRegister!vars
<1>2. CASE latest' # latest
  <2>1. LandNext
    BY <1>2 DEF landVars
  <2>2. PICK j \in Build : /\ latest' = Moved(latest, j) /\ Index(j.domain) < j.hour
                           /\ NamedWhole(j.domain, j.hour)
    BY <1>2, <2>1, PointerMoves
  <2>3. /\ latest \in Pointers /\ j.domain \in Domains /\ j.hour \in 1..LastHour
        /\ Index(j.domain) \in Nat
    BY LandTypes DEF LandInv, Build, Hours
  <2>4. /\ latest' \in Pointers
        /\ latest'[j.domain].index = j.hour
        /\ latest'[j.domain].prev = latest[j.domain].index
        /\ \A x \in Domains \ {j.domain} : latest'[x] = latest[x]
    BY <2>2, <2>3, MovedIs
  <2>5. j.hour # latest[j.domain].index /\ latest[j.domain].index <= j.hour
    BY <2>2, <2>3 DEF Index, Hours
  <2>6. [d \in Domains |-> latest'[d].index]
          = [[d \in Domains |-> latest[d].index] EXCEPT ![j.domain] = j.hour]
    BY <2>3, <2>4
  <2>7. [d \in Domains |-> latest'[d].prev]
          = [[d \in Domains |-> latest[d].prev] EXCEPT ![j.domain] = latest[j.domain].index]
    BY <2>3, <2>4
  <2>8. LandRegister!Publish(j.domain, j.hour)
    BY <2>3, <2>5, <2>6, <2>7 DEF LandRegister!Publish
  <2> QED  BY <2>3, <2>8 DEF LandRegister!Next, LandRegister!Cycle
<1> QED  BY <1>1, <1>2

\* The document of the land index implements the register of forecast layers: one domain
\* at a time, from one hour to a later one, and the replaced index becomes the previous one.
THEOREM LandImplementsTheRegister == LandSpec => LandImplementsRegister
<1>1. LandInit => LandRegister!Init
  BY DEF LandInit, NoPointer, LandRegister!Init
<1> QED  BY <1>1, LandStepRefines, LandInvariant, PTL
         DEF LandSpec, LandImplementsRegister, LandRegister!Spec

-----------------------------------------------------------------------------
(***************************************************************************)
(* LandRaster: whole numbers, and the steps along an edge.                 *)
(***************************************************************************)
\* A positive factor keeps an order.
LEMMA ProductLess ==
  ASSUME NEW a \in Nat \ {0}, NEW x \in Int, NEW y \in Int
  PROVE  (a * x < a * y <=> x < y) /\ (a * x <= a * y <=> x <= y)
<1>1. x < y => a * x < a * y
  <2> SUFFICES ASSUME y - x >= 1 PROVE a * (y - x) >= 1
    OBVIOUS
  <2>1. QED
    BY Z3
<1>2. y <= x => a * y <= a * x
  <2> SUFFICES ASSUME x - y >= 0 PROVE a * (x - y) >= 0
    OBVIOUS
  <2>1. QED
    BY Z3
<1>3. x <= y => a * x <= a * y
  <2> SUFFICES ASSUME y - x >= 0 PROVE a * (y - x) >= 0
    OBVIOUS
  <2>1. QED
    BY Z3
<1>4. y < x => a * y < a * x
  <2> SUFFICES ASSUME x - y >= 1 PROVE a * (x - y) >= 1
    OBVIOUS
  <2>1. QED
    BY Z3
<1>5. a * x \in Int /\ a * y \in Int
  OBVIOUS
<1>6. QED
  BY <1>1, <1>2, <1>3, <1>4, <1>5

\* Along two axes at once, from 0 to D and from 0 to E: there is a step of n in which both
\* are within their bounds, when neither leaves them before the other enters.
BothWithin(n, D, E, A, A2, B, B2, k) ==
  /\ k \in 0..n - 1
  /\ D * k < n * A2 /\ D * (k + 1) > n * A /\ E * k < n * B2 /\ E * (k + 1) > n * B

\* First when the bound along D is the later to be entered.
LEMMA StepWithinFrom ==
  ASSUME NEW n \in Nat \ {0}, NEW D \in Nat, NEW E \in Nat, NEW A \in Int, NEW A2 \in Int,
         NEW B \in Int, NEW B2 \in Int, A < A2, A < D, B < E, B2 > 0, A > 0,
         D > 0 /\ E > 0 => A * E < B2 * D, B * D <= A * E
  PROVE  \E k : BothWithin(n, D, E, A, A2, B, B2, k)
<1>1. D \in Nat \ {0}
  OBVIOUS
<1> DEFINE k == (n * A) \div D
           r == (n * A) % D
<1>2. n * A \in Int /\ n * D \in Int /\ 0 < n * A /\ n * A < n * D /\ n * A < n * A2
  <2>1. n * 0 < n * A /\ n * A < n * D /\ n * A < n * A2 /\ n * 0 = 0
    BY ProductLess
  <2>2. QED
    BY <2>1
<1>3. k \in Int /\ D * k <= n * A /\ n * A < D * k + D
  <2> DEFINE x == n * A
  <2>1. x \in Int
    BY <1>2
  <2> HIDE DEF x
  <2>2. /\ x \div D \in Int /\ x % D \in Int /\ 0 <= x % D /\ x % D < D
        /\ x % D = x - D * (x \div D)
    BY <1>1, <2>1, DivisionLeaves
  <2>3. D * (x \div D) <= x /\ x < D * (x \div D) + D
    BY <1>1, <2>1, <2>2
  <2>4. QED
    BY <2>2, <2>3 DEF x
<1> HIDE DEF k, r
<1>4. D * k + D = D * (k + 1) /\ n * D = D * n
  BY <1>1, <1>3
<1>5. D * k < D * n /\ D * 0 < D * (k + 1) /\ D * k \in Int
  BY <1>1, <1>2, <1>3, <1>4
<1>6. k \in 0..n - 1
  <2>1. k < n /\ 0 < k + 1
    <3>1. k < n
      BY <1>1, <1>3, <1>5, ProductLess
    <3>2. k + 1 \in Int
      BY <1>3
    <3>3. 0 < k + 1
      BY <1>1, <3>2, <1>5, ProductLess
    <3>4. QED
      BY <3>1, <3>3
  <2>2. QED
    BY <1>3, <2>1
<1>7. D * k < n * A2 /\ D * (k + 1) > n * A
  BY <1>2, <1>3, <1>4, <1>5
<1>8. CASE E = 0
  <2>1. E * k = 0 /\ E * (k + 1) = 0
    BY <1>3, <1>8
  <2>2. n * 0 < n * B2 /\ n * B < n * 0 /\ n * 0 = 0
    BY <1>8, ProductLess
  <2>3. QED
    BY <1>6, <1>7, <2>1, <2>2 DEF BothWithin
<1>9. CASE E # 0
  <2>1. E \in Nat \ {0} /\ E * k \in Int /\ E * (k + 1) \in Int /\ n * B2 \in Int /\ n * B \in Int
    BY <1>3, <1>9
  <2>2. E * (D * k) <= E * (n * A) /\ E * (n * A) < E * (D * (k + 1))
    <3>1. D * k \in Int /\ D * (k + 1) \in Int /\ D * k <= n * A /\ n * A < D * (k + 1)
      BY <1>2, <1>3, <1>4, <1>5
    <3>2. QED
      BY <1>2, <2>1, <3>1, ProductLess
  <2>3. n * (A * E) < n * (B2 * D) /\ n * (B * D) <= n * (A * E)
    <3>1. A * E \in Int /\ B2 * D \in Int /\ B * D \in Int /\ A * E < B2 * D
      BY <1>1, <2>1
    <3>2. QED
      BY <3>1, ProductLess
  <2>4. /\ E * (D * k) = D * (E * k) /\ E * (D * (k + 1)) = D * (E * (k + 1))
        /\ E * (n * A) = n * (A * E) /\ n * (B2 * D) = D * (n * B2) /\ n * (B * D) = D * (n * B)
    BY <1>3
  <2>5. D * (E * k) < D * (n * B2) /\ D * (n * B) < D * (E * (k + 1))
    <3>1. {D * (E * k), D * (n * B2), D * (n * B), D * (E * (k + 1)), E * (n * A)} \subseteq Int
      BY <1>2, <2>1
    <3>2. QED
      BY <2>2, <2>3, <2>4, <3>1
  <2>6. E * k < n * B2 /\ n * B < E * (k + 1)
    BY <1>1, <2>1, <2>5, ProductLess
  <2>7. QED
    BY <1>6, <1>7, <2>1, <2>6 DEF BothWithin
<1>10. QED
  BY <1>8, <1>9

\* Two intervals entered before the other is left have a step in common.
LEMMA StepWithin ==
  ASSUME NEW n \in Nat \ {0}, NEW D \in Nat, NEW E \in Nat, NEW A \in Int, NEW A2 \in Int,
         NEW B \in Int, NEW B2 \in Int, A < A2, B < B2, A < D, B < E, A2 > 0, B2 > 0,
         D > 0 /\ E > 0 => A * E < B2 * D /\ B * D < A2 * E
  PROVE  \E k : BothWithin(n, D, E, A, A2, B, B2, k)
<1>1. A * E \in Int /\ B * D \in Int /\ A2 * E \in Int /\ B2 * D \in Int
  OBVIOUS
<1>2. CASE A <= 0 /\ B <= 0
  <2>1. n * 0 < n * A2 /\ n * A <= n * 0 /\ n * 0 < n * B2 /\ n * B <= n * 0 /\ n * 0 = 0
    BY <1>2, ProductLess
  <2>2. A < 0 => n * A < 0
    <3>1. A < 0 => n * A < n * 0
      BY ProductLess
    <3>2. QED
      BY <2>1, <3>1
  <2>3. B < 0 => n * B < 0
    <3>1. B < 0 => n * B < n * 0
      BY ProductLess
    <3>2. QED
      BY <2>1, <3>1
  <2>4. n * A \in Int /\ n * B \in Int /\ n * A2 \in Int /\ n * B2 \in Int
    OBVIOUS
  <2>5. D > n * A /\ E > n * B
    BY <1>2, <2>1, <2>2, <2>3, <2>4
  <2>6. D * 0 = 0 /\ E * 0 = 0 /\ D * (0 + 1) = D /\ E * (0 + 1) = E
    OBVIOUS
  <2>7. BothWithin(n, D, E, A, A2, B, B2, 0)
    BY <2>1, <2>5, <2>6 DEF BothWithin
  <2>8. QED
    BY <2>7
<1>3. CASE A > 0 /\ B * D <= A * E
  BY <1>3, StepWithinFrom
<1>4. CASE B > 0 /\ A * E <= B * D
  <2>1. E > 0 /\ D > 0 => B * D < A2 * E
    OBVIOUS
  <2>2. \E k : BothWithin(n, E, D, B, B2, A, A2, k)
    BY <1>4, <2>1, StepWithinFrom
  <2>3. QED
    BY <2>2 DEF BothWithin
<1>5. A > 0 /\ A * E < B * D => B > 0
  <2> SUFFICES ASSUME A > 0, B <= 0, A * E < B * D PROVE FALSE
    OBVIOUS
  <2>1. A * E >= 0 /\ B * D <= 0
    BY Z3
  <2>2. QED
    BY <1>1, <2>1
<1>6. A <= 0 /\ B > 0 => A * E <= B * D
  <2> SUFFICES ASSUME A <= 0, B > 0 PROVE A * E <= B * D
    OBVIOUS
  <2>1. A * E <= 0 /\ B * D >= 0
    BY Z3
  <2>2. QED
    BY <1>1, <2>1
<1>7. QED
  BY <1>1, <1>2, <1>3, <1>4, <1>5, <1>6

\* Two samples less than a cell apart, one before the cell's far side and one past its near
\* side: one of them is in it.
LEMMA OneOfTwo ==
  ASSUME NEW m \in Nat \ {0}, NEW u \in Int, NEW v \in Int, NEW col \in Int,
         v - u < m, u - v < m,
         \/ u < m * col + m /\ v > m * col
         \/ u > m * col /\ v < m * col + m
  PROVE  col = u \div m \/ col = v \div m
<1> DEFINE at == m * col
<1>1. at \in Int
  OBVIOUS
<1>2. ASSUME NEW x \in Int, at <= x, x < at + m PROVE col = x \div m
  <2>1. x - at \in 0..m - 1 /\ x = m * col + (x - at)
    BY <1>1, <1>2
  <2> HIDE DEF at
  <2>2. QED
    BY <2>1, DividedOnce
<1>3. (at <= u /\ u < at + m) \/ (at <= v /\ v < at + m)
  <2>1. (u < at + m /\ v > at) \/ (u > at /\ v < at + m)
    OBVIOUS
  <2> HIDE DEF at
  <2>2. QED
    BY <1>1, <2>1
<1>4. QED
  BY <1>2, <1>3

\* The greater of two.
LEMMA MostOfTwo ==
  ASSUME NEW x \in Int, NEW y \in Int
  PROVE  Max({x, y}) = IF x >= y THEN x ELSE y
<1> DEFINE a == IF x >= y THEN x ELSE y
<1>1. a \in {x, y} /\ \A z \in {x, y} : a >= z
  OBVIOUS
<1>2. \A w \in {x, y} : (\A z \in {x, y} : w >= z) => w = a
  OBVIOUS
<1>3. QED
  BY <1>1, <1>2 DEF Max

\* Division rounded up.
LEMMA CeilIs ==
  ASSUME NEW a \in Int, NEW b \in Nat \ {0}
  PROVE  CeilDiv(a, b) \in Int /\ a <= b * CeilDiv(a, b) /\ b * CeilDiv(a, b) < a + b
<1> DEFINE x == -a
           q == x \div b
<1>1. x \in Int
  OBVIOUS
<1> HIDE DEF x
<1>2. /\ x \div b \in Int /\ x % b \in Int /\ 0 <= x % b /\ x % b < b
      /\ x % b = x - b * (x \div b)
  BY <1>1, DivisionLeaves
<1>3. CeilDiv(a, b) = -q
  BY DEF CeilDiv, x
<1>4. PICK r \in Int : r = x % b
  BY <1>2
<1>5. q \in Int /\ 0 <= x - b * q /\ x - b * q < b
  BY <1>2
<1> HIDE DEF q
<1>6. b * (-q) = -(b * q) /\ b * q \in Int
  BY <1>5
<1>7. QED
  BY <1>3, <1>5, <1>6 DEF x

Edge == [x0 : Int, y0 : Int, x1 : Int, y1 : Int, nr : Nat]

\* The samples of an edge are half a cell apart at most.
LEMMA StepsAreShort ==
  ASSUME NEW e \in Edge
  PROVE  /\ StepsOf(e) \in Nat \ {0}
         /\ 2 * AbsOf(e.x1 - e.x0) <= StepsOf(e) * Unit
         /\ 2 * AbsOf(e.y1 - e.y0) <= StepsOf(e) * Unit
<1> DEFINE X == AbsOf(e.x1 - e.x0)
           Y == AbsOf(e.y1 - e.y0)
           M == Max({X, Y})
           q == CeilDiv(2 * M, Unit)
<1>1. X \in Nat /\ Y \in Nat
  BY DEF Edge, AbsOf
<1> HIDE DEF X, Y
<1>2. M \in Nat /\ X <= M /\ Y <= M
  BY <1>1, MostOfTwo
<1> HIDE DEF M
<1>3. Unit \in Nat \ {0}
  BY RasterConstants
<1>4. q \in Int /\ 2 * M <= Unit * q
  BY <1>2, <1>3, CeilIs
<1> HIDE DEF q
<1>5. StepsOf(e) = Max({1, q})
  BY DEF StepsOf, q, M, X, Y
<1>6. PICK n \in Int : n = StepsOf(e) /\ n >= 1 /\ n >= q
  BY <1>4, <1>5, MostOfTwo
<1>7. Unit * q <= Unit * n
  BY <1>3, <1>4, <1>6, ProductLess
<1>8. Unit * n = n * Unit /\ n * Unit \in Int /\ Unit * q \in Int
  BY <1>3, <1>4, <1>6
<1>9. 2 * X <= n * Unit /\ 2 * Y <= n * Unit
  BY <1>1, <1>2, <1>4, <1>7, <1>8
<1>10. QED
  BY <1>6, <1>9 DEF X, Y

CornerSides(e, w, s) == {SideOf(e, x, y) : x \in {w, w + Unit}, y \in {s, s + Unit}}

\* The corners of a cell lie beside an edge at a least and a greatest distance.
LEMMA SidesOfCell ==
  ASSUME NEW e \in Edge, NEW w \in Int, NEW s \in Int
  PROVE  LET sides == CornerSides(e, w, s)
         IN  /\ Min(sides) \in sides /\ Max(sides) \in sides
             /\ \A n \in sides : n \in Int /\ Min(sides) <= n /\ n <= Max(sides)
<1> DEFINE at(x, y) == SideOf(e, x, y)
           sides == CornerSides(e, w, s)
<1>1. Unit \in Nat \ {0}
  BY RasterConstants
<1>2. e.x0 \in Int /\ e.x1 \in Int /\ e.y0 \in Int /\ e.y1 \in Int
  BY DEF Edge
<1>4. \A x, y \in Int : at(x, y) \in Int
  BY <1>2 DEF SideOf
<1>5. sides \subseteq Int /\ IsFiniteSet(sides) /\ sides # {}
  <2>1. sides = {at(w, s), at(w, s + Unit), at(w + Unit, s), at(w + Unit, s + Unit)}
    BY DEF CornerSides
  <2> DEFINE four == {at(w, s), at(w, s + Unit), at(w + Unit, s), at(w + Unit, s + Unit)}
  <2>2. four \subseteq Int
    <3>1. w + Unit \in Int /\ s + Unit \in Int
      BY <1>1
    <3> HIDE DEF at
    <3>2. QED
      BY <1>1, <1>4, <3>1
  <2>3. IsFiniteSet(four)
    <3> HIDE DEF at
    <3>1. IsFiniteSet({}) /\ IsFiniteSet({at(w, s)})
      BY FS_EmptySet, FS_Singleton
    <3>2. IsFiniteSet({at(w, s)} \cup {at(w, s + Unit)})
      BY <3>1, FS_AddElement
    <3>3. IsFiniteSet({at(w, s)} \cup {at(w, s + Unit)} \cup {at(w + Unit, s)})
      BY <3>2, FS_AddElement
    <3>4. IsFiniteSet({at(w, s)} \cup {at(w, s + Unit)} \cup {at(w + Unit, s)}
                        \cup {at(w + Unit, s + Unit)})
      BY <3>3, FS_AddElement
    <3>5. four = {at(w, s)} \cup {at(w, s + Unit)} \cup {at(w + Unit, s)}
                   \cup {at(w + Unit, s + Unit)}
      OBVIOUS
    <3> HIDE DEF four
    <3>6. QED
      BY <3>4, <3>5
  <2>4. at(w, s) \in four
    OBVIOUS
  <2>5. sides = four
    BY <2>1
  <2> HIDE DEF sides, four
  <2>6. QED
    BY <2>2, <2>3, <2>4, <2>5
<1>6. /\ Min(sides) \in sides /\ Max(sides) \in sides
      /\ \A n \in sides : n \in Int /\ Min(sides) <= n /\ n <= Max(sides)
  <2> HIDE DEF sides
  <2>1. PICK m \in sides : \A n \in sides : m <= n
    BY <1>5, LeastOf
  <2>2. PICK g \in sides : \A n \in sides : n <= g
    BY <1>5, MostOf
  <2>3. QED
    BY <1>5, <2>1, <2>2, LeastIs, MostIs
<1>7. QED
  BY <1>6

\* A segment passes between opposite corners of a cell it touches.
LEMMA CornersOf ==
  ASSUME NEW e \in Edge, NEW c \in Position, Touched(e, c)
  PROVE  LET dx == e.x1 - e.x0
             dy == e.y1 - e.y0
             w == c[2] * Unit
             s == c[1] * Unit
         IN  /\ e.x0 > w \/ e.x1 > w
             /\ e.x0 < w + Unit \/ e.x1 < w + Unit
             /\ e.y0 > s \/ e.y1 > s
             /\ e.y0 < s + Unit \/ e.y1 < s + Unit
             /\ \E x \in {w, w + Unit}, y \in {s, s + Unit} :
                  dx * (y - e.y0) - dy * (x - e.x0) < 0
             /\ \E x \in {w, w + Unit}, y \in {s, s + Unit} :
                  dx * (y - e.y0) - dy * (x - e.x0) > 0
<1> DEFINE w == c[2] * Unit
           s == c[1] * Unit
           at(x, y) == SideOf(e, x, y)
           sides == CornerSides(e, w, s)
<1>1. Unit \in Nat \ {0} /\ w \in Int /\ s \in Int
  BY RasterConstants DEF Position
<1>2. e.x0 \in Int /\ e.x1 \in Int /\ e.y0 \in Int /\ e.y1 \in Int
  BY DEF Edge
<1>3. /\ Max({e.x0, e.x1}) > w /\ Min({e.x0, e.x1}) < w + Unit
      /\ Max({e.y0, e.y1}) > s /\ Min({e.y0, e.y1}) < s + Unit
      /\ Min(sides) < 0 /\ Max(sides) > 0
  BY DEF Touched, CornerSides
<1> HIDE DEF w, s
<1>5. /\ Min(sides) \in sides /\ Max(sides) \in sides
      /\ \A n \in sides : n \in Int /\ Min(sides) <= n /\ n <= Max(sides)
  BY <1>1, SidesOfCell
<1>7. Max({e.x0, e.x1}) \in {e.x0, e.x1} /\ Max({e.y0, e.y1}) \in {e.y0, e.y1}
      /\ Min({e.x0, e.x1}) \in {e.x0, e.x1} /\ Min({e.y0, e.y1}) \in {e.y0, e.y1}
  BY <1>2, MostOfTwo, LeastOfTwo
<1>8. /\ e.x0 > w \/ e.x1 > w
      /\ e.x0 < w + Unit \/ e.x1 < w + Unit
      /\ e.y0 > s \/ e.y1 > s
      /\ e.y0 < s + Unit \/ e.y1 < s + Unit
  <2> HIDE DEF sides
  <2>1. QED
    BY <1>3, <1>7
<1>9. /\ \E x \in {w, w + Unit}, y \in {s, s + Unit} : at(x, y) < 0
      /\ \E x \in {w, w + Unit}, y \in {s, s + Unit} : at(x, y) > 0
  <2>1. sides = {at(x, y) : x \in {w, w + Unit}, y \in {s, s + Unit}}
    BY DEF CornerSides
  <2> HIDE DEF at, sides
  <2>2. QED
    BY <1>3, <1>5, <2>1
<1>10. QED
  BY <1>8, <1>9 DEF w, s, SideOf

\* How far along an axis a segment from x0 to x1 enters the cells from w to w + Unit.
Entry(x0, x1, w) == IF x1 >= x0 THEN w - x0 ELSE x0 - (w + Unit)

\* A segment not beyond a side of a cell leaves it after it has started, and enters it
\* before it ends.
LEMMA EntersCell ==
  ASSUME NEW x0 \in Int, NEW x1 \in Int, NEW w \in Int,
         x0 > w \/ x1 > w, x0 < w + Unit \/ x1 < w + Unit
  PROVE  /\ Entry(x0, x1, w) \in Int /\ AbsOf(x1 - x0) \in Nat
         /\ Entry(x0, x1, w) < AbsOf(x1 - x0) /\ Entry(x0, x1, w) + Unit > 0
<1>1. Unit \in Nat \ {0}
  BY RasterConstants
<1>2. QED
  BY <1>1 DEF Entry, AbsOf

\* A step within the bounds of a column starts or ends in it.
LEMMA StepInColumn ==
  ASSUME NEW n \in Nat \ {0}, NEW x0 \in Int, NEW x1 \in Int, NEW col \in Int, NEW k \in Int,
         2 * AbsOf(x1 - x0) <= n * Unit,
         AbsOf(x1 - x0) * k < n * (Entry(x0, x1, col * Unit) + Unit),
         AbsOf(x1 - x0) * (k + 1) > n * Entry(x0, x1, col * Unit)
  PROVE  \/ col = (x0 * n + (x1 - x0) * k) \div (n * Unit)
         \/ col = (x0 * n + (x1 - x0) * (k + 1)) \div (n * Unit)
<1> DEFINE m == n * Unit
           w == col * Unit
           dx == x1 - x0
           u == x0 * n + dx * k
           v == x0 * n + dx * (k + 1)
<1>1. Unit \in Nat \ {0}
  BY RasterConstants
<1>2. m \in Nat \ {0} /\ dx \in Int /\ w \in Int /\ n * w = m * col /\ m * col \in Int
  BY <1>1
<1>3. dx * (k + 1) = dx * k + dx /\ dx * k \in Int /\ x0 * n \in Int /\ x0 * n = n * x0
  BY <1>2
<1>4. u \in Int /\ v \in Int /\ v - u = dx
  BY <1>3
<1>5. v - u < m /\ u - v < m
  BY <1>2, <1>4 DEF AbsOf
<1>6. CASE dx >= 0
  <2>1. AbsOf(dx) = dx /\ Entry(x0, x1, w) = w - x0
    BY <1>2, <1>6 DEF AbsOf, Entry
  <2>2. dx * k < n * (w - x0 + Unit) /\ dx * (k + 1) > n * (w - x0)
    BY <2>1
  <2>3. n * (w - x0 + Unit) = n * w - n * x0 + m /\ n * (w - x0) = n * w - n * x0 /\ n * w \in Int
    BY <1>1, <1>2
  <2>4. u < m * col + m /\ v > m * col
    <3>1. dx * k < n * w - n * x0 + m /\ dx * k + dx > n * w - n * x0
      BY <1>3, <2>2, <2>3
    <3> HIDE DEF m, w, dx
    <3>2. QED
      BY <1>2, <1>3, <3>1
  <2> HIDE DEF u, v, m
  <2>5. col = u \div m \/ col = v \div m
    BY <1>2, <1>4, <1>5, <2>4, OneOfTwo
  <2>6. QED
    BY <2>5 DEF u, v, m
<1>7. CASE dx < 0
  <2>1. AbsOf(dx) = -dx /\ Entry(x0, x1, w) = x0 - (w + Unit)
    BY <1>2, <1>7 DEF AbsOf, Entry
  <2>2. (-dx) * k < n * (x0 - w) /\ (-dx) * (k + 1) > n * (x0 - w - Unit)
    <3>1. x0 - (w + Unit) + Unit = x0 - w /\ x0 - (w + Unit) = x0 - w - Unit
      BY <1>1, <1>2
    <3>2. QED
      BY <2>1, <3>1
  <2>3. /\ n * (x0 - w) = n * x0 - n * w /\ n * (x0 - w - Unit) = n * x0 - n * w - m
        /\ (-dx) * k = -(dx * k) /\ (-dx) * (k + 1) = -(dx * k + dx) /\ n * w \in Int
    BY <1>1, <1>2, <1>3
  <2>4. u > m * col /\ v < m * col + m
    <3>1. -(dx * k) < n * x0 - n * w /\ -(dx * k + dx) > n * x0 - n * w - m
      BY <2>2, <2>3
    <3> HIDE DEF m, w, dx
    <3>2. QED
      BY <1>2, <1>3, <3>1
  <2> HIDE DEF u, v, m
  <2>5. col = u \div m \/ col = v \div m
    BY <1>2, <1>4, <1>5, <2>4, OneOfTwo
  <2>6. QED
    BY <2>5 DEF u, v, m
<1>8. QED
  BY <1>2, <1>6, <1>7

\* A segment that has corners of a cell on both its sides enters each of the cell's row and
\* column before it leaves the other.
LEMMA EntersBoth ==
  ASSUME NEW x0 \in Int, NEW x1 \in Int, NEW y0 \in Int, NEW y1 \in Int,
         NEW w \in Int, NEW s \in Int, x0 # x1, y0 # y1,
         \E x \in {w, w + Unit}, y \in {s, s + Unit} :
           (x1 - x0) * (y - y0) - (y1 - y0) * (x - x0) < 0,
         \E x \in {w, w + Unit}, y \in {s, s + Unit} :
           (x1 - x0) * (y - y0) - (y1 - y0) * (x - x0) > 0
  PROVE  /\ Entry(x0, x1, w) * AbsOf(y1 - y0) < (Entry(y0, y1, s) + Unit) * AbsOf(x1 - x0)
         /\ Entry(y0, y1, s) * AbsOf(x1 - x0) < (Entry(x0, x1, w) + Unit) * AbsOf(y1 - y0)
<1> DEFINE dx == x1 - x0
           dy == y1 - y0
           P1 == dx * (s - y0)
           P2 == dx * (s + Unit - y0)
           Q1 == dy * (w - x0)
           Q2 == dy * (w + Unit - x0)
<1>1. Unit \in Nat \ {0} /\ dx \in Int \ {0} /\ dy \in Int \ {0}
  <2>1. dx \in Int /\ dy \in Int /\ dx # 0 /\ dy # 0
    OBVIOUS
  <2>2. QED
    BY <2>1, RasterConstants
<1>2. P1 \in Int /\ P2 \in Int /\ Q1 \in Int /\ Q2 \in Int
  BY <1>1
<1>3. /\ P1 - Q1 < 0 \/ P1 - Q2 < 0 \/ P2 - Q1 < 0 \/ P2 - Q2 < 0
      /\ P1 - Q1 > 0 \/ P1 - Q2 > 0 \/ P2 - Q1 > 0 \/ P2 - Q2 > 0
  <2> DEFINE f(x, y) == dx * (y - y0) - dy * (x - x0)
  <2>1. /\ \E x \in {w, w + Unit}, y \in {s, s + Unit} : f(x, y) < 0
        /\ \E x \in {w, w + Unit}, y \in {s, s + Unit} : f(x, y) > 0
    OBVIOUS
  <2>2. /\ f(w, s) = P1 - Q1 /\ f(w, s + Unit) = P2 - Q1
        /\ f(w + Unit, s) = P1 - Q2 /\ f(w + Unit, s + Unit) = P2 - Q2
    <3> HIDE DEF dx, dy
    <3>1. QED
      BY <1>1
  <2> HIDE DEF f, P1, P2, Q1, Q2
  <2>3. QED
    BY <2>1, <2>2
<1>4. ASSUME NEW d \in Int \ {0}, NEW a \in Int
      PROVE  (d > 0 => d * a < d * (a + Unit)) /\ (d < 0 => d * (a + Unit) < d * a)
  <2>1. d * (a + Unit) = d * a + d * Unit /\ d * a \in Int /\ d * Unit \in Int
    BY <1>1
  <2>2. (d > 0 => d * Unit > 0) /\ (d < 0 => d * Unit < 0)
    <3>1. ASSUME d > 0, Unit > 0 PROVE d * Unit > 0
      BY <1>1, <3>1, Z3
    <3>2. ASSUME d < 0, Unit > 0 PROVE d * Unit < 0
      BY <1>1, <3>2, Z3
    <3>3. QED
      BY <1>1, <3>1, <3>2
  <2>3. QED
    BY <2>1, <2>2
<1>5. s - y0 + Unit = s + Unit - y0 /\ w - x0 + Unit = w + Unit - x0
      /\ s - y0 \in Int /\ w - x0 \in Int
  BY <1>1
<1>6. (dx > 0 => P1 < P2) /\ (dx < 0 => P2 < P1) /\ (dy > 0 => Q1 < Q2) /\ (dy < 0 => Q2 < Q1)
  <2>1. (dx > 0 => dx * (s - y0) < dx * (s - y0 + Unit))
        /\ (dx < 0 => dx * (s - y0 + Unit) < dx * (s - y0))
    BY <1>1, <1>4, <1>5
  <2>2. (dy > 0 => dy * (w - x0) < dy * (w - x0 + Unit))
        /\ (dy < 0 => dy * (w - x0 + Unit) < dy * (w - x0))
    BY <1>1, <1>4, <1>5
  <2>3. QED
    BY <1>5, <2>1, <2>2
<1>7. CASE dx > 0 /\ dy > 0
  <2>1. AbsOf(dx) = dx /\ AbsOf(dy) = dy /\ Entry(x0, x1, w) = w - x0 /\ Entry(y0, y1, s) = s - y0
    BY <1>1, <1>7 DEF AbsOf, Entry
  <2>2. /\ (w - x0) * dy = Q1 /\ (s - y0 + Unit) * dx = P2
        /\ (s - y0) * dx = P1 /\ (w - x0 + Unit) * dy = Q2
    BY <1>1, <1>5
  <2>3. Q1 < P2 /\ P1 < Q2
    <3> HIDE DEF P1, P2, Q1, Q2
    <3>1. QED
      BY <1>2, <1>3, <1>6, <1>7
  <2>4. QED
    BY <2>1, <2>2, <2>3
<1>8. CASE dx > 0 /\ dy < 0
  <2>1. /\ AbsOf(dx) = dx /\ AbsOf(dy) = -dy /\ Entry(x0, x1, w) = w - x0
        /\ Entry(y0, y1, s) = y0 - (s + Unit)
    BY <1>1, <1>8 DEF AbsOf, Entry
  <2>2. /\ (w - x0) * (-dy) = -Q1 /\ (y0 - (s + Unit) + Unit) * dx = -P1
        /\ (y0 - (s + Unit)) * dx = -P2 /\ (w - x0 + Unit) * (-dy) = -Q2
    BY <1>1, <1>5
  <2>3. -Q1 < -P1 /\ -P2 < -Q2
    <3> HIDE DEF P1, P2, Q1, Q2
    <3>1. QED
      BY <1>2, <1>3, <1>6, <1>8
  <2>4. QED
    BY <2>1, <2>2, <2>3
<1>9. CASE dx < 0 /\ dy > 0
  <2>1. /\ AbsOf(dx) = -dx /\ AbsOf(dy) = dy /\ Entry(x0, x1, w) = x0 - (w + Unit)
        /\ Entry(y0, y1, s) = s - y0
    BY <1>1, <1>9 DEF AbsOf, Entry
  <2>2. /\ (x0 - (w + Unit)) * dy = -Q2 /\ (s - y0 + Unit) * (-dx) = -P2
        /\ (s - y0) * (-dx) = -P1 /\ (x0 - (w + Unit) + Unit) * dy = -Q1
    BY <1>1, <1>5
  <2>3. -Q2 < -P2 /\ -P1 < -Q1
    <3> HIDE DEF P1, P2, Q1, Q2
    <3>1. QED
      BY <1>2, <1>3, <1>6, <1>9
  <2>4. QED
    BY <2>1, <2>2, <2>3
<1>10. CASE dx < 0 /\ dy < 0
  <2>1. /\ AbsOf(dx) = -dx /\ AbsOf(dy) = -dy /\ Entry(x0, x1, w) = x0 - (w + Unit)
        /\ Entry(y0, y1, s) = y0 - (s + Unit)
    BY <1>1, <1>10 DEF AbsOf, Entry
  <2>2. /\ (x0 - (w + Unit)) * (-dy) = Q2 /\ (y0 - (s + Unit) + Unit) * (-dx) = P1
        /\ (y0 - (s + Unit)) * (-dx) = P2 /\ (x0 - (w + Unit) + Unit) * (-dy) = Q1
    BY <1>1, <1>5
  <2>3. Q2 < P1 /\ P2 < Q1
    <3> HIDE DEF P1, P2, Q1, Q2
    <3>1. QED
      BY <1>2, <1>3, <1>6, <1>10
  <2>4. QED
    BY <2>1, <2>2, <2>3
<1>11. QED
  BY <1>1, <1>7, <1>8, <1>9, <1>10

\* Whatever cell an edge passes through is a sample of it or an elbow between two.
LEMMA TouchedIsMarked ==
  ASSUME NEW e \in Edge, NEW c \in Position, Touched(e, c)
  PROVE  c \in Elbows(e) \/ \E k \in 0..StepsOf(e) : c = SampleCell(e, k)
<1> DEFINE n == StepsOf(e)
           w == c[2] * Unit
           s == c[1] * Unit
           D == AbsOf(e.x1 - e.x0)
           E == AbsOf(e.y1 - e.y0)
           A == Entry(e.x0, e.x1, w)
           B == Entry(e.y0, e.y1, s)
           row(k) == (e.y0 * n + (e.y1 - e.y0) * k) \div (n * Unit)
           col(k) == (e.x0 * n + (e.x1 - e.x0) * k) \div (n * Unit)
<1>1. Unit \in Nat \ {0} /\ c[1] \in Int /\ c[2] \in Int /\ w \in Int /\ s \in Int
      /\ c = <<c[1], c[2]>>
  BY RasterConstants DEF Position
<1>2. e.x0 \in Int /\ e.x1 \in Int /\ e.y0 \in Int /\ e.y1 \in Int
  BY DEF Edge
<1>3. n \in Nat \ {0} /\ 2 * D <= n * Unit /\ 2 * E <= n * Unit
  BY StepsAreShort
<1>4. /\ e.x0 > w \/ e.x1 > w
      /\ e.x0 < w + Unit \/ e.x1 < w + Unit
      /\ e.y0 > s \/ e.y1 > s
      /\ e.y0 < s + Unit \/ e.y1 < s + Unit
      /\ \E x \in {w, w + Unit}, y \in {s, s + Unit} :
           (e.x1 - e.x0) * (y - e.y0) - (e.y1 - e.y0) * (x - e.x0) < 0
      /\ \E x \in {w, w + Unit}, y \in {s, s + Unit} :
           (e.x1 - e.x0) * (y - e.y0) - (e.y1 - e.y0) * (x - e.x0) > 0
  BY CornersOf, Zenon
<1>5. A \in Int /\ D \in Nat /\ A < D /\ A + Unit > 0 /\ B \in Int /\ E \in Nat /\ B < E
      /\ B + Unit > 0
  <2> HIDE DEF w, s
  <2>1. QED
    BY <1>1, <1>2, <1>4, EntersCell
<1>6. D > 0 /\ E > 0 => A * E < (B + Unit) * D /\ B * D < (A + Unit) * E
  <2> SUFFICES ASSUME D > 0, E > 0 PROVE A * E < (B + Unit) * D /\ B * D < (A + Unit) * E
    OBVIOUS
  <2>1. e.x0 # e.x1 /\ e.y0 # e.y1
    BY <1>2 DEF AbsOf
  <2> HIDE DEF w, s
  <2>2. QED
    BY <1>1, <1>2, <1>4, <2>1, EntersBoth
<1>7. PICK k : BothWithin(n, D, E, A, A + Unit, B, B + Unit, k)
  <2>1. A < A + Unit /\ B < B + Unit /\ A + Unit \in Int /\ B + Unit \in Int
    BY <1>1, <1>5
  <2> HIDE DEF n, D, E, A, B
  <2>2. QED
    BY <1>3, <1>5, <1>6, <2>1, StepWithin
<1>8. k \in 0..n - 1 /\ k \in Int
  BY <1>3, <1>7 DEF BothWithin
<1>9. c[2] = col(k) \/ c[2] = col(k + 1)
  <2>1. D * k < n * (A + Unit) /\ D * (k + 1) > n * A
    BY <1>7 DEF BothWithin
  <2> HIDE DEF n
  <2>2. QED
    BY <1>1, <1>2, <1>3, <1>8, <2>1, StepInColumn
<1>10. c[1] = row(k) \/ c[1] = row(k + 1)
  <2>1. E * k < n * (B + Unit) /\ E * (k + 1) > n * B
    BY <1>7 DEF BothWithin
  <2> HIDE DEF n
  <2>2. QED
    BY <1>1, <1>2, <1>3, <1>8, <2>1, StepInColumn
<1>11. SampleCell(e, k) = <<row(k), col(k)>> /\ SampleCell(e, k + 1) = <<row(k + 1), col(k + 1)>>
  BY DEF SampleCell
<1> HIDE DEF row, col, n, w, s, D, E, A, B
<1>12. <<row(k + 1), col(k)>> \in Elbows(e) /\ <<row(k), col(k + 1)>> \in Elbows(e)
  <2>1. k \in 0..StepsOf(e) - 1
    BY <1>8 DEF n
  <2>2. {<<row(k + 1), col(k)>>, <<row(k), col(k + 1)>>} \subseteq Elbows(e)
    BY <1>11, <2>1 DEF Elbows
  <2>3. QED
    BY <2>2
<1>13. k \in 0..StepsOf(e) /\ k + 1 \in 0..StepsOf(e)
  BY <1>3, <1>8 DEF n
<1>14. QED
  BY <1>1, <1>9, <1>10, <1>11, <1>12, <1>13

-----------------------------------------------------------------------------
(***************************************************************************)
(* The crossings of a row, and what is inside of a polygon.                *)
(***************************************************************************)
\* A quotient rounded up is at most n when the quotient is.
LEMMA CeilAtMost ==
  ASSUME NEW a \in Int, NEW b \in Nat \ {0}, NEW n \in Int
  PROVE  CeilDiv(a, b) <= n <=> a <= b * n
<1> DEFINE q == CeilDiv(a, b)
<1>1. q \in Int /\ a <= b * q /\ b * q < a + b
  BY CeilIs
<1> HIDE DEF q
<1>2. b * n \in Int /\ b * q \in Int /\ b * (n + 1) = b * n + b /\ n + 1 \in Int
  BY <1>1
<1>3. q <= n => b * q <= b * n
  BY <1>1, ProductLess
<1>4. b * q < b * (n + 1) => q < n + 1
  BY <1>1, <1>2, ProductLess
<1>5. QED
  BY <1>1, <1>2, <1>3, <1>4 DEF q

\* The centre of a cell is inside of it.
LEMMA CentreIs ==
  ASSUME NEW i \in Int
  PROVE  /\ Centre(i) \in Int /\ 2 * Centre(i) = 2 * (i * Unit) + Unit
         /\ i * Unit \in Int /\ i * Unit < Centre(i) /\ Centre(i) < i * Unit + Unit
<1>1. Unit \in Nat \ {0} /\ Unit % 2 = 0
  BY RasterConstants
<1>2. Unit \div 2 \in Int /\ 2 * (Unit \div 2) = Unit
  BY <1>1
<1>3. i * Unit \in Int
  BY <1>1
<1>4. QED
  BY <1>1, <1>2, <1>3 DEF Centre

\* Twice the area between a centre and an edge, by which all crossings are told.
AreaTo(e, x, y) == (e.x0 - x) * (e.y1 - y) - (e.x1 - x) * (e.y0 - y)

\* The ray to the north crosses the edge, and the half line to the west crosses it.
North(e, c) == Above(e, Centre(c[2]), Centre(c[1]))
West(e, c) == CrossedAt(e, c[1]) /\ ColumnAt(e, c[1]) <= c[2]
Passes(a, b, x) == (a <= x /\ x < b) \/ (b <= x /\ x < a)

\* To pass a value is to lie on both its sides.
LEMMA PassesBetween ==
  ASSUME NEW a \in Int, NEW b \in Int, NEW x \in Int
  PROVE  Passes(a, b, x) <=> Min({a, b}) <= x /\ x < Max({a, b})
BY LeastOfTwo, MostOfTwo DEF Passes

\* A ray to the north is crossed where the centre lies to the proper side of the edge.
LEMMA NorthIs ==
  ASSUME NEW e \in Edge, NEW c \in Position
  PROVE  LET x == Centre(c[2])
             y == Centre(c[1])
         IN  North(e, c) <=> /\ Passes(e.x0, e.x1, x)
                             /\ IF e.x1 > e.x0 THEN AreaTo(e, x, y) < 0 ELSE AreaTo(e, x, y) > 0
<1> DEFINE x == Centre(c[2])
           y == Centre(c[1])
<1>1. x \in Int /\ y \in Int
  BY CentreIs DEF Position
<1>2. e.x0 \in Int /\ e.x1 \in Int /\ e.y0 \in Int /\ e.y1 \in Int
  BY DEF Edge
<1> HIDE DEF x, y
<1>3. SideOf(e, x, y) = AreaTo(e, x, y) /\ AreaTo(e, x, y) \in Int
  <2>1. PICK x0 \in Int, y0 \in Int, x1 \in Int, y1 \in Int :
          x0 = e.x0 /\ y0 = e.y0 /\ x1 = e.x1 /\ y1 = e.y1
    BY <1>2
  <2>2. (x1 - x0) * (y - y0) - (y1 - y0) * (x - x0) = (x0 - x) * (y1 - y) - (x1 - x) * (y0 - y)
    BY <1>1
  <2>3. (x0 - x) * (y1 - y) - (x1 - x) * (y0 - y) \in Int
    BY <1>1
  <2>4. QED
    BY <2>1, <2>2, <2>3 DEF SideOf, AreaTo
<1>4. Passes(e.x0, e.x1, x) <=> Min({e.x0, e.x1}) <= x /\ x < Max({e.x0, e.x1})
  BY <1>1, <1>2, PassesBetween
<1>5. 1 * AreaTo(e, x, y) = AreaTo(e, x, y) /\ (-1) * AreaTo(e, x, y) = -AreaTo(e, x, y)
  BY <1>3
<1>6. Above(e, x, y) <=> /\ Passes(e.x0, e.x1, x)
                         /\ IF e.x1 > e.x0 THEN AreaTo(e, x, y) < 0 ELSE AreaTo(e, x, y) > 0
  <2>1. Above(e, x, y) <=> /\ Passes(e.x0, e.x1, x)
                           /\ (IF e.x1 > e.x0 THEN 1 ELSE -1) * AreaTo(e, x, y) < 0
    BY <1>3, <1>4 DEF Above
  <2>2. CASE e.x1 > e.x0
    BY <1>3, <1>5, <2>1, <2>2
  <2>3. CASE ~(e.x1 > e.x0)
    BY <1>3, <1>5, <2>1, <2>3
  <2>4. QED
    BY <2>2, <2>3
<1>7. QED
  BY <1>6 DEF North, x, y

\* The columns of _fill_interior are crossings of the half line to the west.
LEMMA WestIs ==
  ASSUME NEW e \in Edge, NEW c \in Position
  PROVE  LET x == Centre(c[2])
             y == Centre(c[1])
         IN  West(e, c) <=> /\ Passes(e.y0, e.y1, y)
                            /\ IF e.y1 > e.y0 THEN AreaTo(e, x, y) <= 0 ELSE AreaTo(e, x, y) >= 0
<1> DEFINE x == Centre(c[2])
           y == Centre(c[1])
           dx == e.x1 - e.x0
           dy == e.y1 - e.y0
           A == AbsOf(dy)
           g == IF dy < 0 THEN -1 ELSE 1
           at == e.x0 * A + g * dx * (y - e.y0)
<1>1. x \in Int /\ y \in Int /\ c[1] \in Int /\ c[2] \in Int
  BY CentreIs DEF Position
<1>2. e.x0 \in Int /\ e.x1 \in Int /\ e.y0 \in Int /\ e.y1 \in Int
  BY DEF Edge
<1>3. Unit \in Nat \ {0} /\ 2 * x = 2 * (c[2] * Unit) + Unit
  BY <1>1, CentreIs, RasterConstants
<1>4. Passes(e.y0, e.y1, y) <=> Min({e.y0, e.y1}) <= y /\ y < Max({e.y0, e.y1})
  <2> HIDE DEF y
  <2>1. QED
    BY <1>1, <1>2, PassesBetween
<1>5. Passes(e.y0, e.y1, y) => e.y0 # e.y1
  <2> HIDE DEF y
  <2>1. QED
    BY <1>1, <1>2 DEF Passes
<1>6. CrossedAt(e, c[1]) <=> Passes(e.y0, e.y1, y)
  BY <1>4, <1>5 DEF CrossedAt
<1>7. ColumnAt(e, c[1]) = CeilDiv(2 * at - Unit * A, 2 * Unit * A)
  BY DEF ColumnAt
<1>8. ASSUME e.y0 # e.y1
      PROVE  ColumnAt(e, c[1]) <= c[2] <=>
               IF e.y1 > e.y0 THEN AreaTo(e, x, y) <= 0 ELSE AreaTo(e, x, y) >= 0
  <2> HIDE DEF x, y
  <2>1. A \in Nat \ {0} /\ dx \in Int /\ dy \in Int /\ at \in Int
    <3>1. dx \in Int /\ dy \in Int /\ dy # 0
      BY <1>2, <1>8
    <3>2. A \in Nat \ {0}
      BY <3>1 DEF AbsOf
    <3>3. QED
      BY <1>1, <1>2, <3>1, <3>2
  <2>2. ColumnAt(e, c[1]) <= c[2] <=> at <= A * x
    <3> HIDE DEF A, at, dx, dy, g
    <3>1. 2 * Unit * A \in Nat \ {0} /\ Unit * A \in Int
      <4>1. 2 * Unit \in Nat \ {0}
        BY <1>3
      <4> DEFINE two == 2 * Unit
      <4>2. two \in Nat \ {0}
        BY <4>1
      <4> HIDE DEF two
      <4>3. two * A \in Nat \ {0}
        <5>1. two > 0 /\ A > 0
          BY <2>1, <4>2
        <5>2. two * A > 0
          BY <2>1, <4>2, <5>1, Z3
        <5>3. QED
          BY <2>1, <4>2, <5>2
      <4>4. QED
        BY <1>3, <2>1, <4>3 DEF two
    <3>2. ColumnAt(e, c[1]) <= c[2] <=> 2 * at - Unit * A <= 2 * Unit * A * c[2]
      <4>1. 2 * at - Unit * A \in Int
        BY <2>1, <3>1
      <4>2. QED
        BY <1>1, <1>7, <3>1, <4>1, CeilAtMost
    <3>3. 2 * Unit * A * c[2] = A * (2 * (c[2] * Unit)) /\ Unit * A = A * Unit
      BY <1>1, <1>3, <2>1
    <3>4. A * (2 * (c[2] * Unit) + Unit) = A * (2 * (c[2] * Unit)) + A * Unit
          /\ A * (2 * (c[2] * Unit)) \in Int /\ A * Unit \in Int
      BY <1>1, <1>3, <2>1
    <3>5. A * (2 * x) = 2 * (A * x) /\ A * x \in Int
      BY <1>1, <2>1
    <3>6. A * (2 * x) = A * (2 * (c[2] * Unit) + Unit)
      BY <1>3
    <3>7. QED
      BY <2>1, <3>2, <3>3, <3>4, <3>5, <3>6
  <2>3. CASE e.y1 > e.y0
    <3>1. A = dy /\ g = 1
      BY <1>2, <2>3 DEF AbsOf
    <3>2. at - A * x = AreaTo(e, x, y) /\ AreaTo(e, x, y) \in Int
      BY <1>1, <1>2, <3>1 DEF AreaTo
    <3>3. A * x \in Int
      BY <1>1, <2>1
    <3> HIDE DEF at, A
    <3>4. QED
      BY <2>1, <2>2, <2>3, <3>2, <3>3
  <2>4. CASE e.y1 < e.y0
    <3>1. A = -dy /\ g = -1
      BY <1>2, <2>4 DEF AbsOf
    <3>2. at - A * x = -AreaTo(e, x, y) /\ AreaTo(e, x, y) \in Int
      <4>1. PICK x0 \in Int, y0 \in Int, x1 \in Int, y1 \in Int :
              x0 = e.x0 /\ y0 = e.y0 /\ x1 = e.x1 /\ y1 = e.y1
        BY <1>2
      <4> DEFINE area == (x0 - x) * (y1 - y) - (x1 - x) * (y0 - y)
                 start == x0 * (y0 - y1) + (-1) * (x1 - x0) * (y - y0)
                 reach == (y0 - y1) * x
      <4>2. start - reach = -area
        BY <1>1
      <4>3. A = y0 - y1 /\ at = start
        BY <3>1, <4>1
      <4>4. area \in Int
        BY <1>1
      <4>5. AreaTo(e, x, y) = area
        BY <4>1 DEF AreaTo
      <4> HIDE DEF at, A
      <4>6. A * x = reach
        BY <4>3
      <4> HIDE DEF area, start, reach
      <4>7. at - A * x = -area
        BY <4>2, <4>3, <4>6
      <4>8. QED
        BY <4>4, <4>5, <4>7
    <3>3. A * x \in Int
      BY <1>1, <2>1
    <3>4. ~(e.y1 > e.y0)
      BY <1>2, <2>4
    <3> HIDE DEF at, A
    <3>5. QED
      BY <2>1, <2>2, <3>2, <3>3, <3>4
  <2>5. QED
    BY <1>2, <1>8, <2>3, <2>4
<1>9. QED
  BY <1>5, <1>6, <1>8 DEF West

\* An edge that rises through the centre of a cell has a corner of it on either side.
LEMMA ThroughCentre ==
  ASSUME NEW e \in Edge, NEW c \in Position,
         Passes(e.x0, e.x1, Centre(c[2])), Passes(e.y0, e.y1, Centre(c[1])),
         (e.x1 > e.x0) <=> (e.y1 > e.y0),
         AreaTo(e, Centre(c[2]), Centre(c[1])) = 0
  PROVE  Touched(e, c)
<1> DEFINE w == c[2] * Unit
           s == c[1] * Unit
           x == Centre(c[2])
           y == Centre(c[1])
           h == x - w
           t == (e.x1 - e.x0) + (e.y1 - e.y0)
           sides == CornerSides(e, w, s)
<1>1. /\ x \in Int /\ w \in Int /\ w < x /\ x < w + Unit /\ 2 * x = 2 * w + Unit
      /\ y \in Int /\ s \in Int /\ s < y /\ y < s + Unit /\ 2 * y = 2 * s + Unit
  BY CentreIs DEF Position
<1>2. Unit \in Nat \ {0} /\ e.x0 \in Int /\ e.x1 \in Int /\ e.y0 \in Int /\ e.y1 \in Int
  BY RasterConstants DEF Edge
<1> HIDE DEF w, s, x, y
<1>3. h \in Nat \ {0} /\ w = x - h /\ w + Unit = x + h /\ s = y - h /\ s + Unit = y + h
  BY <1>1, <1>2
<1>4. t \in Int /\ t # 0
  BY <1>1, <1>2 DEF Passes, x, y
<1>5. SideOf(e, w, s + Unit) = h * t /\ SideOf(e, w + Unit, s) = -(h * t) /\ h * t \in Int
  <2>1. PICK x0 \in Int, y0 \in Int, x1 \in Int, y1 \in Int :
          x0 = e.x0 /\ y0 = e.y0 /\ x1 = e.x1 /\ y1 = e.y1
    BY <1>2
  <2>2. (x1 - x0) * (y - y0) - (y1 - y0) * (x - x0) = 0
    <3>1. (x1 - x0) * (y - y0) - (y1 - y0) * (x - x0) = (x0 - x) * (y1 - y) - (x1 - x) * (y0 - y)
      BY <1>1
    <3>2. AreaTo(e, x, y) = 0
      BY DEF x, y
    <3>3. QED
      BY <2>1, <3>1, <3>2 DEF AreaTo
  <2> DEFINE dx == x1 - x0
             dy == y1 - y0
             a == dx * (y - y0)
             b == dy * (x - x0)
  <2>3. /\ dx * ((y + h) - y0) = a + h * dx /\ dx * (y - h - y0) = a - h * dx
        /\ dy * ((x + h) - x0) = b + h * dy /\ dy * (x - h - x0) = b - h * dy
        /\ a \in Int /\ b \in Int /\ h * dx \in Int /\ h * dy \in Int
           /\ h * (dx + dy) = h * dx + h * dy
    BY <1>1, <1>3
  <2>4. t = dx + dy /\ a - b = 0
    BY <2>1, <2>2
  <2>5. /\ SideOf(e, x - h, y + h) = dx * ((y + h) - y0) - dy * (x - h - x0)
        /\ SideOf(e, x + h, y - h) = dx * (y - h - y0) - dy * ((x + h) - x0)
    <3>1. ASSUME NEW m, NEW n
          PROVE  SideOf(e, m, n) = dx * (n - y0) - dy * (m - x0)
      BY <2>1, Zenon DEF SideOf
    <3> HIDE DEF dx, dy, h
    <3>2. QED
      BY <3>1
  <2> HIDE DEF dx, dy, h, t
  <2> HIDE DEF a, b
  <2>6. a = b
    BY <2>3, <2>4
  <2>7. SideOf(e, x - h, y + h) = h * t /\ SideOf(e, x + h, y - h) = -(h * t) /\ h * t \in Int
    BY <2>3, <2>4, <2>5, <2>6
  <2>8. QED
    BY <1>3, <2>7
<1>6. h * t > 0 \/ h * t < 0
  <2>1. ASSUME t > 0 PROVE h * t > 0
    BY <1>3, <1>4, <2>1, Z3
  <2>2. ASSUME t < 0 PROVE h * t < 0
    BY <1>3, <1>4, <2>2, Z3
  <2>3. QED
    BY <1>4, <2>1, <2>2
<1>7. SideOf(e, w, s + Unit) \in sides /\ SideOf(e, w + Unit, s) \in sides
  BY DEF CornerSides
<1>8. \A n \in sides : n \in Int /\ Min(sides) <= n /\ n <= Max(sides) /\ Min(sides) \in Int
      /\ Max(sides) \in Int
  BY <1>1, SidesOfCell
<1>9. Min(sides) < 0 /\ Max(sides) > 0
  <2> HIDE DEF sides, h, t
  <2>1. \A n \in {h * t, -(h * t)} : n \in Int /\ Min(sides) <= n /\ n <= Max(sides)
    BY <1>5, <1>7, <1>8
  <2>2. Min(sides) \in Int /\ Max(sides) \in Int
    BY <1>7, <1>8
  <2>3. QED
    BY <1>5, <1>6, <2>1, <2>2
<1>10. /\ Max({e.x0, e.x1}) > w /\ Min({e.x0, e.x1}) < w + Unit
       /\ Max({e.y0, e.y1}) > s /\ Min({e.y0, e.y1}) < s + Unit
  <2>1. /\ Min({e.x0, e.x1}) <= x /\ x < Max({e.x0, e.x1})
        /\ Min({e.y0, e.y1}) <= y /\ y < Max({e.y0, e.y1})
    BY <1>1, <1>2, PassesBetween DEF x, y
  <2>2. /\ Min({e.x0, e.x1}) \in {e.x0, e.x1} /\ Max({e.x0, e.x1}) \in {e.x0, e.x1}
        /\ Min({e.y0, e.y1}) \in {e.y0, e.y1} /\ Max({e.y0, e.y1}) \in {e.y0, e.y1}
    BY <1>2, LeastOfTwo, MostOfTwo
  <2>3. QED
    BY <1>1, <1>2, <2>1, <2>2
<1>11. QED
  BY <1>9, <1>10 DEF Touched, CornerSides, w, s

\* The sign of a product.
LEMMA SignOfProduct ==
  ASSUME NEW a \in Int, NEW b \in Int
  PROVE  /\ a * b \in Int
         /\ a > 0 /\ b > 0 => a * b > 0
         /\ a <= 0 /\ b > 0 => a * b <= 0
         /\ a > 0 /\ b <= 0 => a * b <= 0
         /\ a <= 0 /\ b <= 0 => a * b >= 0
<1>1. ASSUME a > 0, b > 0 PROVE a * b > 0
  BY <1>1, Z3
<1>2. ASSUME a <= 0, b > 0 PROVE a * b <= 0
  BY <1>2, Z3
<1>3. ASSUME a > 0, b <= 0 PROVE a * b <= 0
  BY <1>3, Z3
<1>4. ASSUME a <= 0, b <= 0 PROVE a * b >= 0
  BY <1>4, Z3
<1>5. QED
  BY <1>1, <1>2, <1>3, <1>4

\* West of a point or level with it, and north of it.
NorthWest(x0, y0, x, y) == x0 <= x /\ y0 > y

\* An edge that does not touch a cell crosses one of the two rays from its centre, to the
\* north and to the west, when one of its ends alone is between them.
LEMMA CrossesOne ==
  ASSUME NEW e \in Edge, NEW c \in Position, ~Touched(e, c)
  PROVE  LET x == Centre(c[2])
             y == Centre(c[1])
         IN  (North(e, c) <=> West(e, c))
               <=> (NorthWest(e.x0, e.y0, x, y) <=> NorthWest(e.x1, e.y1, x, y))
<1> DEFINE x == Centre(c[2])
           y == Centre(c[1])
           P == (e.x0 - x) * (e.y1 - y)
           Q == (e.x1 - x) * (e.y0 - y)
<1>1. x \in Int /\ y \in Int
  BY CentreIs DEF Position
<1>2. e.x0 \in Int /\ e.x1 \in Int /\ e.y0 \in Int /\ e.y1 \in Int
  BY DEF Edge
<1>3. /\ North(e, c) <=> /\ Passes(e.x0, e.x1, x)
                         /\ IF e.x1 > e.x0 THEN AreaTo(e, x, y) < 0 ELSE AreaTo(e, x, y) > 0
      /\ West(e, c) <=> /\ Passes(e.y0, e.y1, y)
                        /\ IF e.y1 > e.y0 THEN AreaTo(e, x, y) <= 0 ELSE AreaTo(e, x, y) >= 0
      /\ ~(/\ Passes(e.x0, e.x1, x) /\ Passes(e.y0, e.y1, y)
           /\ (e.x1 > e.x0) <=> (e.y1 > e.y0)
           /\ AreaTo(e, x, y) = 0)
  BY NorthIs, WestIs, ThroughCentre, Zenon
<1>4. AreaTo(e, x, y) = P - Q
  BY DEF AreaTo
<1> HIDE DEF x, y
<1>5. /\ P \in Int /\ Q \in Int
      /\ e.x0 > x /\ e.y1 > y => P > 0
      /\ e.x0 <= x /\ e.y1 > y => P <= 0
      /\ e.x0 > x /\ e.y1 <= y => P <= 0
      /\ e.x0 <= x /\ e.y1 <= y => P >= 0
      /\ e.x1 > x /\ e.y0 > y => Q > 0
      /\ e.x1 <= x /\ e.y0 > y => Q <= 0
      /\ e.x1 > x /\ e.y0 <= y => Q <= 0
      /\ e.x1 <= x /\ e.y0 <= y => Q >= 0
  <2> DEFINE a == e.x0 - x
             b == e.y1 - y
             d == e.x1 - x
             f == e.y0 - y
  <2>1. /\ a \in Int /\ b \in Int /\ d \in Int /\ f \in Int
        /\ (e.x0 > x <=> a > 0) /\ (e.x0 <= x <=> a <= 0)
        /\ (e.y1 > y <=> b > 0) /\ (e.y1 <= y <=> b <= 0)
        /\ (e.x1 > x <=> d > 0) /\ (e.x1 <= x <=> d <= 0)
        /\ (e.y0 > y <=> f > 0) /\ (e.y0 <= y <=> f <= 0)
    BY <1>1, <1>2
  <2> HIDE DEF a, b, d, f
  <2>2. /\ a * b \in Int
        /\ a > 0 /\ b > 0 => a * b > 0
        /\ a <= 0 /\ b > 0 => a * b <= 0
        /\ a > 0 /\ b <= 0 => a * b <= 0
        /\ a <= 0 /\ b <= 0 => a * b >= 0
        /\ d * f \in Int
        /\ d > 0 /\ f > 0 => d * f > 0
        /\ d <= 0 /\ f > 0 => d * f <= 0
        /\ d > 0 /\ f <= 0 => d * f <= 0
        /\ d <= 0 /\ f <= 0 => d * f >= 0
    BY <2>1, SignOfProduct
  <2>3. P = a * b /\ Q = d * f
    BY DEF a, b, d, f
  <2> HIDE DEF P, Q
  <2>4. QED
    BY <2>1, <2>2, <2>3
<1> HIDE DEF P, Q
<1>6. (North(e, c) <=> West(e, c))
        <=> (NorthWest(e.x0, e.y0, x, y) <=> NorthWest(e.x1, e.y1, x, y))
  <2>1. CASE Passes(e.x0, e.x1, x) /\ Passes(e.y0, e.y1, y)
    BY <1>1, <1>2, <1>3, <1>4, <1>5, <2>1 DEF Passes, NorthWest
  <2>2. CASE Passes(e.x0, e.x1, x) /\ ~Passes(e.y0, e.y1, y)
    BY <1>1, <1>2, <1>3, <1>4, <1>5, <2>2 DEF Passes, NorthWest
  <2>3. CASE ~Passes(e.x0, e.x1, x) /\ Passes(e.y0, e.y1, y)
    BY <1>1, <1>2, <1>3, <1>4, <1>5, <2>3 DEF Passes, NorthWest
  <2>4. CASE ~Passes(e.x0, e.x1, x) /\ ~Passes(e.y0, e.y1, y)
    BY <1>1, <1>2, <1>3, <2>4 DEF Passes, NorthWest
  <2>5. QED
    BY <2>1, <2>2, <2>3, <2>4
<1>7. QED
  BY <1>6 DEF x, y

\* Counting up to j + 1.
LEMMA OneMoreCounted ==
  ASSUME NEW A, NEW j \in Nat
  PROVE  /\ Cardinality(A \cap 1..j) \in Nat
         /\ Cardinality(A \cap 1..j + 1) =
              IF j + 1 \in A THEN Cardinality(A \cap 1..j) + 1 ELSE Cardinality(A \cap 1..j)
<1> DEFINE a == A \cap 1..j
<1>1. IsFiniteSet(a) /\ Cardinality(a) \in Nat
  <2>1. IsFiniteSet(1..j)
    BY FS_Interval
  <2>2. IsFiniteSet(a)
    BY <2>1, FS_Intersection
  <2>3. QED
    BY <2>2, FS_CardinalityType
<1>2. CASE j + 1 \in A
  <2>1. A \cap 1..j + 1 = a \cup {j + 1} /\ j + 1 \notin a
    BY <1>2
  <2> HIDE DEF a
  <2>2. Cardinality(a \cup {j + 1}) = Cardinality(a) + 1
    BY <1>1, <2>1, FS_AddElement
  <2>3. QED
    BY <1>1, <1>2, <2>1, <2>2 DEF a
<1>3. CASE j + 1 \notin A
  <2>1. A \cap 1..j + 1 = a
    BY <1>3
  <2>2. QED
    BY <1>1, <1>3, <2>1
<1>4. QED
  BY <1>2, <1>3

\* Along a closed line that changes sides just where it is counted in one of A and B, A and
\* B count an odd number both or neither.
LEMMA SameParity ==
  ASSUME NEW n \in Nat, NEW A \in SUBSET (1..n), NEW B \in SUBSET (1..n), NEW R,
         1 \in R <=> n + 1 \in R,
         \A i \in 1..n : (i \in A <=> i \in B) <=> (i \in R <=> i + 1 \in R)
  PROVE  Cardinality(A) % 2 = Cardinality(B) % 2
<1> DEFINE cA(j) == Cardinality(A \cap 1..j)
           cB(j) == Cardinality(B \cap 1..j)
           Good == {j \in Nat : j <= n => (cA(j) % 2 = cB(j) % 2 <=> (1 \in R <=> j + 1 \in R))}
<1>1. 0 \in Good
  <2>1. A \cap 1..0 = {} /\ B \cap 1..0 = {}
    OBVIOUS
  <2>2. cA(0) = cB(0)
    BY <2>1
  <2>3. QED
    BY <2>2
<1>2. ASSUME NEW j \in Nat, j \in Good PROVE j + 1 \in Good
  <2> SUFFICES ASSUME j + 1 <= n
               PROVE  cA(j + 1) % 2 = cB(j + 1) % 2 <=> (1 \in R <=> j + 2 \in R)
    OBVIOUS
  <2>1. cA(j) % 2 = cB(j) % 2 <=> (1 \in R <=> j + 1 \in R)
    BY <1>2
  <2>2. (j + 1 \in A <=> j + 1 \in B) <=> (j + 1 \in R <=> j + 2 \in R)
    <3>1. j + 1 \in 1..n /\ (j + 1) + 1 = j + 2
      OBVIOUS
    <3>2. QED
      BY <3>1
  <2>3. /\ cA(j) \in Nat /\ cA(j + 1) = IF j + 1 \in A THEN cA(j) + 1 ELSE cA(j)
        /\ cB(j) \in Nat /\ cB(j + 1) = IF j + 1 \in B THEN cB(j) + 1 ELSE cB(j)
    BY OneMoreCounted
  <2> HIDE DEF cA, cB
  <2>4. ASSUME NEW a \in Nat PROVE a % 2 \in {0, 1} /\ (a + 1) % 2 = 1 - (a % 2)
    OBVIOUS
  <2>5. /\ cA(j) % 2 \in {0, 1} /\ (cA(j) + 1) % 2 = 1 - (cA(j) % 2)
        /\ cB(j) % 2 \in {0, 1} /\ (cB(j) + 1) % 2 = 1 - (cB(j) % 2)
    BY <2>3, <2>4
  <2> DEFINE x == cA(j) % 2
             y == cB(j) % 2
             x2 == cA(j + 1) % 2
             y2 == cB(j + 1) % 2
  <2>6. x \in {0, 1} /\ x2 = IF j + 1 \in A THEN 1 - x ELSE x
    BY <2>3, <2>5
  <2>7. y \in {0, 1} /\ y2 = IF j + 1 \in B THEN 1 - y ELSE y
    BY <2>3, <2>5
  <2>8. x = y <=> (1 \in R <=> j + 1 \in R)
    BY <2>1
  <2> HIDE DEF x, y, x2, y2
  <2>9. x2 = y2 <=> (x = y <=> (j + 1 \in A <=> j + 1 \in B))
    BY <2>6, <2>7
  <2>10. x2 = y2 <=> (1 \in R <=> j + 2 \in R)
    BY <2>2, <2>8, <2>9
  <2>11. QED
    BY <2>10 DEF x2, y2
<1>3. n \in Good
  <2> HIDE DEF Good
  <2>1. QED
    BY <1>1, <1>2, NumberInduction
<1>4. A \cap 1..n = A /\ B \cap 1..n = B
  OBVIOUS
<1>5. cA(n) % 2 = cB(n) % 2
  BY <1>3
<1>6. QED
  BY <1>4, <1>5

\* The positions of a closed polygon in order, back to the first.
PointOf(p, i) == p[((i - 1) % Len(p)) + 1]

\* The edges of a polygon join its positions and close it.
LEMMA EdgesJoin ==
  ASSUME NEW p \in Seq(Position) \ {<<>>}
  PROVE  /\ LastPoint(p) \in Nat
         /\ PointOf(p, LastPoint(p) + 1) = PointOf(p, 1)
         /\ \A i \in 1..LastPoint(p) :
              /\ EdgeFrom(p, i) \in Edge /\ EdgeFrom(p, i).nr = i
              /\ EdgeFrom(p, i).x0 = PointOf(p, i)[1] /\ EdgeFrom(p, i).y0 = PointOf(p, i)[2]
              /\ EdgeFrom(p, i).x1 = PointOf(p, i + 1)[1]
              /\ EdgeFrom(p, i).y1 = PointOf(p, i + 1)[2]
<1>1. Len(p) \in Nat \ {0} /\ p \in [1..Len(p) -> Position]
  OBVIOUS
<1>2. LastPoint(p) \in Nat /\ LastPoint(p) <= Len(p) /\ LastPoint(p) >= Len(p) - 1
  BY <1>1 DEF LastPoint
<1>3. \A i \in 1..Len(p) : (i - 1) % Len(p) = i - 1 /\ PointOf(p, i) = p[i]
  <2>1. ASSUME NEW i \in 1..Len(p) PROVE (i - 1) % Len(p) = i - 1
    BY <1>1
  <2>2. QED
    BY <2>1 DEF PointOf
<1>4. PointOf(p, LastPoint(p) + 1) = PointOf(p, 1)
  <2>1. PointOf(p, 1) = p[1]
    BY <1>1, <1>3
  <2>2. CASE p[1] = p[Len(p)]
    <3>1. LastPoint(p) + 1 = Len(p)
      BY <1>1, <2>2 DEF LastPoint
    <3>2. PointOf(p, Len(p)) = p[Len(p)]
      BY <1>1, <1>3
    <3>3. QED
      BY <2>1, <2>2, <3>1, <3>2
  <2>3. CASE p[1] # p[Len(p)]
    <3>1. LastPoint(p) = Len(p)
      BY <1>1, <2>3 DEF LastPoint
    <3>2. ((Len(p) + 1) - 1) % Len(p) = 0
      BY <1>1
    <3>3. PointOf(p, Len(p) + 1) = p[1]
      BY <3>2 DEF PointOf
    <3>4. QED
      BY <2>1, <3>1, <3>3
  <2>4. QED
    BY <2>2, <2>3
<1>5. ASSUME NEW i \in 1..LastPoint(p)
      PROVE  /\ EdgeFrom(p, i) \in Edge /\ EdgeFrom(p, i).nr = i
             /\ EdgeFrom(p, i).x0 = PointOf(p, i)[1] /\ EdgeFrom(p, i).y0 = PointOf(p, i)[2]
             /\ EdgeFrom(p, i).x1 = PointOf(p, i + 1)[1] /\ EdgeFrom(p, i).y1 = PointOf(p, i + 1)[2]
  <2>1. i \in 1..Len(p) /\ (i + 1) - 1 = i /\ i \in Nat
    BY <1>1, <1>2
  <2>2. PointOf(p, i) = p[i] /\ PointOf(p, i + 1) = p[(i % Len(p)) + 1]
    BY <1>3, <2>1 DEF PointOf
  <2>3. (i % Len(p)) + 1 \in 1..Len(p)
    BY <1>1, <2>1
  <2>4. p[i] \in Position /\ p[(i % Len(p)) + 1] \in Position
    BY <1>1, <2>1, <2>3
  <2>5. QED
    BY <2>1, <2>2, <2>4 DEF EdgeFrom, Edge, Position
<1>6. QED
  BY <1>2, <1>4, <1>5

\* The edges are as many as their numbers.
LEMMA EdgesCounted ==
  ASSUME NEW p \in Seq(Position) \ {<<>>}, NEW I \in SUBSET (1..LastPoint(p)), NEW S,
         S = {EdgeFrom(p, i) : i \in I}
  PROVE  Cardinality(S) = Cardinality(I)
<1> DEFINE f == [i \in I |-> EdgeFrom(p, i)]
<1>1. IsFiniteSet(I)
  <2>1. IsFiniteSet(1..LastPoint(p))
    BY EdgesJoin, FS_Interval
  <2>2. QED
    BY <2>1, FS_Subset
<1>2. f \in Surjection(I, S)
  BY DEF Surjection
<1>3. f \in Injection(I, S)
  <2>1. \A i \in I : f[i].nr = i
    BY EdgesJoin
  <2> HIDE DEF f
  <2>2. f \in [I -> S]
    BY <1>2 DEF Surjection
  <2>3. \A i, j \in I : f[i] = f[j] => i = j
    BY <2>1
  <2>4. QED
    BY <2>2, <2>3 DEF Injection, IsInjective
<1> HIDE DEF f
<1>4. QED
  BY <1>1, <1>2, <1>3, FS_Surjection

\* A cell whose centre is inside of a polygon is filled, or an edge passes through it.
LEMMA InsideIsDrawn ==
  ASSUME NEW p \in Seq(Position) \ {<<>>}, NEW cells, NEW c \in cells, c \in Position, Inside(p, c)
  PROVE  c \in Filled(p, cells) \/ \E e \in Edges(p) : Touched(e, c)
<1> SUFFICES ASSUME \A e \in Edges(p) : ~Touched(e, c) PROVE c \in Filled(p, cells)
  OBVIOUS
<1> DEFINE n == LastPoint(p)
           A == {i \in 1..n : North(EdgeFrom(p, i), c)}
           B == {i \in 1..n : West(EdgeFrom(p, i), c)}
           R == {i \in 1..n + 1 :
                   NorthWest(PointOf(p, i)[1], PointOf(p, i)[2], Centre(c[2]), Centre(c[1]))}
<1>1. n \in Nat
  BY EdgesJoin
<1>2. 1 \in R <=> n + 1 \in R
  BY <1>1, EdgesJoin
<1>3. ASSUME NEW i \in 1..n
      PROVE  (i \in A <=> i \in B) <=> (i \in R <=> i + 1 \in R)
  <2> DEFINE e == EdgeFrom(p, i)
  <2>1. e \in Edge /\ e \in Edges(p)
    BY EdgesJoin DEF Edges
  <2>2. ~Touched(e, c)
    BY <2>1
  <2>3. (North(e, c) <=> West(e, c))
          <=> (NorthWest(e.x0, e.y0, Centre(c[2]), Centre(c[1]))
                 <=> NorthWest(e.x1, e.y1, Centre(c[2]), Centre(c[1])))
    <3> HIDE DEF e
    <3>1. QED
      BY <2>1, <2>2, CrossesOne
  <2>4. /\ e.x0 = PointOf(p, i)[1] /\ e.y0 = PointOf(p, i)[2]
        /\ e.x1 = PointOf(p, i + 1)[1] /\ e.y1 = PointOf(p, i + 1)[2]
    BY EdgesJoin
  <2>5. i \in 1..n + 1 /\ i + 1 \in 1..n + 1
    BY <1>1
  <2>6. (i \in A <=> North(e, c)) /\ (i \in B <=> West(e, c))
    OBVIOUS
  <2>7. /\ i \in R <=> NorthWest(e.x0, e.y0, Centre(c[2]), Centre(c[1]))
        /\ i + 1 \in R <=> NorthWest(e.x1, e.y1, Centre(c[2]), Centre(c[1]))
    <3> HIDE DEF e
    <3>1. QED
      BY <2>4, <2>5
  <2> HIDE DEF e, A, B, R
  <2>8. QED
    BY <2>3, <2>6, <2>7
<1>4. A \subseteq 1..n /\ B \subseteq 1..n
  OBVIOUS
<1>5. {e \in Edges(p) : Above(e, Centre(c[2]), Centre(c[1]))} = {EdgeFrom(p, i) : i \in A}
  BY DEF Edges, North
<1>6. {e \in Edges(p) : CrossedAt(e, c[1]) /\ ColumnAt(e, c[1]) <= c[2]}
      = {EdgeFrom(p, i) : i \in B}
  BY DEF Edges, West
<1> HIDE DEF A, B, R, n
<1>7. Cardinality(A) % 2 = Cardinality(B) % 2
  BY <1>1, <1>2, <1>3, <1>4, SameParity
<1>8. /\ Cardinality({EdgeFrom(p, i) : i \in A}) = Cardinality(A)
      /\ Cardinality({EdgeFrom(p, i) : i \in B}) = Cardinality(B)
  BY <1>4, EdgesCounted DEF n
<1>9. Cardinality(A) % 2 = 1
  BY <1>5, <1>8 DEF Inside
<1>10. QED
  BY <1>6, <1>7, <1>8, <1>9 DEF Filled

\* Whatever is land of a polygon is drawn.
LEMMA LandIsDrawn ==
  ASSUME NEW p \in Seq(Position) \ {<<>>}, NEW cells, NEW c \in cells, c \in Position, OnLand(p, c)
  PROVE  c \in (Marked(p) \cap cells) \cup Filled(p, cells)
<1>1. ASSUME NEW e \in Edges(p), Touched(e, c) PROVE c \in Marked(p)
  <2>1. e \in Edge
    BY EdgesJoin DEF Edges
  <2>2. c \in Elbows(e) \/ \E k \in 0..StepsOf(e) : c = SampleCell(e, k)
    BY <1>1, <2>1, TouchedIsMarked
  <2>3. c \in {SampleCell(e, k) : k \in 0..StepsOf(e)} \cup Elbows(e)
    BY <2>2
  <2>4. QED
    BY <2>3 DEF Marked
<1>2. QED
  BY <1>1, InsideIsDrawn DEF OnLand

-----------------------------------------------------------------------------
(***************************************************************************)
(* The rows of a mask and back.                                            *)
(***************************************************************************)
\* f starts at a and goes on, from one number to the next, by F.
Recurs(f, N, a, F) == f = [n \in 0..N |-> IF n = 0 THEN a ELSE F[<<n, f[n - 1]>>]]

\* A function on 0..N is determined by its first value and its steps.
LEMMA NumberRecursion ==
  ASSUME NEW N \in Nat, NEW a \in Int, NEW F \in [(1..N) \X Int -> Int]
  PROVE  \E f \in [0..N -> Int] : Recurs(f, N, a, F)
<1> USE DEF Recurs
<1> DEFINE fits(f, m) == f[0] = a /\ \A n \in 1..m : f[n] = F[<<n, f[n - 1]>>]
           upTo == {m \in Nat : m <= N => \E f \in [0..m -> Int] : fits(f, m)}
<1>1. 0 \in upTo
  <2> DEFINE f == [n \in 0..0 |-> a]
  <2>1. f \in [0..0 -> Int] /\ fits(f, 0)
    OBVIOUS
  <2>2. QED
    BY <2>1
<1>2. ASSUME NEW m \in Nat, m \in upTo PROVE m + 1 \in upTo
  <2> SUFFICES ASSUME m + 1 <= N PROVE \E f \in [0..m + 1 -> Int] : fits(f, m + 1)
    OBVIOUS
  <2>1. PICK f \in [0..m -> Int] : fits(f, m)
    BY <1>2
  <2> DEFINE x == F[<<m + 1, f[m]>>]
             g == [n \in 0..m + 1 |-> IF n = m + 1 THEN x ELSE f[n]]
  <2>2. x \in Int
    <3>1. m + 1 \in 1..N /\ f[m] \in Int
      BY <2>1
    <3>2. QED
      BY <3>1
  <2>3. g \in [0..m + 1 -> Int]
    BY <2>1, <2>2
  <2>4. g[0] = a
    BY <2>1
  <2>5. ASSUME NEW n \in 1..m + 1 PROVE g[n] = F[<<n, g[n - 1]>>]
    <3>1. g[n - 1] = f[n - 1]
      OBVIOUS
    <3>2. CASE n = m + 1
      <4>1. g[n] = x /\ n - 1 = m
        BY <3>2
      <4>2. QED
        BY <3>1, <3>2, <4>1
    <3>3. CASE n # m + 1
      <4>1. g[n] = f[n] /\ n \in 1..m
        BY <3>3
      <4>2. QED
        BY <2>1, <3>1, <4>1
    <3>4. QED
      BY <3>2, <3>3
  <2> HIDE DEF g
  <2>6. QED
    BY <2>3, <2>4, <2>5
<1>3. N \in upTo
  <2> HIDE DEF upTo
  <2>1. QED
    BY <1>1, <1>2, NumberInduction
<1>4. PICK f \in [0..N -> Int] : fits(f, N)
  BY <1>3
<1>5. f = [n \in 0..N |-> IF n = 0 THEN a ELSE F[<<n, f[n - 1]>>]]
  <2>1. \A n \in 0..N : f[n] = IF n = 0 THEN a ELSE F[<<n, f[n - 1]>>]
    BY <1>4
  <2>2. QED
    BY <2>1
<1>6. QED
  BY <1>5

Bit(mask, c, n) == IF <<c[1], c[2] + ByteBits - n>> \in mask THEN 1 ELSE 0

\* The recursion of a byte, from its highest bit.
LEMMA HighBitsAre ==
  ASSUME NEW mask, NEW c
  PROVE  /\ HighBits(mask, c) \in [0..ByteBits -> Int] /\ HighBits(mask, c)[0] = 0
         /\ \A n \in 1..ByteBits :
              HighBits(mask, c)[n] = 2 * HighBits(mask, c)[n - 1] + Bit(mask, c, n)
<1> DEFINE step(f, n) == IF n = 0 THEN 0 ELSE 2 * f[n - 1] + Bit(mask, c, n)
           F == [x \in (1..ByteBits) \X Int |-> 2 * x[2] + Bit(mask, c, x[1])]
<1>1. ByteBits \in Nat
  BY RasterConstants
<1>2. F \in [(1..ByteBits) \X Int -> Int]
  BY DEF Bit
<1>3. PICK f \in [0..ByteBits -> Int] :
        f = [n \in 0..ByteBits |-> IF n = 0 THEN 0 ELSE F[<<n, f[n - 1]>>]]
  <2> DEFINE zero == 0
  <2>1. zero \in Int
    OBVIOUS
  <2> HIDE DEF F, zero
  <2>2. \E f \in [0..ByteBits -> Int] : Recurs(f, ByteBits, zero, F)
    BY <1>1, <1>2, <2>1, NumberRecursion
  <2>3. QED
    BY <2>2 DEF Recurs, zero
<1>4. f = [n \in 0..ByteBits |-> step(f, n)]
  <2>1. ASSUME NEW n \in 0..ByteBits, n # 0
        PROVE  F[<<n, f[n - 1]>>] = 2 * f[n - 1] + Bit(mask, c, n)
    <3>1. n \in 1..ByteBits /\ f[n - 1] \in Int
      BY <1>1, <2>1
    <3>2. <<n, f[n - 1]>> \in (1..ByteBits) \X Int
      BY <3>1
    <3>3. QED
      BY <3>2
  <2> HIDE DEF F
  <2>2. \A n \in 0..ByteBits : f[n] = step(f, n)
    BY <1>3, <2>1
  <2>3. QED
    BY <1>3, <2>2
<1> DEFINE bits == HighBits(mask, c)
<1>5. bits = CHOOSE g : g = [n \in 0..ByteBits |-> step(g, n)]
  BY DEF HighBits, Bit
<1>6. bits = [n \in 0..ByteBits |-> step(bits, n)]
  <2> HIDE DEF bits, step
  <2>1. QED
    BY <1>4, <1>5
<1>7. \A n \in 0..ByteBits : bits[n] = step(bits, n)
  <2> HIDE DEF bits, step
  <2>1. QED
    BY <1>6
<1>8. bits \in [0..ByteBits -> Int]
  <2> DEFINE typed == {n \in Nat : n <= ByteBits => bits[n] \in Int}
  <2>1. 0 \in typed
    BY <1>1, <1>7
  <2>2. ASSUME NEW n \in Nat, n \in typed PROVE n + 1 \in typed
    <3> SUFFICES ASSUME n + 1 <= ByteBits PROVE bits[n + 1] \in Int
      OBVIOUS
    <3>1. n + 1 \in 0..ByteBits /\ n + 1 # 0 /\ (n + 1) - 1 = n /\ bits[n] \in Int
      BY <1>1, <2>2
    <3> HIDE DEF bits
    <3>2. bits[n + 1] = 2 * bits[n] + Bit(mask, c, n + 1)
      BY <1>7, <3>1
    <3>3. Bit(mask, c, n + 1) \in Int
      BY DEF Bit
    <3>4. QED
      BY <3>1, <3>2, <3>3
  <2>3. \A n \in Nat : n \in typed
    <3> HIDE DEF typed
    <3>1. QED
      BY <2>1, <2>2, NumberInduction
  <2>4. \A n \in 0..ByteBits : bits[n] \in Int
    BY <1>1, <2>3
  <2> HIDE DEF bits, step
  <2>5. QED
    BY <1>6, <2>4
<1>9. QED
  <2>1. 0 \in 0..ByteBits /\ \A n \in 1..ByteBits : n \in 0..ByteBits /\ n # 0
    BY <1>1
  <2> HIDE DEF bits
  <2>2. QED
    BY <1>7, <1>8, <2>1 DEF bits

\* The recursion of a shift.
LEMMA ShiftsAre ==
  ASSUME NEW byte \in Int
  PROVE  /\ ShiftedRight(byte)[0] = byte
         /\ \A n \in 1..ByteBits : ShiftedRight(byte)[n] = ShiftedRight(byte)[n - 1] \div 2
<1> DEFINE step(f, n) == IF n = 0 THEN byte ELSE f[n - 1] \div 2
           F == [x \in (1..ByteBits) \X Int |-> x[2] \div 2]
<1>1. ByteBits \in Nat
  BY RasterConstants
<1>2. F \in [(1..ByteBits) \X Int -> Int]
  OBVIOUS
<1>3. PICK f \in [0..ByteBits -> Int] :
        f = [n \in 0..ByteBits |-> IF n = 0 THEN byte ELSE F[<<n, f[n - 1]>>]]
  <2> HIDE DEF F
  <2>1. \E g \in [0..ByteBits -> Int] : Recurs(g, ByteBits, byte, F)
    BY <1>1, <1>2, NumberRecursion
  <2>2. QED
    BY <2>1 DEF Recurs
<1>4. f = [n \in 0..ByteBits |-> step(f, n)]
  <2>1. ASSUME NEW n \in 0..ByteBits, n # 0 PROVE F[<<n, f[n - 1]>>] = f[n - 1] \div 2
    <3>1. n \in 1..ByteBits /\ f[n - 1] \in Int
      BY <1>1, <2>1
    <3>2. <<n, f[n - 1]>> \in (1..ByteBits) \X Int
      BY <3>1
    <3>3. QED
      BY <3>2
  <2> HIDE DEF F
  <2>2. \A n \in 0..ByteBits : f[n] = step(f, n)
    BY <1>3, <2>1
  <2>3. QED
    BY <1>3, <2>2
<1> DEFINE shifts == ShiftedRight(byte)
<1>5. shifts = CHOOSE g : g = [n \in 0..ByteBits |-> step(g, n)]
  BY DEF ShiftedRight
<1>6. shifts = [n \in 0..ByteBits |-> step(shifts, n)]
  <2> HIDE DEF shifts, step
  <2>1. QED
    BY <1>4, <1>5
<1>7. \A n \in 0..ByteBits : shifts[n] = step(shifts, n)
  <2> HIDE DEF shifts, step
  <2>1. QED
    BY <1>6
<1>8. QED
  <2>1. 0 \in 0..ByteBits /\ \A n \in 1..ByteBits : n \in 0..ByteBits /\ n # 0
    BY <1>1
  <2> HIDE DEF shifts
  <2>2. QED
    BY <1>7, <2>1 DEF shifts

\* Shifting a byte to the right takes off the bits that were put in last.
LEMMA ShiftsUndo ==
  ASSUME NEW mask, NEW c, NEW s \in 0..ByteBits
  PROVE  ShiftedRight(HighBits(mask, c)[ByteBits])[s] = HighBits(mask, c)[ByteBits - s]
<1> DEFINE bits == HighBits(mask, c)
           shifts == ShiftedRight(bits[ByteBits])
           undone == {n \in Nat : n <= ByteBits => shifts[n] = bits[ByteBits - n]}
<1>1. ByteBits \in Nat
  BY RasterConstants
<1>2. /\ bits \in [0..ByteBits -> Int]
      /\ \A n \in 1..ByteBits : bits[n] = 2 * bits[n - 1] + Bit(mask, c, n)
  BY HighBitsAre
<1>3. shifts[0] = bits[ByteBits] /\ \A n \in 1..ByteBits : shifts[n] = shifts[n - 1] \div 2
  <2>1. bits[ByteBits] \in Int
    BY <1>1, <1>2
  <2>2. QED
    BY <2>1, ShiftsAre
<1> HIDE DEF bits, shifts
<1>4. 0 \in undone
  BY <1>1, <1>3
<1>5. ASSUME NEW n \in Nat, n \in undone PROVE n + 1 \in undone
  <2> SUFFICES ASSUME n + 1 <= ByteBits PROVE shifts[n + 1] = bits[ByteBits - (n + 1)]
    OBVIOUS
  <2> DEFINE h == ByteBits - n
  <2>1. h \in 1..ByteBits /\ h - 1 = ByteBits - (n + 1) /\ h - 1 \in 0..ByteBits
        /\ n + 1 \in 1..ByteBits /\ (n + 1) - 1 = n
    BY <1>1
  <2>2. shifts[n] = bits[h]
    <3>1. n <= ByteBits
      BY <1>1
    <3>2. QED
      BY <1>5, <3>1
  <2> HIDE DEF h
  <2>3. shifts[n + 1] = bits[h] \div 2
    BY <1>3, <2>1, <2>2
  <2>4. bits[h] = 2 * bits[h - 1] + Bit(mask, c, h) /\ bits[h - 1] \in Int
    BY <1>2, <2>1
  <2>5. Bit(mask, c, h) \in 0..1
    BY DEF Bit
  <2>6. bits[h] \div 2 = bits[h - 1]
    BY <2>4, <2>5
  <2>7. QED
    BY <2>1, <2>3, <2>6
<1>6. s \in undone
  <2>1. s \in Nat
    BY <1>1
  <2> HIDE DEF undone
  <2>2. QED
    BY <1>4, <1>5, <2>1, NumberInduction
<1>7. QED
  BY <1>1, <1>6 DEF bits, shifts

\* What is packed is unpacked.
LEMMA UnpackedIsPacked ==
  ASSUME NEW k \in DOMAIN TilesOf, NEW mask \in SUBSET Cells(k)
  PROVE  Unpack(Pack(mask, k), k) = mask
<1> SUFFICES ASSUME NEW c \in Cells(k) PROVE c \in Unpack(Pack(mask, k), k) <=> c \in mask
  BY DEF Unpack
<1> DEFINE south == TilesOf[k][1]
           west == TilesOf[k][2]
           i == c[1] - south
           j == c[2] - west
           rb == RowBytes
           q == j \div ByteBits
           s == j % ByteBits
           n == i * rb + q + 1
           at == Place(k, n)
<1>1. /\ south \in Int /\ west \in Int /\ Side \in Nat \ {0} /\ ByteBits \in Nat \ {0}
  <2>1. TilesOf \in Seq(Int \X Int)
    BY RasterConstants DEF Position
  <2>2. TilesOf[k] \in Int \X Int
    BY <2>1
  <2>3. QED
    BY <2>2, RasterConstants
<1>2. i \in 0..Side - 1 /\ j \in 0..Side - 1 /\ c = <<south + i, west + j>>
  BY <1>1 DEF Cells
<1> HIDE DEF south, west, i, j
<1>3. /\ rb \in Nat \ {0} /\ q \in 0..rb - 1 /\ s \in 0..ByteBits - 1 /\ j = ByteBits * q + s
  <2>1. q \in Int /\ s \in 0..ByteBits - 1 /\ s = j - ByteBits * q
    <3>1. j \in Int
      BY <1>1, <1>2
    <3>2. q \in Int /\ s \in Int /\ 0 <= s /\ s < ByteBits /\ s = j - ByteBits * q
      BY <1>1, <3>1, DivisionLeaves
    <3> HIDE DEF q, s
    <3>3. QED
      BY <1>1, <3>2
  <2> DEFINE r == (Side + ByteBits - 1) % ByteBits
  <2>2. rb \in Int /\ r \in 0..ByteBits - 1 /\ r = (Side + ByteBits - 1) - ByteBits * rb
    <3> DEFINE x == Side + ByteBits - 1
    <3>1. x \in Int
      BY <1>1
    <3>2. rb = x \div ByteBits /\ r = x % ByteBits
      BY DEF RowBytes
    <3> HIDE DEF x, rb, r
    <3>3. rb \in Int /\ r \in Int /\ 0 <= r /\ r < ByteBits /\ r = x - ByteBits * rb
      BY <1>1, <3>1, <3>2, DivisionLeaves
    <3>4. QED
      BY <1>1, <3>3 DEF x
  <2> HIDE DEF q, s, rb, r
  <2>3. q >= 0
    <3> SUFFICES ASSUME q <= -1 PROVE FALSE
      BY <2>1
    <3>1. ByteBits * q <= -ByteBits
      BY <1>1, <2>1, Z3
    <3>2. QED
      BY <1>1, <1>2, <2>1, <3>1
  <2>4. q < rb
    <3> SUFFICES ASSUME q >= rb PROVE FALSE
      BY <2>1, <2>2
    <3>1. ByteBits * q >= ByteBits * rb
      BY <1>1, <2>1, <2>2, Z3
    <3>2. ByteBits * rb >= Side
      BY <1>1, <2>2
    <3>3. QED
      BY <1>1, <1>2, <2>1, <2>2, <3>1, <3>2
  <2>5. QED
    BY <1>2, <2>1, <2>2, <2>3, <2>4, <1>1
<1> HIDE DEF q, s, rb
<1>4. n \in 1..Side * rb /\ n - 1 = rb * i + q /\ n \in Int
  <2>1. i * rb \in Int /\ i * rb = rb * i /\ i * rb >= 0 /\ i * rb <= (Side - 1) * rb
    <3>1. i * rb \in Int /\ i * rb = rb * i
      BY <1>2, <1>3
    <3>2. i * rb >= 0
      BY <1>2, <1>3, Z3
    <3>3. i * rb <= (Side - 1) * rb
      BY <1>1, <1>2, <1>3, Z3
    <3>4. QED
      BY <3>1, <3>2, <3>3
  <2>2. (Side - 1) * rb = Side * rb - rb /\ Side * rb \in Int
    BY <1>1, <1>3
  <2>3. QED
    BY <1>2, <1>3, <2>1, <2>2
<1> HIDE DEF n
<1>5. (n - 1) \div rb = i /\ (n - 1) % rb = q
  <2> DEFINE x == n - 1
  <2>1. x \in Int /\ x = rb * i + q /\ i \in Int
    BY <1>2, <1>4, <1>1
  <2> HIDE DEF x
  <2>2. x \div rb = i /\ x % rb = q
    BY <1>3, <2>1, DividedOnce
  <2>3. QED
    BY <2>2 DEF x
<1>6. at[1] = south + i /\ at[2] = west + q * ByteBits
  BY <1>5 DEF Place, rb, south, west
<1> HIDE DEF at
<1>7. Pack(mask, k)[n] = HighBits(mask, at)[ByteBits]
  BY <1>4 DEF Pack, at, rb
<1>8. ShiftedRight(Pack(mask, k)[n])[s] = HighBits(mask, at)[ByteBits - s]
  <2>1. s \in 0..ByteBits
    BY <1>1, <1>3
  <2>2. QED
    BY <1>7, <2>1, ShiftsUndo
<1> DEFINE h == ByteBits - s
<1>9. HighBits(mask, at)[h] % 2 = Bit(mask, at, h)
  <2>1. h \in 1..ByteBits /\ h - 1 \in 0..ByteBits
    BY <1>1, <1>3
  <2> HIDE DEF h
  <2>2. /\ HighBits(mask, at)[h] = 2 * HighBits(mask, at)[h - 1] + Bit(mask, at, h)
        /\ HighBits(mask, at)[h - 1] \in Int
    <3>1. /\ HighBits(mask, at) \in [0..ByteBits -> Int]
          /\ \A m \in 1..ByteBits :
               HighBits(mask, at)[m] = 2 * HighBits(mask, at)[m - 1] + Bit(mask, at, m)
      BY HighBitsAre, Zenon
    <3>2. QED
      BY <2>1, <3>1
  <2>3. Bit(mask, at, h) \in 0..1
    BY DEF Bit
  <2>4. QED
    BY <2>2, <2>3
<1>10. Bit(mask, at, h) = 1 <=> c \in mask
  <2>1. at[2] + ByteBits - h = west + j
    <3>1. q * ByteBits = ByteBits * q /\ q * ByteBits \in Int
      BY <1>1, <1>3
    <3>2. QED
      BY <1>1, <1>2, <1>3, <1>6, <3>1
  <2>2. <<at[1], at[2] + ByteBits - h>> = c
    BY <1>2, <1>6, <2>1
  <2> HIDE DEF h
  <2>3. QED
    BY <2>2 DEF Bit
<1>11. c \in Unpack(Pack(mask, k), k) <=> ShiftedRight(Pack(mask, k)[n])[s] % 2 = 1
  BY DEF Unpack, i, j, n, s, q, rb, south, west
<1>12. QED
  BY <1>8, <1>9, <1>10, <1>11

-----------------------------------------------------------------------------
(***************************************************************************)
(* The masks of a tile.                                                    *)
(***************************************************************************)
\* The cells of a tile are finitely many, and make a rectangle.
LEMMA CellsAre ==
  ASSUME NEW k \in DOMAIN TilesOf
  PROVE  /\ IsFiniteSet(Cells(k)) /\ Cells(k) \subseteq Position
         /\ \A c, d \in Cells(k) : <<c[1], d[2]>> \in Cells(k)
<1> DEFINE s == TilesOf[k][1]
           w == TilesOf[k][2]
<1>1. s \in Int /\ w \in Int /\ Side \in Nat \ {0}
  BY RasterConstants DEF Position
<1>2. Cells(k) = {s + i : i \in 0..Side - 1} \X {w + i : i \in 0..Side - 1}
  BY DEF Cells
<1> HIDE DEF s, w
<1>3. ASSUME NEW a \in Int PROVE {a + i : i \in 0..Side - 1} = a..a + (Side - 1)
  <2>1. ASSUME NEW x \in a..a + (Side - 1) PROVE x \in {a + i : i \in 0..Side - 1}
    <3>1. x - a \in 0..Side - 1 /\ x = a + (x - a)
      BY <1>1
    <3>2. QED
      BY <3>1
  <2>2. ASSUME NEW i \in 0..Side - 1 PROVE a + i \in a..a + (Side - 1)
    BY <1>1
  <2>3. QED
    BY <2>1, <2>2
<1>4. Cells(k) = (s..s + (Side - 1)) \X (w..w + (Side - 1))
  BY <1>1, <1>2, <1>3
<1>5. IsFiniteSet(s..s + (Side - 1)) /\ IsFiniteSet(w..w + (Side - 1))
  BY <1>1, FS_Interval
<1>6. IsFiniteSet((s..s + (Side - 1)) \X (w..w + (Side - 1)))
  BY <1>5, FS_Product
<1>7. QED
  BY <1>1, <1>4, <1>6 DEF Position

\* The buffer of a mask holds it and all near it, and nothing outside of the tile.
LEMMA DilatedHolds ==
  ASSUME NEW k \in DOMAIN TilesOf, NEW mask \in SUBSET Cells(k)
  PROVE  /\ mask \subseteq Dilate(mask, k) /\ Dilate(mask, k) \subseteq Cells(k)
         /\ \A c \in Cells(k) : \A d \in mask : Near(c, d) => c \in Dilate(mask, k)
<1> DEFINE wide == Shifted(mask, {0}, -LonBuffer..LonBuffer) \cap Cells(k)
<1>1. LonBuffer \in Nat /\ LatBuffer \in Nat
  BY RasterConstants
<1>2. Dilate(mask, k) = Shifted(wide, -LatBuffer..LatBuffer, {0}) \cap Cells(k)
  BY DEF Dilate
<1>3. ASSUME NEW c \in Cells(k), NEW d \in mask, Near(c, d) PROVE c \in Dilate(mask, k)
  <2>1. /\ c[1] \in Int /\ c[2] \in Int /\ d[1] \in Int /\ d[2] \in Int /\ c = <<c[1], c[2]>>
        /\ <<d[1], c[2]>> \in Cells(k)
    BY CellsAre DEF Position
  <2> DEFINE i == c[1] - d[1]
             j == c[2] - d[2]
  <2>2. i \in -LatBuffer..LatBuffer /\ j \in -LonBuffer..LonBuffer
    BY <1>1, <1>3, <2>1 DEF Near, AbsOf
  <2>3. d[1] + 0 = d[1] /\ d[2] + j = c[2] /\ d[1] + i = c[1] /\ c[2] + 0 = c[2]
    BY <2>1
  <2> HIDE DEF i, j
  <2>4. <<d[1] + 0, d[2] + j>> \in Shifted(mask, {0}, -LonBuffer..LonBuffer)
    BY <2>2 DEF Shifted
  <2> DEFINE e == <<d[1], c[2]>>
  <2>5. e \in wide /\ e[1] = d[1] /\ e[2] = c[2]
    BY <2>1, <2>3, <2>4
  <2> HIDE DEF e, wide
  <2>6. <<e[1] + i, e[2] + 0>> \in Shifted(wide, -LatBuffer..LatBuffer, {0})
    BY <2>2, <2>5 DEF Shifted
  <2>7. c \in Shifted(wide, -LatBuffer..LatBuffer, {0})
    BY <2>1, <2>3, <2>5, <2>6
  <2>8. QED
    BY <1>2, <2>7
<1>4. ASSUME NEW d \in mask PROVE Near(d, d)
  <2>1. d[1] - d[1] = 0 /\ d[2] - d[2] = 0
    BY CellsAre DEF Position
  <2>2. QED
    BY <1>1, <2>1 DEF Near, AbsOf
<1>5. QED
  BY <1>2, <1>3, <1>4

\* A source cell is one of those of the cell it lies in.
LEMMA SourceOfCell ==
  ASSUME NEW s \in Position, NEW c \in Position,
         s[1] \div SourcePer = c[1], s[2] \div SourcePer = c[2]
  PROVE  s \in SourcesOf(c)
<1>1. SourcePer \in Nat \ {0} /\ s[1] \in Int /\ s[2] \in Int /\ s = <<s[1], s[2]>>
  BY RasterConstants DEF Position
<1>2. ASSUME NEW x \in Int, NEW q, q = x \div SourcePer
      PROVE  x \in {q * SourcePer + i : i \in 0..SourcePer - 1}
  <2>1. /\ q \in Int /\ x % SourcePer \in Int /\ 0 <= x % SourcePer /\ x % SourcePer < SourcePer
        /\ x % SourcePer = x - SourcePer * q
    BY <1>1, <1>2, DivisionLeaves
  <2>2. PICK r : r = x % SourcePer
    OBVIOUS
  <2>3. r \in 0..SourcePer - 1 /\ x = q * SourcePer + r
    <3>1. q * SourcePer = SourcePer * q /\ SourcePer * q \in Int
      BY <1>1, <2>1
    <3>2. QED
      BY <1>1, <1>2, <2>1, <2>2, <3>1
  <2>4. QED
    BY <2>3
<1>3. s[1] \in {c[1] * SourcePer + i : i \in 0..SourcePer - 1}
      /\ s[2] \in {c[2] * SourcePer + i : i \in 0..SourcePer - 1}
  BY <1>1, <1>2
<1>4. QED
  BY <1>1, <1>3 DEF SourcesOf

-----------------------------------------------------------------------------
\* All that is near to what is unsailable in tile k, and in it, is in the mask.
Blocks(mask, k) ==
  \A c \in Cells(k) : (\E d \in Cells(k) : SeenUnsailable(d, k) /\ Near(c, d)) => c \in mask

\* The depths are in the masks of the tile.
DepthsIn(mask) ==
  \A d \in Cells(tile) : \A s \in dtm.dry \cup dtm.missing :
    s[1] \div SourcePer = d[1] /\ s[2] \div SourcePer = d[2] => d \in mask
\* What is land of the polygons before the next one is drawn.
LandIn(mask) ==
  \A i \in DOMAIN coast : i < polygon /\ Reaches(coast[i], tile) =>
    \A d \in Cells(tile) : OnLand(coast[i], d) => d \in mask

PackedMasks == {Pack(mask, k) : mask \in SUBSET Position, k \in DOMAIN TilesOf}
Checked == made \in {"check", "built"}

RasterInv ==
  /\ dtm \in Soundings /\ coast \in Coasts /\ tile \in DOMAIN TilesOf /\ polygon \in Nat \ {0}
  /\ made \in {"depth", "coast", "union", "buffer", "encode", "check", "built"}
  /\ compiled \in Seq(SUBSET Position) /\ payload \in Seq(PackedMasks)
  /\ Len(payload) = Len(compiled)
  /\ Len(compiled) = IF Checked THEN Len(TilesOf) ELSE tile - 1
  /\ \A k \in 1..Len(compiled) :
       compiled[k] \subseteq Cells(k) /\ payload[k] = Pack(compiled[k], k) /\ Blocks(compiled[k], k)
  /\ land \cup shoal \cup nodata \cup blocked \subseteq Cells(tile)
  /\ made = "depth" => polygon = 1
  /\ made \in {"coast", "union"} => DepthsIn(shoal \cup nodata) /\ LandIn(land)
  /\ made = "union" => polygon > Len(coast)
  /\ made = "buffer" =>
       before = Cardinality(blocked) /\ \A d \in Cells(tile) : SeenUnsailable(d, tile) => d \in blocked
  /\ made = "encode" => Blocks(blocked, tile)
  /\ Checked \/ made = "encode" => Cardinality(blocked) >= before

\* The invariant holds initially.
LEMMA RasterInitially == RasterInit => RasterInv
<1> SUFFICES ASSUME RasterInit PROVE RasterInv
  OBVIOUS
<1>1. TilesOf \in Seq(Position) /\ 1 \in DOMAIN TilesOf
  BY RasterConstants
<1>2. QED
  BY <1>1 DEF RasterInit, RasterInv, Checked

\* The depths are reduced over all source cells.
LEMMA ReduceKeeps == RasterInv /\ ReduceBlocks => RasterInv'
<1> SUFFICES ASSUME RasterInv, ReduceBlocks PROVE RasterInv'
  OBVIOUS
<1>1. tile \in DOMAIN TilesOf /\ dtm.dry \subseteq Position /\ dtm.missing \subseteq Position
  BY RasterConstants DEF RasterInv
<1>2. /\ shoal' = {c \in Cells(tile) : SourcesOf(c) \cap dtm.dry # {}}
      /\ nodata' = {c \in Cells(tile) : SourcesOf(c) \cap dtm.missing # {}}
      /\ made = "depth" /\ made' = "coast" /\ dtm' = dtm /\ coast' = coast /\ tile' = tile
      /\ polygon' = polygon /\ land' = land /\ blocked' = blocked /\ before' = before
      /\ compiled' = compiled /\ payload' = payload
  BY DEF ReduceBlocks
<1>3. DepthsIn(shoal \cup nodata)'
  <2>1. ASSUME NEW d \in Cells(tile), NEW s \in dtm.dry \cup dtm.missing,
               s[1] \div SourcePer = d[1], s[2] \div SourcePer = d[2]
        PROVE  d \in shoal' \cup nodata'
    <3>1. s \in SourcesOf(d)
      BY <1>1, <2>1, CellsAre, SourceOfCell
    <3>2. QED
      BY <1>2, <3>1
  <2>2. QED
    BY <1>2, <2>1 DEF DepthsIn
<1>4. LandIn(land)'
  <2>1. polygon = 1 /\ coast \in Seq(Seq(Position) \ {<<>>})
    BY <1>2, RasterConstants DEF RasterInv
  <2>2. \A i \in DOMAIN coast : ~(i < polygon)
    BY <2>1
  <2>3. QED
    BY <1>2, <2>2 DEF LandIn
<1>5. QED
  BY <1>2, <1>3, <1>4 DEF RasterInv, Checked, Blocks, SeenUnsailable, SeenIn, DryAt

\* Each polygon that reaches the tile is drawn.
LEMMA RasteriseKeeps == RasterInv /\ Rasterise => RasterInv'
<1> SUFFICES ASSUME RasterInv, Rasterise PROVE RasterInv'
  OBVIOUS
<1>1. /\ made = "coast" /\ dtm' = dtm /\ coast' = coast /\ tile' = tile /\ shoal' = shoal
      /\ nodata' = nodata /\ blocked' = blocked /\ before' = before
      /\ compiled' = compiled /\ payload' = payload
  BY DEF Rasterise
<1>2. tile \in DOMAIN TilesOf /\ coast \in Seq(Seq(Position) \ {<<>>}) /\ polygon \in Nat \ {0}
  BY RasterConstants DEF RasterInv
<1>3. DepthsIn(shoal \cup nodata)'
  BY <1>1 DEF RasterInv, DepthsIn
<1>4. CASE polygon > Len(coast)
  <2>1. made' = "union" /\ polygon' = polygon /\ land' = land
    BY <1>4 DEF Rasterise
  <2>2. LandIn(land)'
    BY <1>1, <2>1 DEF RasterInv, LandIn
  <2>3. QED
    BY <1>1, <1>3, <1>4, <2>1, <2>2 DEF RasterInv, Checked, Blocks, SeenUnsailable, SeenIn, DryAt
<1>5. CASE ~(polygon > Len(coast))
  <2> DEFINE p == coast[polygon]
             drawn == (Marked(p) \cap Cells(tile)) \cup Filled(p, Cells(tile))
  <2>1. /\ land' = land \cup (IF Reaches(p, tile) THEN drawn ELSE {})
        /\ polygon' = polygon + 1 /\ made' = made
    BY <1>5 DEF Rasterise
  <2>2. p \in Seq(Position) \ {<<>>}
    BY <1>2, <1>5
  <2>3. drawn \subseteq Cells(tile)
    BY DEF Filled
  <2>4. ASSUME NEW d \in Cells(tile), OnLand(p, d) PROVE d \in drawn
    BY <1>2, <2>2, <2>4, CellsAre, LandIsDrawn
  <2>5. LandIn(land)'
    <3>1. ASSUME NEW i \in DOMAIN coast, i < polygon + 1, Reaches(coast[i], tile),
                 NEW d \in Cells(tile), OnLand(coast[i], d)
          PROVE  d \in land'
      <4>1. CASE i = polygon
        BY <2>1, <2>4, <3>1, <4>1
      <4>2. CASE i # polygon
        <5>1. i < polygon
          BY <1>2, <3>1, <4>2
        <5>2. QED
          BY <1>1, <2>1, <3>1, <5>1 DEF RasterInv, LandIn
      <4>3. QED
        BY <4>1, <4>2
    <3>2. QED
      BY <1>1, <2>1, <3>1 DEF LandIn
  <2> HIDE DEF p, drawn
  <2>6. QED
    BY <1>1, <1>2, <1>3, <2>1, <2>3, <2>5 DEF RasterInv, Checked, Blocks, SeenUnsailable, SeenIn, DryAt
<1>6. QED
  BY <1>4, <1>5

\* What is united is all that is unsailable in the tile.
LEMMA UniteKeeps == RasterInv /\ Unite => RasterInv'
<1> SUFFICES ASSUME RasterInv, Unite PROVE RasterInv'
  OBVIOUS
<1>1. /\ made = "union" /\ dtm' = dtm /\ coast' = coast /\ tile' = tile /\ shoal' = shoal
      /\ nodata' = nodata /\ land' = land /\ polygon' = polygon
      /\ compiled' = compiled /\ payload' = payload
      /\ blocked' = land \cup shoal \cup nodata /\ before' = Cardinality(blocked')
      /\ made' = "buffer"
  BY DEF Unite
<1>2. coast \in Seq(Seq(Position) \ {<<>>}) /\ polygon > Len(coast) /\ polygon \in Nat
  BY <1>1, RasterConstants DEF RasterInv
<1>3. ASSUME NEW d \in Cells(tile), SeenUnsailable(d, tile) PROVE d \in land \cup shoal \cup nodata
  <2>1. CASE \E i \in SeenIn(tile) : OnLand(coast[i], d)
    <3>1. PICK i \in SeenIn(tile) : OnLand(coast[i], d)
      BY <2>1
    <3>2. i < polygon
      BY <1>2 DEF SeenIn
    <3>3. QED
      BY <1>1, <3>1, <3>2 DEF RasterInv, LandIn, SeenIn
  <2>2. CASE \E s \in dtm.dry \cup dtm.missing :
               s[1] \div SourcePer = d[1] /\ s[2] \div SourcePer = d[2]
    BY <1>1, <2>2 DEF RasterInv, DepthsIn
  <2>3. QED
    BY <1>3, <2>1, <2>2 DEF SeenUnsailable, SeenIn, DryAt
<1>4. QED
  BY <1>1, <1>3 DEF RasterInv, Checked, Blocks, SeenUnsailable, SeenIn, DryAt

\* The buffer only adds to the mask.
LEMMA BufferKeeps == RasterInv /\ Buffer => RasterInv'
<1> SUFFICES ASSUME RasterInv, Buffer PROVE RasterInv'
  OBVIOUS
<1>1. /\ made = "buffer" /\ dtm' = dtm /\ coast' = coast /\ tile' = tile /\ shoal' = shoal
      /\ nodata' = nodata /\ land' = land /\ polygon' = polygon /\ before' = before
      /\ compiled' = compiled /\ payload' = payload
      /\ blocked' = Dilate(blocked, tile) /\ made' = "encode"
  BY DEF Buffer
<1>2. tile \in DOMAIN TilesOf /\ blocked \in SUBSET Cells(tile)
  BY DEF RasterInv
<1>3. /\ blocked \subseteq blocked' /\ blocked' \subseteq Cells(tile)
      /\ \A c \in Cells(tile) : \A d \in blocked : Near(c, d) => c \in blocked'
  BY <1>1, <1>2, DilatedHolds
<1>4. Blocks(blocked', tile)
  BY <1>1, <1>3 DEF RasterInv, Blocks
<1>5. Cardinality(blocked) <= Cardinality(blocked')
  <2>1. IsFiniteSet(blocked')
    BY <1>2, <1>3, CellsAre, FS_Subset
  <2>2. QED
    BY <1>3, <2>1, FS_Subset
<1>6. Cardinality(blocked') \in Int /\ Cardinality(blocked) \in Int
  <2>1. IsFiniteSet(blocked') /\ IsFiniteSet(blocked)
    BY <1>2, <1>3, CellsAre, FS_Subset
  <2>2. QED
    BY <2>1, FS_CardinalityType
<1>7. Blocks(blocked, tile)' /\ (Cardinality(blocked) >= before)'
  BY <1>1, <1>4, <1>5, <1>6 DEF RasterInv, Blocks, SeenUnsailable, SeenIn, DryAt
<1>8. QED
  BY <1>1, <1>3, <1>7 DEF RasterInv, Checked, Blocks, SeenUnsailable, SeenIn, DryAt

\* Each tile is encoded from its own mask.
LEMMA EncodeKeeps == RasterInv /\ Encode => RasterInv'
<1> SUFFICES ASSUME RasterInv, Encode PROVE RasterInv'
  OBVIOUS
<1> DEFINE bytes == Pack(blocked, tile)
<1>1. /\ made = "encode" /\ dtm' = dtm /\ coast' = coast
      /\ compiled' = Append(compiled, blocked) /\ payload' = Append(payload, bytes)
  BY DEF Encode
<1>2. /\ tile \in DOMAIN TilesOf /\ TilesOf \in Seq(Position) /\ tile \in 1..Len(TilesOf)
      /\ compiled \in Seq(SUBSET Position) /\ payload \in Seq(PackedMasks)
      /\ Len(compiled) = tile - 1 /\ Len(payload) = tile - 1
      /\ blocked \subseteq Cells(tile) /\ blocked \subseteq Position
  BY <1>1, CellsAre, RasterConstants DEF RasterInv, Checked
<1>3. bytes \in PackedMasks
  <2>1. \E mask \in SUBSET Position, k \in DOMAIN TilesOf : bytes = Pack(mask, k)
    BY <1>2
  <2>2. QED
    BY <2>1 DEF PackedMasks
<1> HIDE DEF bytes
<1>4. /\ compiled' \in Seq(SUBSET Position) /\ payload' \in Seq(PackedMasks)
      /\ Len(compiled') = tile /\ Len(payload') = tile
      /\ compiled'[tile] = blocked /\ payload'[tile] = bytes
      /\ \A k \in 1..tile - 1 : compiled'[k] = compiled[k] /\ payload'[k] = payload[k]
  BY <1>1, <1>2, <1>3
<1>5. ASSUME NEW k \in 1..tile
      PROVE  /\ compiled'[k] \subseteq Cells(k) /\ payload'[k] = Pack(compiled'[k], k)
             /\ Blocks(compiled[k], k)'
  <2>2. CASE k = tile
    <3>1. Blocks(blocked, k)
      BY <1>1, <2>2 DEF RasterInv
    <3>2. payload'[k] = Pack(blocked, k) /\ compiled'[k] = blocked
      BY <1>4, <2>2 DEF bytes
    <3>3. Blocks(compiled[k], k)' <=> Blocks(compiled'[k], k)
      BY <1>1 DEF Blocks, SeenUnsailable, SeenIn, DryAt
    <3>4. QED
      BY <1>2, <2>2, <3>1, <3>2, <3>3
  <2>3. CASE k # tile
    <3>1. k \in 1..tile - 1 /\ k \in 1..Len(compiled)
      BY <1>2, <2>3
    <3>2. compiled'[k] = compiled[k] /\ payload'[k] = payload[k]
      BY <1>4, <3>1
    <3>3. compiled[k] \subseteq Cells(k) /\ payload[k] = Pack(compiled[k], k)
          /\ Blocks(compiled[k], k)
      BY <3>1 DEF RasterInv
    <3>4. Blocks(compiled[k], k)' <=> Blocks(compiled'[k], k)
      BY <1>1 DEF Blocks, SeenUnsailable, SeenIn, DryAt
    <3>5. QED
      BY <3>2, <3>3, <3>4
  <2>4. QED
    BY <2>2, <2>3
<1>6. CASE tile < Len(TilesOf)
  <2>1. /\ tile' = tile + 1 /\ made' = "depth" /\ polygon' = 1
        /\ land' = {} /\ shoal' = {} /\ nodata' = {} /\ blocked' = {}
    BY <1>6 DEF Encode
  <2>2. tile + 1 \in DOMAIN TilesOf
    BY <1>2, <1>6
  <2>3. (Len(compiled) = IF Checked THEN Len(TilesOf) ELSE tile - 1)'
        /\ Len(payload') = Len(compiled') /\ Len(compiled') = tile
    BY <1>2, <1>4, <2>1 DEF Checked
  <2>4. ASSUME NEW k \in 1..Len(compiled')
        PROVE  /\ compiled'[k] \subseteq Cells(k) /\ payload'[k] = Pack(compiled'[k], k)
               /\ Blocks(compiled[k], k)'
    BY <1>5, <2>3
  <2>5. QED
    BY <1>1, <1>4, <2>1, <2>2, <2>3, <2>4 DEF RasterInv, Checked
<1>7. CASE ~(tile < Len(TilesOf))
  <2>1. /\ made' = "check" /\ tile' = tile /\ polygon' = polygon /\ land' = land /\ shoal' = shoal
        /\ nodata' = nodata /\ blocked' = blocked /\ before' = before
    BY <1>7 DEF Encode
  <2>2. tile = Len(TilesOf)
    BY <1>2, <1>7
  <2>3. (Len(compiled) = IF Checked THEN Len(TilesOf) ELSE tile - 1)'
        /\ Len(payload') = Len(compiled') /\ Len(compiled') = tile
    BY <1>2, <1>4, <2>1, <2>2 DEF Checked
  <2>4. ASSUME NEW k \in 1..Len(compiled')
        PROVE  /\ compiled'[k] \subseteq Cells(k) /\ payload'[k] = Pack(compiled'[k], k)
               /\ Blocks(compiled[k], k)'
    BY <1>5, <2>3
  <2>5. QED
    BY <1>1, <1>4, <2>1, <2>3, <2>4 DEF RasterInv, Checked
<1>8. QED
  BY <1>6, <1>7

\* The check finds every tile as it was compiled.
LEMMA CheckKeeps == RasterInv /\ CheckBuilt => RasterInv'
<1> SUFFICES ASSUME RasterInv, CheckBuilt PROVE RasterInv'
  OBVIOUS
<1>1. /\ made = "check" /\ dtm' = dtm /\ coast' = coast /\ tile' = tile /\ shoal' = shoal
      /\ nodata' = nodata /\ land' = land /\ polygon' = polygon /\ before' = before
      /\ blocked' = blocked /\ compiled' = compiled /\ payload' = payload
  BY DEF CheckBuilt
<1>2. TilesOf \in Seq(Position) /\ Len(compiled) = Len(TilesOf)
  BY <1>1, RasterConstants DEF RasterInv, Checked
<1>3. ASSUME NEW k \in DOMAIN TilesOf PROVE Unpack(payload[k], k) = compiled[k]
  <2>1. k \in 1..Len(compiled)
    BY <1>2
  <2>2. compiled[k] \subseteq Cells(k) /\ payload[k] = Pack(compiled[k], k)
    BY <2>1 DEF RasterInv
  <2>3. QED
    BY <2>2, UnpackedIsPacked
<1>4. made' = "built"
  BY <1>1, <1>3 DEF CheckBuilt, RasterInv, Checked
<1>5. QED
  BY <1>1, <1>4 DEF RasterInv, Checked, Blocks, SeenUnsailable, SeenIn, DryAt

\* Every step keeps the invariant.
LEMMA NextRasterInv == RasterInv /\ [RasterNext]_rasterVars => RasterInv'
<1>1. RasterInv /\ UNCHANGED rasterVars => RasterInv'
  BY DEF rasterVars, RasterInv, Checked, Blocks, SeenUnsailable, SeenIn, DryAt, DepthsIn, LandIn
<1>2. QED
  BY <1>1, ReduceKeeps, RasteriseKeeps, UniteKeeps, BufferKeeps, EncodeKeeps, CheckKeeps
     DEF RasterNext

\* What was compiled is what a client decodes.
LEMMA CompiledIsRead == RasterInv => CoversSources
<1> SUFFICES ASSUME RasterInv PROVE CoversSources
  OBVIOUS
<1>1. made # "failed"
  BY DEF RasterInv
<1>2. ASSUME made = "built", NEW k \in DOMAIN TilesOf, NEW c \in Cells(k),
             \E d \in Cells(k) : SeenUnsailable(d, k) /\ Near(c, d)
      PROVE  c \in Unpack(payload[k], k)
  <2>1. k \in 1..Len(compiled)
    BY <1>2, RasterConstants DEF RasterInv, Checked
  <2>2. compiled[k] \subseteq Cells(k) /\ payload[k] = Pack(compiled[k], k)
        /\ Blocks(compiled[k], k)
    BY <2>1 DEF RasterInv
  <2>3. c \in compiled[k]
    BY <1>2, <2>2 DEF Blocks
  <2>4. QED
    BY <2>2, <2>3, UnpackedIsPacked
<1>3. QED
  BY <1>1, <1>2 DEF CoversSources

\* A built index blocks each cell of a tile that a dry or missing depth is in, or that a
\* polygon with a point in the tile touches or covers, and all around those in the tile as
\* far as the buffer goes.  The polygons without a point in a tile are not spoken of.
THEOREM BuiltIndexCoversSources == RasterSpec => []CoversSources
BY RasterInitially, NextRasterInv, CompiledIsRead, PTL DEF RasterSpec

\* Where a polygon lies over a tile without a point in it, the depths of those cells are dry
\* or missing.
LeftOutIsDry ==
  \A ps \in Coasts, depths \in Soundings :
    \A k \in DOMAIN TilesOf : \A c \in Cells(k) : \A i \in DOMAIN ps :
      OnLand(ps[i], c) => Reaches(ps[i], k) \/ DryAt(depths, c)

\* Each cell is near itself.
LEMMA SelfIsNear == ASSUME NEW k \in DOMAIN TilesOf, NEW c \in Cells(k) PROVE Near(c, c)
<1>1. c \in Position /\ LonBuffer \in Nat /\ LatBuffer \in Nat
  BY CellsAre, RasterConstants
<1>2. QED
  BY <1>1 DEF Position, Near, AbsOf

\* A built index blocks every cell that any source geometry touches, wherever the points of
\* that geometry are, if the depths are dry where a polygon is left out: the promise of
\* compile.py, and what it rests on.
THEOREM TouchedIsBlockedWhereLeftOutIsDry ==
  ASSUME LeftOutIsDry
  PROVE  RasterSpec => []TouchedIsBlocked
<1>1. RasterInv => TouchedIsBlocked
  <2>1. SUFFICES ASSUME RasterInv, made = "built",
                        NEW k \in DOMAIN TilesOf, NEW c \in Cells(k), Unsailable(c)
                 PROVE  c \in Unpack(payload[k], k)
    BY DEF TouchedIsBlocked
  <2>2. coast \in Coasts /\ dtm \in Soundings
    BY <2>1 DEF RasterInv
  <2>3. SeenUnsailable(c, k)
    <3>1. CASE DryAt(dtm, c)
      BY <3>1 DEF SeenUnsailable
    <3>2. CASE \E i \in DOMAIN coast : OnLand(coast[i], c)
      <4>1. PICK i \in DOMAIN coast : OnLand(coast[i], c)
        BY <3>2
      <4>2. Reaches(coast[i], k) \/ DryAt(dtm, c)
        BY <2>1, <2>2, <4>1 DEF LeftOutIsDry
      <4>3. QED
        BY <4>1, <4>2 DEF SeenUnsailable, SeenIn
    <3>3. QED
      BY <2>1, <3>1, <3>2 DEF Unsailable
  <2>4. CoversSources /\ Near(c, c)
    BY <2>1, CompiledIsRead, SelfIsNear
  <2>5. QED
    BY <2>1, <2>3, <2>4 DEF CoversSources
<1>2. QED
  BY <1>1, RasterInitially, NextRasterInv, PTL DEF RasterSpec

=============================================================================
