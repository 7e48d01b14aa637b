---------------------------- MODULE SourceProofs ----------------------------
(***************************************************************************)
(* Theorems about the two jobs that read a source somebody else is still   *)
(* writing: RollingSource, a store that is rewritten in place, and         *)
(* IngestJob, a cycle whose files are still on their way.                  *)
(***************************************************************************)
EXTENDS RollingSource, IngestJob, TLAPS

-----------------------------------------------------------------------------
(***************************************************************************)
(* RollingSource: one bulletin in a cube.                                  *)
(***************************************************************************)
Stages == {"resolve", "check", "open", "read", "recheck", "cube", "skipped", "failed"}
Seen == (0..StoreHorizon \cup {Unread}) \X BOOLEAN
ReadingType ==
  [layer : {"currents", "currents-ibi"}, named : 0..LastBulletin, override : BOOLEAN,
   at : Stages, cycle : Int, tries : Nat, seen : Seen,
   got : [Instants -> 0..LastBulletin \cup {Unread}]]

\* RollTypeOK, and the parts of the job it leaves out.
RollTypes == RollTypeOK /\ reading \in ReadingType

\* The axis is ahead of the values, and level with them unless an update runs.
AxisAhead ==
  \A i \in Instants :
    /\ store.held[i] <= store.axis
    /\ ~store.updating => store.held[i] = store.axis

\* A cycle that was checked is on the axis, whatever update began meanwhile.
Past == {"check", "open", "read", "recheck", "cube"}
CycleOnAxis == reading.at \in Past => reading.cycle <= store.axis

\* The state a job saw had no update running, and no update has ended before it.
SeenSettled ==
  reading.seen # Unchecked => ~reading.seen[2] /\ reading.seen[1] <= store.updated

\* From a check that was made, the values hold at least the cycle.
ValuesThere ==
  reading.at \in Past \ {"check"} /\ reading.seen # Unchecked =>
    \A i \in Instants :
      /\ store.held[i] >= reading.cycle
      /\ reading.got[i] # Unread => reading.got[i] >= reading.cycle

\* While the store is as the job saw it, all that was read is of the axis' bulletin.
SameSoFar ==
  /\ reading.at \in {"open", "read", "recheck"}
  /\ reading.seen # Unchecked
  /\ reading.seen[1] = store.updated /\ ~store.updating
  => \A i \in Instants : reading.got[i] \in {Unread, store.axis}

\* Nothing is read before the data are opened; what is returned was read in full.
ReadInOrder ==
  /\ reading.at \in {"resolve", "check", "open"} => \A i \in Instants : reading.got[i] = Unread
  /\ reading.at \in {"recheck", "cube"} => \A i \in Instants : reading.got[i] # Unread
  /\ reading.at \in {"resolve", "check"} => reading.seen = Unchecked

RollInv ==
  /\ RollTypes /\ AxisAhead /\ CycleOnAxis /\ SeenSettled /\ ValuesThere
  /\ SameSoFar /\ ReadInOrder /\ OneBulletin

\* The constants of a rolling store are positive numbers.
LEMMA RollNumbers ==
  /\ BulletinDay \in Nat \ {0} /\ LastBulletin \in Nat \ {0}
  /\ AuthTries \in Nat \ {0} /\ StoreHorizon \in Nat \ {0}
BY RollingConstants

\* The answers of arco_update_state.
LEMMA UpdateStatesAre ==
  \A s \in UpdateStates : s = <<store.updated, store.updating>> \/ s = Unchecked
BY Zenon DEF UpdateStates

\* What a job may see of the store.
LEMMA SeenTypes ==
  ASSUME RollTypes
  PROVE  /\ Unchecked \in Seen /\ <<store.updated, FALSE>> \in Seen
         /\ \A s \in UpdateStates : s \in Seen
<1>1. store.updated \in 0..StoreHorizon /\ store.updating \in BOOLEAN
  BY DEF RollTypes, RollTypeOK
<1>2. Unchecked \in Seen
  BY DEF Unchecked, Seen
<1>3. \A b \in BOOLEAN : <<store.updated, b>> \in Seen
  BY <1>1 DEF Seen
<1>4. QED
  BY <1>1, <1>2, <1>3, UpdateStatesAre, Zenon

\* What a step of the job does to the fields of what it is reading, at most.
Moved(a, c, s) ==
  /\ reading'.at = a /\ reading'.cycle = c /\ reading'.seen = s
  /\ reading'.got = reading.got /\ reading'.layer = reading.layer
  /\ reading' \in ReadingType

\* A job that goes to another stage keeps its cycle and what it has seen.
LEMMA MoveTo ==
  ASSUME reading \in ReadingType, NEW a \in Stages, reading' = [reading EXCEPT !.at = a]
  PROVE  Moved(a, reading.cycle, reading.seen)
BY DEF Moved, ReadingType

\* A job that has chosen its cycle goes on to the check.
LEMMA MoveCycle ==
  ASSUME reading \in ReadingType, NEW c \in Int,
         \/ reading' = [reading EXCEPT !.at = "check", !.cycle = c]
         \/ reading' = [reading EXCEPT !.at = "check", !.cycle = c, !.tries = 1]
  PROVE  Moved("check", c, reading.seen)
<1>1. "check" \in Stages
  BY DEF Stages
<1>2. CASE reading' = [reading EXCEPT !.at = "check", !.cycle = c]
  BY <1>1, <1>2 DEF Moved, ReadingType
<1>3. CASE reading' = [reading EXCEPT !.at = "check", !.cycle = c, !.tries = 1]
  BY <1>1, <1>3 DEF Moved, ReadingType
<1>4. QED
  BY <1>2, <1>3

\* A job that has read the axis goes on to open the store.
LEMMA MoveSeen ==
  ASSUME reading \in ReadingType, NEW s \in Seen,
         reading' = [reading EXCEPT !.at = "open", !.seen = s]
  PROVE  Moved("open", reading.cycle, s)
<1>1. "open" \in Stages
  BY DEF Stages
<1>2. QED
  BY <1>1 DEF Moved, ReadingType

\* One more try leaves the job where it is.
LEMMA MoveAgain ==
  ASSUME reading \in ReadingType, reading' = [reading EXCEPT !.tries = @ + 1]
  PROVE  Moved(reading.at, reading.cycle, reading.seen)
BY DEF Moved, ReadingType

\* The job's own steps, and those of the provider and the clock.
ProviderStep == UpdateBegins \/ UpdateEnds \/ DayTick \/ \E i \in Instants : Rewritten(i)

\* The provider's updates keep the types.
LEMMA ProviderTyped == RollTypes /\ ProviderStep => RollTypes'
<1> SUFFICES ASSUME RollTypes, ProviderStep PROVE RollTypes'
  OBVIOUS
<1> USE RollNumbers DEF RollTypes, RollTypeOK
<1>0. UNCHANGED reading
  BY DEF ProviderStep, UpdateBegins, UpdateEnds, DayTick, Rewritten
<1>1. CASE UpdateBegins
  <2>1. store.axis + 1 \in 0..LastBulletin
    BY <1>1 DEF UpdateBegins
  <2>2. QED
    BY <1>0, <1>1, <2>1 DEF UpdateBegins
<1>2. CASE UpdateEnds
  BY <1>0, <1>2 DEF UpdateEnds
<1>3. CASE DayTick
  BY <1>0, <1>3 DEF DayTick
<1>4. ASSUME NEW i \in Instants, Rewritten(i) PROVE RollTypes'
  BY <1>0, <1>4 DEF Rewritten
<1>5. QED
  BY <1>1, <1>2, <1>3, <1>4 DEF ProviderStep

\* The provider's side: its steps leave the job alone.
LEMMA ProviderKeeps == RollInv /\ ProviderStep => RollInv'
<1> SUFFICES ASSUME RollInv, ProviderStep PROVE RollInv'
  OBVIOUS
<1>0. RollTypes'
  BY ProviderTyped DEF RollInv
<1> USE RollNumbers DEF RollInv, RollTypes, RollTypeOK, Unread, Unchecked, ReadingAt, Ibi
<1>1. UNCHANGED reading
  BY DEF ProviderStep, UpdateBegins, UpdateEnds, DayTick, Rewritten
<1>2. /\ store'.axis >= store.axis /\ store'.updated >= store.updated
      /\ \A i \in Instants : store'.held[i] >= store.held[i]
      /\ AxisAhead'
      /\ store'.updating \/ store'.updated > store.updated \/ UNCHANGED store
  <2>1. CASE UpdateBegins
    BY <2>1 DEF UpdateBegins, AxisAhead
  <2>2. CASE UpdateEnds
    BY <2>2 DEF UpdateEnds, AxisAhead
  <2>3. CASE DayTick
    BY <2>3 DEF DayTick, AxisAhead
  <2>4. ASSUME NEW i \in Instants, Rewritten(i)
        PROVE  /\ store'.axis >= store.axis /\ store'.updated >= store.updated
               /\ \A k \in Instants : store'.held[k] >= store.held[k]
               /\ AxisAhead' /\ store'.updating
    BY <2>4 DEF Rewritten, AxisAhead
  <2>5. QED
    BY <2>1, <2>2, <2>3, <2>4 DEF ProviderStep
<1>3. CycleOnAxis' /\ SeenSettled'
  <2>1. CycleOnAxis'
    BY <1>0, <1>1, <1>2 DEF CycleOnAxis, ReadingType
  <2>2. SeenSettled'
    <3>1. store'.updated \in Nat /\ store.updated \in Nat
      BY <1>0
    <3>2. reading.seen # Unchecked => reading.seen[1] \in Int
      BY DEF ReadingType, Seen
    <3>3. QED
      BY <1>1, <1>2, <3>1, <3>2 DEF SeenSettled
  <2>3. QED
    BY <2>1, <2>2
<1>4. ReadInOrder' /\ OneBulletin'
  BY <1>1 DEF ReadInOrder, OneBulletin
<1>5. ValuesThere'
  BY <1>0, <1>1, <1>2 DEF ValuesThere, ReadingType
<1>6. SameSoFar'
  <2>1. CASE UNCHANGED store
    BY <1>1, <2>1 DEF SameSoFar
  <2>2. CASE store'.updating
    BY <1>1, <2>2 DEF SameSoFar
  <2>3. CASE store'.updated > store.updated
    <3>1. store'.updated \in Nat /\ store.updated \in Nat
      BY <1>0
    <3>2. reading.seen # Unchecked => reading.seen[1] # store'.updated
      BY <2>3, <3>1 DEF SeenSettled
    <3>3. QED
      BY <1>1, <3>2 DEF SameSoFar
  <2>4. QED
    BY <1>2, <2>1, <2>2, <2>3
<1>7. QED
  BY <1>0, <1>2, <1>3, <1>4, <1>5, <1>6

\* A job that stops, or tries again, has what it had.
LEMMA StopKeeps ==
  ASSUME RollInv, UNCHANGED <<today, store>>, NEW a \in {"skipped", "failed", reading.at},
         Moved(a, reading.cycle, reading.seen)
  PROVE  RollInv'
<1>1. RollTypes' /\ AxisAhead' /\ SeenSettled'
  BY DEF RollInv, RollTypes, RollTypeOK, ReadingType, Moved, AxisAhead, SeenSettled
<1>2. CASE a \in {"skipped", "failed"}
  BY <1>1, <1>2
  DEF RollInv, Moved, CycleOnAxis, ValuesThere, SameSoFar, ReadInOrder, OneBulletin, Past, ReadingAt
<1>3. CASE a = reading.at
  BY <1>1, <1>3
  DEF RollInv, Moved, CycleOnAxis, ValuesThere, SameSoFar, ReadInOrder, OneBulletin, ReadingAt, Ibi
<1>4. QED
  BY <1>2, <1>3

\* A cycle is chosen: it is on the axis, nothing is checked or read yet.
LEMMA ChoiceKeeps ==
  ASSUME RollInv, UNCHANGED <<today, store>>, reading.at = "resolve",
         NEW c \in Int, c <= store.axis, Moved("check", c, reading.seen)
  PROVE  RollInv'
<1>1. RollTypes' /\ AxisAhead' /\ SeenSettled'
  BY DEF RollInv, RollTypes, RollTypeOK, ReadingType, Moved, AxisAhead, SeenSettled
<1>2. CycleOnAxis' /\ ValuesThere' /\ SameSoFar' /\ ReadInOrder' /\ OneBulletin'
  BY DEF RollInv, Moved, CycleOnAxis, ValuesThere, SameSoFar, ReadInOrder, OneBulletin, ReadingAt
<1>3. QED
  BY <1>1, <1>2 DEF RollInv

\* The state is checked: as it is now, with no update running, or not at all.
LEMMA CheckKeeps ==
  ASSUME RollInv, UNCHANGED <<today, store>>, reading.at = "check",
         NEW s \in Seen, Moved("open", reading.cycle, s),
         s = Unchecked \/ (s = <<store.updated, FALSE>> /\ ~store.updating)
  PROVE  RollInv'
<1>0. /\ RollTypes /\ reading.cycle \in Int /\ reading.cycle <= store.axis
      /\ store.updated \in Nat /\ store.axis \in Nat
      /\ \A i \in Instants : reading.got[i] = Unread
  BY RollNumbers DEF RollInv, RollTypes, RollTypeOK, ReadingType, CycleOnAxis, Past, ReadInOrder
<1>1. RollTypes' /\ AxisAhead' /\ CycleOnAxis'
  BY <1>0
  DEF RollInv, RollTypes, RollTypeOK, ReadingType, Moved, AxisAhead, CycleOnAxis
<1>2. ReadInOrder' /\ OneBulletin' /\ SameSoFar'
  BY <1>0 DEF Moved, ReadInOrder, OneBulletin, SameSoFar, ReadingAt
<1>3. CASE s = Unchecked
  BY <1>1, <1>2, <1>3 DEF RollInv, Moved, SeenSettled, ValuesThere
<1>4. CASE s = <<store.updated, FALSE>> /\ ~store.updating
  <2>1. s[1] = store.updated /\ ~s[2]
    BY <1>4
  <2>2. SeenSettled'
    BY <1>0, <2>1 DEF Moved, SeenSettled
  <2>3. \A i \in Instants : store.held[i] >= reading.cycle
    BY <1>0, <1>4 DEF RollInv, AxisAhead
  <2>4. ValuesThere'
    BY <1>0, <2>3 DEF Moved, ValuesThere
  <2>5. QED
    BY <1>1, <1>2, <2>2, <2>4 DEF RollInv
<1>5. QED
  BY <1>3, <1>4

\* The data are opened, or read in full: values and state are as they were.
LEMMA OnwardKeeps ==
  ASSUME RollInv, UNCHANGED <<today, store>>, NEW a \in Stages,
         Moved(a, reading.cycle, reading.seen),
         \/ reading.at = "open" /\ a = "read"
         \/ reading.at = "read" /\ a \in {"recheck", "cube"} /\ AllRead
         \/ reading.at = "recheck" /\ a = "cube",
         a = "cube" /\ reading.seen # Unchecked /\ Ibi =>
           \A i, k \in Instants : reading.got[i] = reading.got[k]
  PROVE  RollInv'
<1>1. RollTypes' /\ AxisAhead' /\ SeenSettled'
  BY DEF RollInv, RollTypes, RollTypeOK, ReadingType, Moved, AxisAhead, SeenSettled
<1>2. CycleOnAxis' /\ SameSoFar'
  BY DEF RollInv, Moved, CycleOnAxis, SameSoFar, Past
<1>3. ReadInOrder'
  BY DEF RollInv, Moved, ReadInOrder, AllRead
<1>4. ValuesThere'
  BY DEF RollInv, Moved, ValuesThere, Past
<1>5. OneBulletin'
  <2>1. ASSUME a = "cube", reading.seen # Unchecked, NEW i \in Instants
        PROVE  reading.got[i] >= reading.cycle
    BY <2>1 DEF RollInv, ReadInOrder, ValuesThere, Past, AllRead
  <2>2. QED
    BY <2>1 DEF Moved, OneBulletin, ReadingAt, Ibi
<1>6. QED
  BY <1>1, <1>2, <1>3, <1>4, <1>5 DEF RollInv

\* An instant is read: what the store holds is at least the cycle, and of the axis'
\* bulletin while no update runs.
LEMMA ReadKeeps ==
  ASSUME RollInv, NEW i \in Instants, ReadInstant(i)
  PROVE  RollInv'
<1>0. /\ UNCHANGED <<today, store>> /\ reading.at = "read"
      /\ reading' = [reading EXCEPT !.got[i] = store.held[i]]
      /\ store.held[i] \in 0..LastBulletin /\ reading \in ReadingType /\ RollTypeOK
  BY DEF RollInv, RollTypes, RollTypeOK, ReadInstant, GoOn, ReadingAt
<1>1. /\ reading'.at = "read" /\ reading'.seen = reading.seen /\ reading'.cycle = reading.cycle
      /\ reading'.got = [reading.got EXCEPT ![i] = store.held[i]]
      /\ reading' \in ReadingType
  BY <1>0 DEF ReadingType
<1>2. \A k \in Instants : reading'.got[k] \in {reading.got[k], store.held[k]}
  BY <1>0, <1>1 DEF ReadingType
<1>3. RollTypes' /\ AxisAhead' /\ SeenSettled' /\ CycleOnAxis'
  BY <1>0, <1>1
  DEF RollInv, RollTypes, RollTypeOK, ReadingType, AxisAhead, SeenSettled, CycleOnAxis
<1>4. ReadInOrder' /\ OneBulletin'
  BY <1>1 DEF ReadInOrder, OneBulletin, ReadingAt
<1>5. ValuesThere'
  BY <1>0, <1>1, <1>2 DEF RollInv, ValuesThere
<1>6. SameSoFar'
  BY <1>0, <1>1, <1>2 DEF RollInv, SameSoFar, AxisAhead
<1>7. QED
  BY <1>3, <1>4, <1>5, <1>6 DEF RollInv

\* The job's side: the store stays as it is during a step of the job.
LEMMA JobKeeps == RollInv /\ [RollNext]_rollVars /\ ~ProviderStep => RollInv'
<1> SUFFICES ASSUME RollInv, [RollNext]_rollVars, ~ProviderStep PROVE RollInv'
  OBVIOUS
<1>a. reading \in ReadingType /\ RollTypes /\ RollTypeOK
  BY DEF RollInv, RollTypes
<1>b. ASSUME NotAvailable \/ SourceError PROVE RollInv'
  <2>1. PICK a \in {"skipped", "failed"} :
          reading' = [reading EXCEPT !.at = a] /\ UNCHANGED <<today, store>>
    BY <1>b DEF NotAvailable, SourceError, GoOn
  <2>2. QED
    BY <1>a, <2>1, MoveTo, StopKeeps DEF Stages
<1>1. CASE ResolvePublished
  <2>1. CASE PublishedInFull(Asked)
    <3>1. Asked \in Int /\ Asked <= store.axis
      BY <1>a, <2>1, RollNumbers
      DEF Asked, PublishedInFull, RollTypeOK, ReadingType
    <3>2. reading' = [reading EXCEPT !.at = "check", !.cycle = Asked] /\ UNCHANGED <<today, store>>
          /\ reading.at = "resolve"
      BY <1>1, <2>1 DEF ResolvePublished, GoOn, ReadingAt
    <3>3. QED
      BY <1>a, <3>1, <3>2, MoveCycle, ChoiceKeeps
  <2>2. CASE ~PublishedInFull(Asked)
    BY <1>1, <1>b, <2>2 DEF ResolvePublished
  <2>3. QED
    BY <2>1, <2>2
<1>2. CASE ResolveLatest
  <2>1. store.axis \in Int /\ store.axis <= store.axis
    BY <1>a, RollNumbers DEF RollTypeOK
  <2>2. reading' = [reading EXCEPT !.at = "check", !.cycle = store.axis, !.tries = 1]
        /\ UNCHANGED <<today, store>> /\ reading.at = "resolve"
    BY <1>2 DEF ResolveLatest, GoOn, ReadingAt
  <2>3. QED
    BY <1>a, <2>1, <2>2, MoveCycle, ChoiceKeeps
<1>3. CASE MetadataUnreadable \/ CatalogueUnavailable \/ ReadFails
  BY <1>b, <1>3 DEF MetadataUnreadable, CatalogueUnavailable, ReadFails
<1>4. CASE AuthFails
  <2>1. CASE GoOn([reading EXCEPT !.tries = @ + 1])
    BY <1>a, <2>1, MoveAgain, StopKeeps DEF GoOn
  <2>2. QED
    BY <1>b, <1>4, <2>1 DEF AuthFails
<1>5. CASE CheckIbi
  <2>1. PICK s \in UpdateStates :
          IF Settled(s, reading.cycle) THEN GoOn([reading EXCEPT !.at = "open", !.seen = s])
          ELSE NotAvailable
    BY <1>5 DEF CheckIbi
  <2>2. CASE ~Settled(s, reading.cycle)
    BY <1>b, <2>1, <2>2
  <2>3. CASE Settled(s, reading.cycle)
    <3>1. reading' = [reading EXCEPT !.at = "open", !.seen = s] /\ UNCHANGED <<today, store>>
          /\ reading.at = "check" /\ s \in Seen
      BY <1>a, <1>5, <2>1, <2>3, SeenTypes DEF CheckIbi, GoOn, ReadingAt
    <3>2. s = Unchecked \/ (s = <<store.updated, FALSE>> /\ ~store.updating)
      <4>1. ~s[2]
        BY <2>3 DEF Settled
      <4>2. CASE s = <<store.updated, store.updating>>
        <5>1. s[2] = store.updating /\ store.updating \in BOOLEAN
          BY <1>a, <4>2 DEF RollTypeOK
        <5>2. store.updating = FALSE
          BY <4>1, <5>1
        <5>3. QED
          BY <4>2, <5>2
      <4>3. QED
        BY <4>2, UpdateStatesAre, Zenon
    <3>3. QED
      BY <1>a, <3>1, <3>2, MoveSeen, CheckKeeps
  <2>4. QED
    BY <2>2, <2>3
<1>6. CASE CheckGlo12
  <2>1. CASE PublishedInFull(reading.cycle)
    <3>1. reading' = [reading EXCEPT !.at = "open", !.seen = <<store.updated, FALSE>>]
          /\ UNCHANGED <<today, store>> /\ reading.at = "check"
      BY <1>6, <2>1 DEF CheckGlo12, GoOn, ReadingAt
    <3>2. <<store.updated, FALSE>> \in Seen /\ ~store.updating
      BY <1>a, <2>1, SeenTypes DEF PublishedInFull
    <3>3. QED
      BY <1>a, <3>1, <3>2, MoveSeen, CheckKeeps
  <2>2. CASE ~PublishedInFull(reading.cycle)
    BY <1>b, <1>6, <2>2 DEF CheckGlo12
  <2>3. QED
    BY <2>1, <2>2
<1>7. CASE Open \/ ReadIbi
  <2>1. PICK a \in {"read", "recheck"} :
          /\ reading' = [reading EXCEPT !.at = a] /\ UNCHANGED <<today, store>>
          /\ \/ reading.at = "open" /\ a = "read"
             \/ reading.at = "read" /\ a = "recheck" /\ AllRead
    BY <1>7 DEF Open, ReadIbi, GoOn, ReadingAt
  <2>2. a \in Stages /\ a # "cube"
    BY DEF Stages
  <2>3. Moved(a, reading.cycle, reading.seen)
    BY <1>a, <2>1, <2>2, MoveTo
  <2>4. QED
    BY <2>1, <2>2, <2>3, OnwardKeeps
<1>8. CASE ReturnGlo12
  <2>1. reading' = [reading EXCEPT !.at = "cube"] /\ UNCHANGED <<today, store>>
        /\ reading.at = "read" /\ AllRead /\ ~Ibi
    BY <1>8 DEF ReturnGlo12, GoOn, Returned, ReadingAt
  <2>2. "cube" \in Stages
    BY DEF Stages
  <2>3. QED
    BY <1>a, <2>1, <2>2, MoveTo, OnwardKeeps
<1>9. CASE ReturnIbi
  <2>1. PICK s \in UpdateStates : IF SameUpdate(s) THEN GoOn(Returned) ELSE NotAvailable
    BY <1>9 DEF ReturnIbi
  <2>2. CASE ~SameUpdate(s)
    BY <1>b, <2>1, <2>2
  <2>3. CASE SameUpdate(s)
    <3>1. reading' = [reading EXCEPT !.at = "cube"] /\ UNCHANGED <<today, store>>
          /\ reading.at = "recheck" /\ "cube" \in Stages
      BY <1>9, <2>1, <2>3 DEF ReturnIbi, Returned, GoOn, ReadingAt, Stages
    <3>2. ASSUME reading.seen # Unchecked, NEW i \in Instants, NEW k \in Instants
          PROVE  reading.got[i] = reading.got[k]
      <4>1. reading.seen = <<store.updated, store.updating>>
        BY <2>3, <3>2, UpdateStatesAre, Zenon DEF SameUpdate
      <4>2. reading.seen[1] = store.updated /\ reading.seen[2] = store.updating
        BY <4>1
      <4>3. ~store.updating
        BY <3>2, <4>2 DEF RollInv, SeenSettled
      <4>4. reading.got[i] = store.axis /\ reading.got[k] = store.axis
        BY <3>1, <3>2, <4>2, <4>3 DEF RollInv, SameSoFar, ReadInOrder
      <4>5. QED
        BY <4>4
    <3>3. QED
      BY <1>a, <3>1, <3>2, MoveTo, OnwardKeeps
  <2>4. QED
    BY <2>2, <2>3
<1>10. ASSUME NEW i \in Instants, ReadInstant(i) PROVE RollInv'
  BY <1>10, ReadKeeps
<1>11. CASE UNCHANGED rollVars
  BY <1>11
  DEF rollVars, RollInv, RollTypes, RollTypeOK, AxisAhead, CycleOnAxis, SeenSettled, ValuesThere,
      SameSoFar, ReadInOrder, OneBulletin, ReadingAt, Ibi
<1>12. QED
  BY <1>1, <1>2, <1>3, <1>4, <1>5, <1>6, <1>7, <1>8, <1>9, <1>10, <1>11 DEF RollNext, ProviderStep

\* The inductive invariant of a rolling store and its readers.
LEMMA RollInvariant == RollSpec => []RollInv
<1>1. RollInit => RollInv
  <2> SUFFICES ASSUME RollInit PROVE RollInv
    OBVIOUS
  <2>3. reading.at = "resolve" /\ reading.seen = Unchecked
        /\ reading.got = [i \in Instants |-> Unread]
    BY DEF RollInit
  <2> USE RollNumbers DEF RollInit, Unnamed, Unread, Unchecked
  <2>1. RollTypes
    <3>1. Unchecked \in Seen
      BY DEF Seen
    <3>2. QED
      BY <3>1 DEF RollTypes, RollTypeOK, ReadingType, Stages
  <2>2. AxisAhead /\ CycleOnAxis /\ SeenSettled /\ ValuesThere /\ SameSoFar
    BY DEF AxisAhead, CycleOnAxis, SeenSettled, ValuesThere, SameSoFar, Past
  <2>4. QED
    BY <2>1, <2>2, <2>3 DEF RollInv, ReadInOrder, OneBulletin, ReadingAt
<1>2. RollInv /\ [RollNext]_rollVars => RollInv'
  BY ProviderKeeps, JobKeeps
<1>3. QED
  BY <1>1, <1>2, PTL DEF RollSpec

\* A cube that is returned holds no value older than the cycle it is labelled with, and an
\* IBI cube holds one bulletin, whenever updates of the store begin, rewrite its instants
\* and end during the read: build_cube's state before the data and its comparison with the
\* state after them (sources/ibi.py) are enough.
THEOREM CubesHoldOneBulletin == RollSpec => []OneBulletin
BY RollInvariant, PTL DEF RollInv

-----------------------------------------------------------------------------
(***************************************************************************)
(* IngestJob: what a job publishes, reports and waits for.                 *)
(***************************************************************************)
Done == {"release", "over"}
JobStages ==
  {"poll", "again", "resolve", "published", "acquire", "fetch", "validate", "recheck",
   "compare", "publish", "returned"} \cup Done
Outcomes ==
  {"published", "publication_failed", "failed", "paused", "source_changed", "run_cap_refused",
   "validation_rejected", "source_rejected", "already_published", "source_unavailable",
   "source_wait_expired"}
Reads == [0..FileCount -> Nat]

\* IngTypeOK, and the job.
JobType ==
  [opt : JobOptions, at : JobStages, wake : Nat, deadline : {WaitFor}, grace : Nat,
   unanswered : BOOLEAN, cycle : 0..2, file : 1..FileCount, tries : Nat, got : Reads,
   snap : Reads, committed : BOOLEAN, outcome : Outcomes, exit : {-1, 0, 1}]
IngTypes == IngTypeOK /\ job \in JobType

\* A run is committed by the last step before the report, which is written once.
CommittedLast ==
  /\ job.committed => job.at \in {"returned"} \cup Done /\ newest >= job.cycle
  /\ job.at = "returned" => job.committed
  /\ job.at \notin Done => job.outcome = "failed" /\ job.exit = -1

\* ReportTruth, from the moment the outcome is decided.
ReportDecided ==
  /\ job.outcome = "published" => job.committed /\ job.exit = 0
  /\ job.at \in Done /\ job.committed =>
       job.outcome \in {"published", "paused", "failed", "publication_failed"}
  /\ job.at \in Done /\ job.exit = 0 =>
       \/ job.outcome \in {"published", "already_published"} /\ newest >= job.cycle
       \/ job.outcome = "paused" /\ job.opt.paid
       \/ job.outcome = "source_unavailable" /\ job.opt.skips

\* No version is read that was not offered, and a version grows: what was read and is still
\* offered has been there all along.
Early == {"poll", "again", "resolve", "published", "acquire"}
Reading == {"fetch", "validate", "recheck", "compare"}
ReadWasOffered ==
  /\ job.at \in Early => job.got = NoneRead
  /\ job.at \in {"validate", "recheck"} => job.file = 1
  /\ job.at \in Reading => \A f \in 0..FileCount : job.got[f] <= Offered(f)
  /\ job.at = "compare" =>
       \A f \in 0..FileCount :
         /\ job.got[f] <= job.snap[f] /\ job.snap[f] <= Offered(f)
         /\ f < job.file => job.got[f] = job.snap[f]
  /\ job.at \in {"publish", "returned"} /\ job.opt.regional => job.got = job.snap
  /\ job.at \in Done => job.got = job.snap

\* A job that waits wakes at its deadline at the latest, and acts soon after it wakes; the
\* last check that found nothing was made then.
WaitsInTime ==
  /\ clock <= job.wake + SlowStep
  /\ job.at = "poll" => job.wake <= job.deadline
  /\ job.at = "again" =>
       /\ job.wake <= clock /\ job.wake <= job.deadline + SlowStep
       /\ job.unanswered \/ readyAt >= job.wake

JobInv ==
  /\ IngTypes /\ CommittedLast /\ ReportDecided /\ ReadWasOffered /\ WaitsInTime
  /\ WaitsItsTime

\* The constants of an ingest job are positive numbers.
LEMMA IngNumbers ==
  /\ FileCount \in Nat \ {0} /\ FileVersions \in Nat \ {0} /\ PollEvery \in Nat \ {0}
  /\ WaitFor \in Nat \ {0} /\ MissingGrace \in Nat \ {0} /\ MissingRetry \in Nat \ {0}
  /\ HttpTries \in Nat \ {0} /\ SlowStep \in Nat \ {0} /\ IngHorizon \in Nat \ {0}
BY IngestConstants

\* A pause is no longer than what is left of the wait.
LEMMA PauseFits ==
  ASSUME IngTypes, WaitLeft > 0
  PROVE  PollPause \in Nat /\ PollPause <= WaitLeft
<1> DEFINE S == {PollEvery, WaitLeft}
<1>1. PollEvery \in Int /\ WaitLeft \in Int
  BY IngNumbers DEF IngTypes, IngTypeOK, JobType, WaitLeft
<1>2. \E x \in S : \A y \in S : x <= y
  BY <1>1
<1>3. PollPause \in S /\ \A y \in S : PollPause <= y
  BY <1>2 DEF PollPause, Min
<1>4. QED
  BY <1>1, <1>3, IngNumbers

\* A job that goes on keeps its type, and wakes no earlier than it acts.
LEMMA BecomeTyped ==
  ASSUME IngTypes, NEW j \in JobType, Become(j)
  PROVE  job' \in JobType
<1>1. clock \in Nat /\ j.wake \in Nat
  BY IngNumbers DEF IngTypes, IngTypeOK, JobType
<1>2. (IF j.wake > clock THEN j.wake ELSE clock) \in Nat
  BY <1>1
<1>3. QED
  BY <1>2 DEF Become, JobType

\* A job that goes to another stage is a job.
LEMMA GoTyped ==
  ASSUME IngTypes, NEW s \in JobStages, Go(s)
  PROVE  job' \in JobType
<1>1. [job EXCEPT !.at = s] \in JobType
  BY DEF IngTypes, JobType
<1>2. QED
  BY <1>1, BecomeTyped DEF Go

\* The end of a job is the same for every outcome.
LEMMA QuitTyped ==
  ASSUME IngTypes, NEW o \in Outcomes, NEW e \in {-1, 0, 1}, Quit(o, e)
  PROVE  job' \in JobType
<1>1. "release" \in JobStages /\ NoneRead \in Reads /\ 1 \in 1..FileCount /\ 1 \in Nat
  BY IngNumbers DEF JobStages, Done, NoneRead, Reads
<1>2. [job EXCEPT !.at = "release", !.outcome = o, !.exit = e, !.got = NoneRead,
                  !.snap = NoneRead, !.file = 1, !.tries = 1] \in JobType
  BY <1>1 DEF IngTypes, JobType
<1>3. QED
  BY <1>2, BecomeTyped DEF Quit

\* A job that has resolved its cycle is a job.
LEMMA ResolvedTyped ==
  ASSUME IngTypes, NEW c \in 0..2, NEW g \in Nat, Resolved(c, g)
  PROVE  job' \in JobType
<1>1. "published" \in JobStages
  BY DEF JobStages
<1>2. [job EXCEPT !.at = "published", !.cycle = c, !.grace = g] \in JobType
  BY <1>1 DEF IngTypes, JobType
<1>3. QED
  BY <1>2, BecomeTyped DEF Resolved

\* What a job reads of its cycle are versions.
LEMMA OfferedTyped == IngTypes => \A f \in 0..FileCount : Offered(f) \in Nat
BY IngNumbers DEF IngTypes, IngTypeOK, Offered

\* Every step of a job and of its provider keeps the types.
LEMMA IngTypesKept == IngTypes /\ [IngNext]_ingVars => IngTypes'
<1> SUFFICES ASSUME IngTypes, [IngNext]_ingVars PROVE IngTypes'
  OBVIOUS
<1> USE IngNumbers
<1>1. IngTypeOK'
  <2>1. ASSUME NEW f \in 0..FileCount, ProviderWrites(f) PROVE IngTypeOK'
    <3>1. source[f] + 1 \in 0..FileVersions /\ clock \in 0..IngHorizon + 1
      BY <2>1 DEF ProviderWrites, IngTypes, IngTypeOK
    <3>2. readyAt' \in 0..IngHorizon + 1
      BY <2>1, <3>1 DEF ProviderWrites, IngTypes, IngTypeOK
    <3>3. QED
      BY <2>1, <3>1, <3>2 DEF ProviderWrites, IngTypes, IngTypeOK
  <2>2. ASSUME NEW c \in 1..2, OtherJob(c) PROVE IngTypeOK'
    BY <2>2 DEF OtherJob, IngTypes, IngTypeOK
  <2>3. CASE IngTick
    BY <2>3 DEF IngTick, IngTypes, IngTypeOK
  <2>4. CASE PublishRun
    <3>1. job.cycle \in 0..2
      BY DEF IngTypes, JobType
    <3>2. QED
      BY <2>4, <3>1 DEF PublishRun, IngTypes, IngTypeOK
  <2>5. CASE UNCHANGED outside
    BY <2>5 DEF outside, IngTypes, IngTypeOK
  <2>6. CASE UNCHANGED ingVars
    BY <2>6 DEF ingVars, IngTypes, IngTypeOK
  <2>7. QED
    BY <2>1, <2>2, <2>3, <2>4, <2>5, <2>6
    DEF IngNext, IngestStep, PollReady, PollNot, PollAgain, Resolve, ResolveRoot, ResolveRegional,
        NotThere, SourceRejected,
        AlreadyPublished, Acquire, FetchMeta, FetchFile, FetchAgain, NotFound, Validate,
        RecheckMeta, RecheckFile, PublishReturned, Alarm, Raised, Finally
<1>2. job' \in JobType
  <2> USE DEF Outcomes
  <2>1. CASE UNCHANGED job
    BY <2>1 DEF IngTypes
  <2>2. CASE PollReady
    <3>1. clock + MissingGrace \in Nat
      BY DEF IngTypes, IngTypeOK
    <3>2. QED
      BY <2>2, <3>1, ResolvedTyped DEF PollReady
  <2>3. CASE PollNot
    <3>1. "again" \in JobStages /\ (job.unanswered \/ CycleOut) \in BOOLEAN
      BY DEF JobStages
    <3>2. [job EXCEPT !.at = "again", !.unanswered = @ \/ CycleOut] \in JobType
      BY <3>1 DEF IngTypes, JobType
    <3>3. QED
      BY <2>3, <3>2, BecomeTyped DEF PollNot
  <2>4. CASE PollAgain
    <3>1. CASE WaitExpired
      BY <2>4, <3>1, QuitTyped DEF PollAgain
    <3>2. CASE ~WaitExpired
      <4>1. WaitLeft > 0
        BY <3>2 DEF WaitExpired, WaitLeft, IngTypes, IngTypeOK, JobType
      <4>2. clock + PollPause \in Nat /\ "poll" \in JobStages
        BY <4>1, PauseFits DEF JobStages, IngTypes, IngTypeOK
      <4>3. QED
        BY <2>4, <3>2, <4>2 DEF PollAgain, IngTypes, JobType
    <3>3. QED
      BY <3>1, <3>2
  <2>5. CASE Resolve
    BY <2>5, QuitTyped, ResolvedTyped DEF Resolve, ResolveRoot, ResolveRegional, NotThere
  <2>6. CASE SourceRejected \/ NotFound \/ Alarm \/ Raised \/ PublishReturned
    BY <2>6, QuitTyped DEF SourceRejected, NotFound, Alarm, Raised, PublishReturned, Reported
  <2>7. CASE AlreadyPublished \/ Acquire \/ Validate
    BY <2>7, QuitTyped, GoTyped DEF AlreadyPublished, Acquire, Validate, JobStages
  <2>8. CASE FetchMeta
    <3>1. [job.got EXCEPT ![0] = Offered(0)] \in Reads
      BY OfferedTyped DEF IngTypes, JobType, Reads
    <3>3. [job EXCEPT !.got[0] = Offered(0)] \in JobType
      BY <3>1 DEF IngTypes, JobType
    <3>2. QED
      BY <2>8, <3>3, BecomeTyped DEF FetchMeta
  <2>9. CASE FetchFile
    <3>0. job.file \in 1..FileCount
      BY DEF IngTypes, JobType
    <3>1. /\ (IF job.file < FileCount THEN job.file + 1 ELSE 1) \in 1..FileCount
          /\ (IF job.file < FileCount THEN "fetch" ELSE "validate") \in JobStages
      BY <3>0 DEF JobStages
    <3>4. [job.got EXCEPT ![job.file] = Offered(job.file)] \in Reads
      BY <3>0, OfferedTyped DEF IngTypes, JobType, Reads
    <3>2. [job EXCEPT !.got[job.file] = Offered(job.file), !.tries = 1,
                      !.file = IF job.file < FileCount THEN job.file + 1 ELSE 1,
                      !.at = IF job.file < FileCount THEN "fetch" ELSE "validate"] \in JobType
      BY <3>0, <3>1, <3>4 DEF IngTypes, JobType
    <3>3. QED
      BY <2>9, <3>2, BecomeTyped DEF FetchFile, FileRead
  <2>10. CASE FetchAgain
    <3>1. clock + MissingRetry \in Nat /\ clock + 1 \in Nat
      BY DEF IngTypes, IngTypeOK
    <3>2. [job EXCEPT !.wake = clock + MissingRetry] \in JobType
      BY <3>1 DEF IngTypes, JobType
    <3>3. Counted \in JobType
      <4>1. job.tries + 1 \in Nat
        BY DEF IngTypes, JobType
      <4>2. QED
        BY <3>1, <4>1 DEF Counted, IngTypes, JobType
    <3>4. QED
      BY <2>10, <3>2, <3>3, QuitTyped DEF FetchAgain
  <2>11. CASE RecheckMeta
    <3>1. "compare" \in JobStages
      BY DEF JobStages
    <3>4. [f \in 0..FileCount |-> Offered(f)] \in Reads
      BY OfferedTyped DEF Reads
    <3>2. [job EXCEPT !.at = "compare", !.snap = [f \in 0..FileCount |-> Offered(f)]]
            \in JobType
      BY <3>1, <3>4 DEF IngTypes, JobType
    <3>3. QED
      BY <2>11, <3>2, QuitTyped, BecomeTyped DEF RecheckMeta
  <2>12. CASE RecheckFile
    <3>0. job.file \in 1..FileCount
      BY DEF IngTypes, JobType
    <3>1. /\ (IF job.file < FileCount THEN job.file + 1 ELSE 1) \in 1..FileCount
          /\ (IF job.file < FileCount THEN "compare" ELSE "publish") \in JobStages
      BY <3>0 DEF JobStages
    <3>2. [job EXCEPT !.file = IF @ < FileCount THEN @ + 1 ELSE 1,
                      !.at = IF job.file < FileCount THEN "compare" ELSE "publish"]
            \in JobType
      BY <3>1 DEF IngTypes, JobType
    <3>3. QED
      BY <2>12, <3>2, QuitTyped, BecomeTyped DEF RecheckFile
  <2>13. CASE PublishRun
    <3>1. [job EXCEPT !.at = "returned", !.committed = TRUE] \in JobType
      BY DEF IngTypes, JobType, JobStages
    <3>2. QED
      BY <2>13, <3>1, QuitTyped, BecomeTyped DEF PublishRun
  <2>14. CASE Finally
    <3>1. "over" \in JobStages
      BY DEF JobStages, Done
    <3>2. QED
      BY <2>14, <3>1, GoTyped DEF Finally
  <2>15. QED
    BY <2>1, <2>2, <2>3, <2>4, <2>5, <2>6, <2>7, <2>8, <2>9, <2>10, <2>11, <2>12, <2>13, <2>14
    DEF IngNext, IngestStep, IngTick, ProviderWrites, OtherJob, ingVars
<1>3. QED
  BY <1>1, <1>2 DEF IngTypes


\* Whatever ends a job before its commit keeps every promise, if what it reports is true.
LEMMA QuitKeeps ==
  ASSUME JobInv, IngTypes', NEW o \in Outcomes, NEW e \in {0, 1}, Quit(o, e), UNCHANGED outside,
         o # "source_wait_expired", job.at \notin Done,
         o = "published" => job.committed /\ e = 0,
         job.committed => o \in {"published", "paused", "failed", "publication_failed"},
         e = 0 => \/ o \in {"published", "already_published"} /\ newest >= job.cycle
                  \/ o = "paused" /\ job.opt.paid
                  \/ o = "source_unavailable" /\ job.opt.skips
  PROVE  JobInv'
<1>1. /\ job'.at = "release" /\ job'.outcome = o /\ job'.exit = e /\ job'.got = NoneRead
      /\ job'.snap = NoneRead /\ job'.committed = job.committed /\ job'.opt = job.opt
      /\ job'.cycle = job.cycle /\ job'.deadline = job.deadline
      /\ job'.wake = IF job.wake > clock THEN job.wake ELSE clock
  BY DEF Quit, Become, JobInv, IngTypes, JobType
<1>2. clock \in Nat /\ job.wake \in Nat
  BY DEF JobInv, IngTypes, IngTypeOK, JobType
<1>3. CommittedLast' /\ ReportDecided'
  BY <1>1 DEF JobInv, CommittedLast, ReportDecided, Done, outside
<1>4. ReadWasOffered'
  BY <1>1 DEF ReadWasOffered, Early, Reading, Done
<1>5. WaitsInTime' /\ WaitsItsTime'
  BY <1>1, <1>2, IngNumbers DEF JobInv, WaitsInTime, WaitsItsTime, outside
<1>6. QED
  BY <1>3, <1>4, <1>5 DEF JobInv

\* A step that neither publishes nor ends the job.
GoesOn ==
  /\ UNCHANGED outside
  /\ job.at \notin Done \cup {"returned"} /\ job'.at \notin Done \cup {"returned"}
  /\ job'.committed = job.committed /\ job'.outcome = job.outcome /\ job'.exit = job.exit
  /\ job'.opt = job.opt /\ job'.deadline = job.deadline

\* A job that goes on and has reported nothing keeps the invariant.
LEMMA GoingOnKeeps ==
  ASSUME JobInv, IngTypes', GoesOn, ReadWasOffered',
         clock <= job'.wake + SlowStep,
         job'.at = "poll" => job'.wake <= job.deadline,
         job'.at = "again" => /\ job'.wake = clock /\ clock <= job.deadline + SlowStep
                              /\ job'.unanswered \/ readyAt >= clock
  PROVE  JobInv'
<1>1. CommittedLast' /\ ReportDecided'
  BY DEF GoesOn, JobInv, CommittedLast, ReportDecided, Done, outside
<1>2. WaitsInTime' /\ WaitsItsTime'
  <2>1. clock \in Nat
    BY DEF JobInv, IngTypes, IngTypeOK
  <2>2. QED
    BY <2>1 DEF GoesOn, JobInv, CommittedLast, WaitsInTime, WaitsItsTime, outside
<1>3. QED
  BY <1>1, <1>2 DEF JobInv

\* The steps of the provider, of other jobs and of the clock, while the job is at work.
LEMMA AroundTheJob ==
  ASSUME JobInv, IngTypes', job.at \notin Done, UNCHANGED job,
         \/ IngTick
         \/ \E f \in 0..FileCount : ProviderWrites(f)
         \/ \E c \in 1..2 : OtherJob(c)
  PROVE  JobInv'
<1> DEFINE Moves ==
      /\ clock <= clock' /\ clock' <= job.wake + SlowStep
      /\ newest <= newest'
      /\ \A f \in 0..FileCount : source[f] <= source'[f]
      /\ readyAt # readyAt' => readyAt' = clock
<1>0. /\ clock \in Nat /\ newest \in Nat /\ source \in [0..FileCount -> Nat]
      /\ job.wake \in Nat /\ clock <= job.wake + SlowStep
      /\ clock' \in Nat /\ source' \in [0..FileCount -> Nat]
  <2>1. /\ clock \in Nat /\ newest \in Nat /\ source \in [0..FileCount -> Nat]
        /\ clock' \in Nat /\ source' \in [0..FileCount -> Nat]
    BY IngNumbers DEF JobInv, IngTypes, IngTypeOK
  <2>2. job.wake \in Nat /\ clock <= job.wake + SlowStep
    BY DEF JobInv, IngTypes, JobType, WaitsInTime
  <2>3. QED
    BY <2>1, <2>2
<1>1. Moves
  <2>1. CASE IngTick
    BY <1>0, <2>1, IngNumbers DEF IngTick
  <2>2. ASSUME NEW f \in 0..FileCount, ProviderWrites(f) PROVE Moves
    BY <1>0, <2>2, IngNumbers DEF ProviderWrites
  <2>3. ASSUME NEW c \in 1..2, OtherJob(c) PROVE Moves
    BY <1>0, <2>3 DEF OtherJob
  <2>4. QED
    BY <2>1, <2>2, <2>3
<1>3. CommittedLast' /\ ReportDecided'
  BY <1>1 DEF JobInv, CommittedLast, ReportDecided, IngTypes, IngTypeOK, JobType
<1>4. ReadWasOffered'
  <2>1. job.got \in Reads /\ job.snap \in Reads
    BY DEF JobInv, IngTypes, JobType
  <2>2. ASSUME NEW f \in 0..FileCount
        PROVE  /\ job.got[f] <= source[f] => job.got[f] <= source'[f]
               /\ job.snap[f] <= source[f] => job.snap[f] <= source'[f]
    <3>1. job.got[f] \in Nat /\ job.snap[f] \in Nat /\ source[f] \in Nat /\ source'[f] \in Nat
      BY <1>0, <2>1 DEF Reads
    <3>2. QED
      BY <1>1, <3>1
  <2>3. job' = job
    OBVIOUS
  <2>4. QED
    BY <2>2, <2>3 DEF JobInv, ReadWasOffered, Offered
<1>5. WaitsInTime' /\ WaitsItsTime'
  <2>1. job.outcome # "source_wait_expired"
    BY DEF JobInv, CommittedLast
  <2>2. job.at = "again" => job.unanswered \/ readyAt' >= job.wake
    BY <1>1, IngNumbers DEF JobInv, WaitsInTime, IngTypes, IngTypeOK, JobType
  <2>3. job.at = "again" => clock' >= job.wake
    BY <1>0, <1>1 DEF JobInv, WaitsInTime
  <2>4. job' = job
    OBVIOUS
  <2>5. QED
    BY <1>1, <2>1, <2>2, <2>3, <2>4 DEF JobInv, WaitsInTime, WaitsItsTime
<1>6. QED
  BY <1>3, <1>4, <1>5 DEF JobInv


\* So does one that goes on without a wait, or is done with it.
LEMMA ActsNowKeeps ==
  ASSUME JobInv, IngTypes', GoesOn, ReadWasOffered', job'.wake = clock,
         job'.at \notin {"poll", "again"}
  PROVE  JobInv'
<1>1. clock <= clock + SlowStep
  BY IngNumbers DEF JobInv, IngTypes, IngTypeOK
<1>2. QED
  BY <1>1, GoingOnKeeps

\* Every step of a job and of its provider keeps the invariant.
LEMMA JobKeepsWord == JobInv /\ IngTypes' /\ [IngNext]_ingVars => JobInv'
<1> SUFFICES ASSUME JobInv, IngTypes', [IngNext]_ingVars PROVE JobInv'
  OBVIOUS
<1>0. /\ IngTypes /\ CommittedLast /\ ReportDecided /\ ReadWasOffered /\ WaitsInTime /\ WaitsItsTime
  BY DEF JobInv
<1>a. clock \in Nat /\ newest \in 0..2
  BY <1>0, IngNumbers DEF IngTypes, IngTypeOK
<1>b. /\ job \in JobType /\ job.wake \in Nat /\ job.got \in Reads /\ job.snap \in Reads
      /\ job.at \in JobStages /\ job.opt \in JobOptions /\ job.deadline \in Nat
      /\ job.file \in 1..FileCount
  BY <1>0, IngNumbers DEF IngTypes, JobType
<1> USE DEF Outcomes
<1>1. CASE /\ job.at \notin Done
           /\ IngTick \/ (\E f \in 0..FileCount : ProviderWrites(f)) \/ \E c \in 1..2 : OtherJob(c)
  BY <1>1, AroundTheJob DEF IngTick, ProviderWrites, OtherJob
<1>2. CASE UNCHANGED ingVars
  BY <1>0, <1>2 DEF ingVars, JobInv, CommittedLast, ReportDecided, ReadWasOffered, WaitsInTime,
     WaitsItsTime, Offered
<1>3. CASE PollReady
  <2>1. GoesOn /\ job'.wake = clock /\ job'.at = "published" /\ job'.got = job.got
    BY <1>3, <1>a, <1>b DEF PollReady, Resolved, Become, JobAt, GoesOn, Done, JobType
  <2>2. ReadWasOffered'
    BY <1>3, <1>0, <2>1 DEF PollReady, JobAt, ReadWasOffered, Early, Reading, Done
  <2>3. QED
    BY <2>1, <2>2, ActsNowKeeps
<1>4. CASE PollNot
  <2>1. GoesOn /\ job'.wake = clock /\ job'.at = "again" /\ job'.got = job.got
        /\ job'.unanswered = (job.unanswered \/ CycleOut) /\ job.at = "poll"
    BY <1>4, <1>a, <1>b DEF PollNot, Become, JobAt, GoesOn, Done, JobType
  <2>2. ReadWasOffered'
    BY <1>0, <2>1 DEF ReadWasOffered, Early, Reading, Done
  <2>3. job'.unanswered \/ readyAt >= clock
    <3>1. CycleOut \/ readyAt >= clock
      BY <1>0, <1>a DEF CycleOut, IngTypes, IngTypeOK
    <3>2. QED
      BY <2>1, <3>1, Zenon
  <2>4. QED
    BY <1>0, <1>a, <1>b, <2>1, <2>2, <2>3, IngNumbers, GoingOnKeeps DEF WaitsInTime
<1>5. CASE PollAgain
  <2>1. CASE WaitExpired
    <3>1. Quit("source_wait_expired", 1) /\ UNCHANGED outside /\ clock >= job.wake
          /\ job.at = "again"
      BY <1>5, <2>1 DEF PollAgain, JobAt
    <3>2. /\ job'.at = "release" /\ job'.outcome = "source_wait_expired" /\ job'.exit = 1
          /\ job'.got = NoneRead /\ job'.snap = NoneRead /\ job'.committed = job.committed
          /\ job'.deadline = job.deadline /\ job'.unanswered = job.unanswered /\ job'.wake = clock
      BY <3>1, <1>a, <1>b DEF Quit, Become, JobType
    <3>3. CommittedLast' /\ ReportDecided'
      BY <1>0, <3>1, <3>2 DEF CommittedLast, ReportDecided, Done, outside
    <3>4. ReadWasOffered'
      BY <3>2 DEF ReadWasOffered, Early, Reading, Done
    <3>5. /\ clock >= job.deadline /\ clock <= job.deadline + 2 * SlowStep
          /\ job.unanswered \/ readyAt >= job.deadline - SlowStep
      <4>1. clock >= job.deadline /\ clock <= job.wake + SlowStep
            /\ job.wake <= job.deadline + SlowStep
        BY <1>0, <1>a, <1>b, <2>1, <3>1 DEF WaitExpired, WaitLeft, WaitsInTime
      <4>2. readyAt >= job.wake => readyAt >= job.deadline - SlowStep
        BY <1>0, <1>b, <4>1, IngNumbers DEF IngTypes, IngTypeOK
      <4>3. QED
        BY <1>0, <1>a, <1>b, <3>1, <4>1, <4>2, IngNumbers DEF WaitsInTime
    <3>6. WaitsInTime' /\ WaitsItsTime'
      BY <1>a, <3>1, <3>2, <3>5, IngNumbers DEF WaitsInTime, WaitsItsTime, outside
    <3>7. QED
      BY <3>3, <3>4, <3>6 DEF JobInv
  <2>2. CASE ~WaitExpired
    <3>1. WaitLeft > 0
      BY <1>a, <1>b, <2>2 DEF WaitExpired, WaitLeft
    <3>2. PollPause \in Nat /\ PollPause <= WaitLeft
      BY <1>0, <3>1, PauseFits
    <3>3. GoesOn /\ job'.at = "poll" /\ job'.wake = clock + PollPause /\ job'.got = job.got
          /\ job.at = "again"
      BY <1>5, <1>b, <2>2 DEF PollAgain, JobAt, GoesOn, Done, JobType
    <3>4. ReadWasOffered'
      BY <1>0, <3>3 DEF ReadWasOffered, Early, Reading, Done
    <3>5. clock <= job'.wake + SlowStep /\ job'.wake <= job.deadline
      BY <1>a, <1>b, <3>2, <3>3, IngNumbers DEF WaitLeft
    <3>6. QED
      BY <3>3, <3>4, <3>5, GoingOnKeeps
  <2>3. QED
    BY <2>1, <2>2
<1>6. CASE Resolve
  <2>1. CASE \E c \in 1..2 : Resolved(c, 0)
    <3>1. GoesOn /\ job'.wake = clock /\ job'.at = "published" /\ job'.got = job.got
          /\ job.at = "resolve"
      BY <1>6, <1>a, <1>b, <2>1 DEF Resolve, ResolveRoot, ResolveRegional, NotThere, Resolved,
         Become, JobAt, GoesOn, Done, JobType
    <3>2. ReadWasOffered'
      BY <1>0, <3>1 DEF ReadWasOffered, Early, Reading, Done
    <3>3. QED
      BY <3>1, <3>2, ActsNowKeeps
  <2>2. CASE Quit("source_unavailable", IF job.opt.skips THEN 0 ELSE 1)
    BY <1>0, <1>6, <2>2, QuitKeeps DEF Resolve, ResolveRoot, ResolveRegional, NotThere,
       CommittedLast, Done, JobAt
  <2>3. QED
    BY <1>6, <2>1, <2>2 DEF Resolve, ResolveRoot, ResolveRegional, NotThere
<1>7. CASE SourceRejected \/ NotFound \/ Alarm \/ Raised
  BY <1>7, <1>0, QuitKeeps DEF SourceRejected, NotFound, Alarm, Raised, CommittedLast, Done, JobAt
<1>8. CASE AlreadyPublished
  <2>1. CASE Go("acquire")
    <3>1. GoesOn /\ job'.wake = clock /\ job'.at = "acquire" /\ job'.got = job.got
          /\ job.at = "published"
      BY <1>8, <1>a, <1>b, <2>1 DEF AlreadyPublished, Go, Become, JobAt, GoesOn, Done, JobType
    <3>2. ReadWasOffered'
      BY <1>0, <3>1 DEF ReadWasOffered, Early, Reading, Done
    <3>3. QED
      BY <3>1, <3>2, ActsNowKeeps
  <2>2. CASE ~Go("acquire")
    BY <1>0, <1>8, <2>2, QuitKeeps DEF AlreadyPublished, PublishedAlready, CommittedLast, Done,
       JobAt
  <2>3. QED
    BY <2>1, <2>2
<1>9. CASE Acquire
  <2>1. CASE Go("fetch")
    <3>1. GoesOn /\ job'.wake = clock /\ job'.at = "fetch" /\ job'.got = job.got
          /\ job'.cycle = job.cycle /\ job.at = "acquire"
      BY <1>9, <1>a, <1>b, <2>1 DEF Acquire, Go, Become, JobAt, GoesOn, Done, JobType
    <3>2. job.got = NoneRead /\ source' = source /\ source \in [0..FileCount -> Nat]
      BY <1>0, <3>1, IngNumbers
      DEF ReadWasOffered, Early, GoesOn, outside, IngTypes, IngTypeOK
    <3>3. ReadWasOffered'
      BY <3>1, <3>2 DEF ReadWasOffered, Early, Reading, Done, NoneRead, Offered
    <3>4. QED
      BY <3>1, <3>3, ActsNowKeeps
  <2>2. CASE ~Go("fetch")
    BY <1>0, <1>9, <2>2, QuitKeeps DEF Acquire, CommittedLast, Done, JobAt
  <2>3. QED
    BY <2>1, <2>2
<1>10. CASE FetchMeta
  <2>1. GoesOn /\ job'.wake = clock /\ job.at = "fetch" /\ job'.at = "fetch"
        /\ job'.got = [job.got EXCEPT ![0] = Offered(0)]
        /\ job'.cycle = job.cycle /\ source' = source
    BY <1>10, <1>a, <1>b DEF FetchMeta, Become, JobAt, GoesOn, Done, JobType, outside
  <2>2. \A f \in 0..FileCount : job'.got[f] <= Offered(f)
    BY <1>0, <1>b, <2>1, OfferedTyped DEF Reads, ReadWasOffered, Reading
  <2>3. ReadWasOffered'
    BY <2>1, <2>2 DEF ReadWasOffered, Early, Reading, Done, Offered
  <2>4. QED
    BY <2>1, <2>3, ActsNowKeeps
<1>11. CASE FetchFile
  <2>1. GoesOn /\ job'.wake = clock /\ job.at = "fetch"
        /\ job'.got = [job.got EXCEPT ![job.file] = Offered(job.file)]
        /\ \/ job'.at = "fetch"
           \/ job'.at = "validate" /\ job'.file = 1
        /\ job'.cycle = job.cycle /\ source' = source
    BY <1>11, <1>a, <1>b DEF FetchFile, FileRead, Become, JobAt, GoesOn, Done, JobType, outside
  <2>2. \A f \in 0..FileCount : job'.got[f] <= Offered(f)
    BY <1>0, <1>b, <2>1, OfferedTyped DEF Reads, ReadWasOffered, Reading
  <2>3. ReadWasOffered'
    BY <2>1, <2>2 DEF ReadWasOffered, Early, Reading, Done, Offered
  <2>4. QED
    BY <2>1, <2>3, ActsNowKeeps
<1>12. CASE FetchAgain
  <2>1. job.at = "fetch" /\ UNCHANGED outside
    BY <1>12 DEF FetchAgain, JobAt
  <2>2. CASE job' = [job EXCEPT !.wake = clock + MissingRetry] \/ job' = Counted
    <3>1. /\ \E w \in Nat : w >= clock /\ job'.wake = w
          /\ job'.at = job.at /\ job'.got = job.got /\ job'.cycle = job.cycle
          /\ job'.committed = job.committed /\ job'.outcome = job.outcome
          /\ job'.exit = job.exit /\ job'.opt = job.opt /\ job'.deadline = job.deadline
      <4>1. CASE job' = [job EXCEPT !.wake = clock + MissingRetry]
        BY <1>a, <1>b, <4>1, IngNumbers DEF JobType
      <4>2. CASE job' = Counted
        BY <1>a, <1>b, <4>2, IngNumbers DEF Counted, JobType
      <4>3. QED
        BY <2>2, <4>1, <4>2
    <3>2. ReadWasOffered'
      BY <1>0, <2>1, <3>1 DEF ReadWasOffered, Early, Reading, Done, Offered, outside
    <3>3. GoesOn
      BY <2>1, <3>1 DEF GoesOn, Done
    <3>4. QED
      BY <1>a, <2>1, <3>1, <3>2, <3>3, IngNumbers, GoingOnKeeps
  <2>3. CASE Quit("failed", 1)
    BY <1>0, <2>1, <2>3, QuitKeeps DEF CommittedLast, Done
  <2>4. QED
    BY <1>12, <2>2, <2>3 DEF FetchAgain
<1>13. CASE Validate
  <2>1. CASE Go(IF job.opt.regional THEN "recheck" ELSE "publish")
    <3>1. GoesOn /\ job'.wake = clock /\ job.at = "validate" /\ job'.got = job.got
          /\ job'.at = (IF job.opt.regional THEN "recheck" ELSE "publish")
          /\ job'.opt = job.opt
          /\ job'.file = job.file /\ job'.cycle = job.cycle /\ source' = source
      BY <1>13, <1>a, <1>b, <2>1 DEF Validate, Go, Become, JobAt, GoesOn, Done, JobType, outside
    <3>2. ReadWasOffered'
      BY <1>0, <3>1 DEF ReadWasOffered, Early, Reading, Done, Offered
    <3>3. QED
      BY <1>a, <3>1, <3>2, IngNumbers, GoingOnKeeps DEF Done
  <2>2. CASE \E o \in {"validation_rejected", "run_cap_refused"} : Quit(o, 1)
    BY <1>0, <1>13, <2>2, QuitKeeps DEF Validate, CommittedLast, Done, JobAt
  <2>3. QED
    BY <1>13, <2>1, <2>2 DEF Validate
<1>14. CASE RecheckMeta
  <2>1. CASE Quit("source_changed", 1)
    BY <1>0, <1>14, <2>1, QuitKeeps DEF RecheckMeta, CommittedLast, Done, JobAt
  <2>2. CASE /\ Offered(0) = job.got[0]
             /\ Become([job EXCEPT !.at = "compare",
                                   !.snap = [f \in 0..FileCount |-> Offered(f)]])
    <3>1. job.at = "recheck" /\ clock >= job.wake /\ UNCHANGED outside
      BY <1>14 DEF RecheckMeta, JobAt
    <3>2. /\ job'.wake = clock /\ job'.at = "compare" /\ job'.got = job.got
          /\ job'.snap = [f \in 0..FileCount |-> Offered(f)]
          /\ job'.file = job.file /\ job'.cycle = job.cycle
          /\ job'.committed = job.committed /\ job'.outcome = job.outcome
          /\ job'.exit = job.exit /\ job'.opt = job.opt /\ job'.deadline = job.deadline
      BY <1>a, <1>b, <2>2, <3>1 DEF Become, JobType
    <3>3. job.file = 1 /\ \A f \in 0..FileCount : job.got[f] <= Offered(f)
      BY <1>0, <3>1 DEF ReadWasOffered, Reading
    <3>4. \A f \in 0..FileCount :
            /\ job'.got[f] <= job'.snap[f] /\ job'.snap[f] = Offered(f)
            /\ f < 1 => job'.got[f] = job'.snap[f]
      <4>1. ASSUME NEW f \in 0..FileCount PROVE job'.snap[f] = Offered(f) /\ (f < 1 => f = 0)
        <5>1. job'.snap[f] = Offered(f)
          BY <3>2
        <5>2. f \in Nat
          BY IngNumbers
        <5>3. QED
          BY <5>1, <5>2
      <4>2. QED
        BY <2>2, <3>2, <3>3, <4>1
    <3>5. \A f \in 0..FileCount : Offered(f) \in Nat /\ job'.got[f] \in Nat
      BY <1>0, <1>b, <3>2, OfferedTyped DEF Reads
    <3>6. ReadWasOffered'
      <4>1. \A f \in 0..FileCount : job'.got[f] <= Offered(f) /\ job'.snap[f] <= Offered(f)
        BY <3>4, <3>5
      <4>2. QED
        BY <3>1, <3>2, <3>3, <3>4, <4>1
        DEF ReadWasOffered, Early, Reading, Done, Offered, outside
    <3>7. GoesOn
      BY <3>1, <3>2 DEF GoesOn, Done
    <3>8. QED
      BY <3>2, <3>6, <3>7, ActsNowKeeps
  <2>3. QED
    BY <1>14, <2>1, <2>2 DEF RecheckMeta
<1>15. CASE RecheckFile
  <2>0. job.at = "compare" /\ clock >= job.wake /\ UNCHANGED outside
    BY <1>15 DEF RecheckFile, JobAt
  <2>1. CASE Quit("source_changed", 1)
    BY <1>0, <1>15, <2>1, QuitKeeps DEF RecheckFile, CommittedLast, Done, JobAt
  <2>2. CASE /\ Offered(job.file) = job.got[job.file]
             /\ Become([job EXCEPT
                  !.file = IF @ < FileCount THEN @ + 1 ELSE 1,
                  !.at = IF job.file < FileCount THEN "compare" ELSE "publish"])
    <3>0. /\ job'.wake = clock /\ job'.got = job.got /\ job'.snap = job.snap
          /\ job'.file = (IF job.file < FileCount THEN job.file + 1 ELSE 1)
          /\ job'.at = (IF job.file < FileCount THEN "compare" ELSE "publish")
          /\ job'.cycle = job.cycle
          /\ job'.committed = job.committed /\ job'.outcome = job.outcome
          /\ job'.exit = job.exit /\ job'.opt = job.opt /\ job'.deadline = job.deadline
      <4>1. job' = [job EXCEPT !.file = IF job.file < FileCount THEN job.file + 1 ELSE 1,
                               !.at = IF job.file < FileCount THEN "compare" ELSE "publish",
                               !.wake = IF job.wake > clock THEN job.wake ELSE clock]
        BY <1>b, <2>2 DEF Become, JobType
      <4>2. QED
        <5>1. (IF job.wake > clock THEN job.wake ELSE clock) = clock
          BY <1>a, <1>b, <2>0
        <5>2. QED
          BY <1>b, <4>1, <5>1 DEF JobType
    <3>1. GoesOn /\ job'.at \notin {"poll", "again"}
      BY <2>0, <3>0 DEF GoesOn, Done
    <3>2. \A f \in 0..FileCount :
            /\ job.got[f] <= Offered(f) /\ job.got[f] <= job.snap[f] /\ job.snap[f] <= Offered(f)
            /\ f < job.file => job.got[f] = job.snap[f]
      BY <1>0, <2>0 DEF ReadWasOffered, Reading
    <3>3. job.got[job.file] = job.snap[job.file]
      <4>1. job.file \in 0..FileCount
        BY <1>b, IngNumbers
      <4>2. job.got[job.file] \in Nat /\ job.snap[job.file] \in Nat
        BY <1>b, <4>1 DEF Reads
      <4>3. QED
        BY <2>2, <3>2, <4>1, <4>2
    <3>4. CASE job.file < FileCount
      <4>1. ASSUME NEW f \in 0..FileCount, f < job'.file PROVE job.got[f] = job.snap[f]
        <5>1. f < job.file \/ f = job.file
          <6>1. job'.file = job.file + 1 /\ job.file \in Int /\ f \in Int
            BY <1>b, <3>0, <3>4
          <6>2. QED
            BY <4>1, <6>1
        <5>2. QED
          BY <3>2, <3>3, <5>1
      <4>2. ReadWasOffered'
        BY <2>0, <3>0, <3>2, <3>4, <4>1 DEF ReadWasOffered, Early, Reading, Done, Offered, outside
      <4>3. QED
        BY <3>0, <3>1, <4>2, ActsNowKeeps
    <3>5. CASE ~(job.file < FileCount)
      <4>1. \A f \in 0..FileCount : job.got[f] = job.snap[f]
        BY <1>b, <3>2, <3>3, <3>5, IngNumbers
      <4>2. job.got = job.snap
        <5>1. job.got = [f \in 0..FileCount |-> job.got[f]]
              /\ job.snap = [f \in 0..FileCount |-> job.snap[f]]
          BY <1>b DEF Reads
        <5>2. QED
          BY <4>1, <5>1
      <4>3. ReadWasOffered'
        BY <3>0, <3>5, <4>2 DEF ReadWasOffered, Early, Reading, Done, Offered
      <4>4. QED
        BY <3>0, <3>1, <4>3, ActsNowKeeps
    <3>6. QED
      BY <3>4, <3>5
  <2>3. QED
    BY <1>15, <2>1, <2>2 DEF RecheckFile, SameFile
<1>16. CASE PublishRun
  <2>1. CASE Quit("publication_failed", 1) /\ UNCHANGED newest
    <3>1. UNCHANGED outside
      BY <1>16, <2>1 DEF PublishRun, outside
    <3>2. QED
      BY <1>0, <1>16, <2>1, <3>1, QuitKeeps DEF PublishRun, CommittedLast, Done, JobAt
  <2>2. CASE /\ newest' = job.cycle
             /\ Become([job EXCEPT !.at = "returned", !.committed = TRUE])
    <3>1. /\ job.at = "publish" /\ newest' = job.cycle /\ UNCHANGED <<clock, source, readyAt>>
          /\ job'.wake = clock /\ job'.at = "returned" /\ job'.committed = TRUE
          /\ job'.cycle = job.cycle /\ job'.got = job.got /\ job'.snap = job.snap
          /\ job'.outcome = job.outcome /\ job'.exit = job.exit /\ job'.opt = job.opt
      <4>1. job.at = "publish" /\ clock >= job.wake /\ UNCHANGED <<clock, source, readyAt>>
        BY <1>16 DEF PublishRun, JobAt
      <4>2. QED
        BY <1>a, <1>b, <2>2, <4>1 DEF Become, JobType
    <3>2. job.cycle \in Nat
      BY <1>b DEF JobType
    <3>3. CommittedLast' /\ ReportDecided'
      BY <1>0, <3>1, <3>2 DEF CommittedLast, ReportDecided, Done
    <3>4. ReadWasOffered'
      BY <1>0, <3>1 DEF ReadWasOffered, Early, Reading, Done
    <3>5. WaitsInTime' /\ WaitsItsTime'
      BY <1>0, <1>a, <3>1, IngNumbers DEF WaitsInTime, WaitsItsTime, CommittedLast, Done
    <3>6. QED
      BY <3>3, <3>4, <3>5 DEF JobInv
  <2>3. QED
    BY <1>16, <2>1, <2>2 DEF PublishRun
<1>17. CASE PublishReturned
  <2>1. job.committed /\ newest >= job.cycle /\ job.at \notin Done /\ UNCHANGED outside
    BY <1>0, <1>17 DEF PublishReturned, JobAt, CommittedLast, Done
  <2>2. QED
    BY <1>17, <2>1, QuitKeeps DEF PublishReturned, Reported
<1>18. CASE Finally
  <2>1. /\ job.at = "release" /\ job' = [job EXCEPT !.at = "over", !.wake = job'.wake]
        /\ UNCHANGED outside /\ job'.wake = clock
    BY <1>18, <1>a, <1>b DEF Finally, Go, Become, JobAt, JobType
  <2>2. /\ job'.at = "over" /\ job'.outcome = job.outcome /\ job'.exit = job.exit
        /\ job'.committed = job.committed /\ job'.opt = job.opt /\ job'.cycle = job.cycle
        /\ job'.got = job.got /\ job'.snap = job.snap /\ job'.deadline = job.deadline
        /\ job'.unanswered = job.unanswered
    BY <1>b, <2>1 DEF JobType
  <2>3. CommittedLast' /\ ReportDecided' /\ ReadWasOffered'
    BY <1>0, <2>1, <2>2
    DEF CommittedLast, ReportDecided, ReadWasOffered, Early, Reading, Done, outside
  <2>4. WaitsInTime' /\ WaitsItsTime'
    BY <1>0, <1>a, <2>1, <2>2, IngNumbers DEF WaitsInTime, WaitsItsTime, outside
  <2>5. QED
    BY <2>3, <2>4 DEF JobInv
<1>19. QED
  BY <1>1, <1>2, <1>3, <1>4, <1>5, <1>6, <1>7, <1>8, <1>9, <1>10, <1>11, <1>12, <1>13, <1>14,
     <1>15, <1>16, <1>17, <1>18 DEF IngNext, IngestStep, Done

\* The inductive invariant of an ingest job and its provider.
LEMMA JobInvariant == IngSpec => []JobInv
<1>1. IngInit => JobInv
  <2> SUFFICES ASSUME IngInit PROVE JobInv
    OBVIOUS
  <2>1. PICK o \in JobOptions : ValidOptions(o) /\ job = NewJob(o)
    BY DEF IngInit
  <2>2. job \in JobType
    BY <2>1, IngNumbers DEF NewJob, JobType, JobStages, Outcomes, Reads, NoneRead, NoCycle
  <2>3. IngTypeOK
    BY IngNumbers DEF IngInit, IngTypeOK
  <2>4. CommittedLast /\ ReportDecided /\ ReadWasOffered
    BY <2>1 DEF NewJob, CommittedLast, ReportDecided, ReadWasOffered, Early, Reading, Done
  <2>5. WaitsInTime /\ WaitsItsTime
    BY <2>1, IngNumbers DEF IngInit, NewJob, WaitsInTime, WaitsItsTime
  <2>6. QED
    BY <2>2, <2>3, <2>4, <2>5 DEF JobInv, IngTypes
<1>2. JobInv /\ [IngNext]_ingVars => JobInv'
  BY IngTypesKept, JobKeepsWord DEF JobInv
<1>3. QED
  BY <1>1, <1>2, PTL DEF IngSpec

\* A regional run is published only from what the provider offered at one instant: the
\* ETags compared before publication, one request after the other, are enough although
\* each file may be written again before and after its own comparison (catalog.recheck).
THEOREM RunsAreOneSnapshot == IngSpec => []OneSnapshot
<1>1. JobInv => OneSnapshot
  BY DEF JobInv, CommittedLast, ReadWasOffered, OneSnapshot, Done
<1>2. QED
  BY <1>1, JobInvariant, PTL

\* "published" is reported of committed runs only; a committed run is reported as published
\* or, when something failed after its commit, as failed, paused or publication_failed, and
\* never as waiting, skipped, rejected or unavailable; and exit code 0 stands for a published
\* cycle, a pause or a cycle the layer skips: the one finally of main sees every way a job
\* may end.
THEOREM ReportsAreTrue == IngSpec => []ReportTruth
<1>1. JobInv => ReportTruth
  BY DEF JobInv, ReportDecided, ReportTruth, Done
<1>2. QED
  BY <1>1, JobInvariant, PTL

\* A job that gives up waiting has waited: its last check is made no earlier than a
\* request's time before the deadline, and it ends no later than two of them after it
\* (wait_for_cycle's shortened last pause).
THEOREM WaitsEndAtTheirDeadline == IngSpec => []WaitsItsTime
BY JobInvariant, PTL DEF JobInv

=============================================================================
