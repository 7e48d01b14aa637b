--------------------------- MODULE RollingSource ---------------------------
(***************************************************************************)
(* The Copernicus layers (sources/ibi.py, sources/cmems.py): one store per *)
(* dataset, rewritten in place by each daily bulletin, and a job that      *)
(* reads a cycle from it.  Bulletin b belongs to the day that begins at    *)
(* b * BulletinDay; it may come late.  An update extends the time axis     *)
(* first and then rewrites the instants, and the dataset's metadata say    *)
(* that it runs until it is done.                                          *)
(*                                                                         *)
(* An instant's values are the number of the bulletin that wrote them;     *)
(* grid, units and the dataset's name are left out.                        *)
(***************************************************************************)
EXTENDS Integers, FiniteSets

CONSTANTS
  Instants,      \* of a cycle: read one by one (GLO12) or in chunks (IBI)
  BulletinDay,   \* a day's length
  LastBulletin,  \* bound on the bulletins
  AuthTries,     \* 1 + the number of AUTH_RETRY_DELAYS_S
  StoreHorizon   \* bound on the clock

ASSUME RollingConstants ==
  /\ {BulletinDay, LastBulletin, AuthTries, StoreHorizon} \subseteq Nat \ {0}
  /\ IsFiniteSet(Instants) /\ Instants # {}

VARIABLES
  today,    \* the clock
  store,    \* its last bulletin's axis, whether an update runs, when one last ended, values
  reading   \* the job: its options, its cycle, the state it saw, what it has read

rollVars == <<today, store, reading>>

-----------------------------------------------------------------------------
Unnamed == 0   \* no --cycle
Unread == -1
\* What arco_update_state returns when the catalogue is unavailable under the override.
Unchecked == <<Unread, FALSE>>
Published(b) == b * BulletinDay

RollTypeOK ==
  /\ today \in 0..StoreHorizon
  /\ store \in [axis : 0..LastBulletin, updating : BOOLEAN, updated : 0..StoreHorizon,
                held : [Instants -> 0..LastBulletin]]
  /\ reading.got \in [Instants -> 0..LastBulletin \cup {Unread}]

RollInit ==
  /\ today = 0
  /\ store = [axis |-> 0, updating |-> FALSE, updated |-> 0, held |-> [i \in Instants |-> 0]]
  /\ \E layer \in {"currents", "currents-ibi"}, named \in {Unnamed} \cup 1..LastBulletin,
        override \in BOOLEAN :
       /\ override => layer = "currents-ibi"
       /\ reading = [layer |-> layer, named |-> named, override |-> override,
                     at |-> "resolve", cycle |-> 0, tries |-> 1, seen |-> Unchecked,
                     got |-> [i \in Instants |-> Unread]]

-----------------------------------------------------------------------------
(***************************************************************************)
(* The provider and the clock.                                             *)
(***************************************************************************)
UpdateBegins ==
  /\ ~store.updating /\ store.axis < LastBulletin /\ today >= Published(store.axis + 1)
  /\ store' = [store EXCEPT !.axis = @ + 1, !.updating = TRUE]
  /\ UNCHANGED <<today, reading>>

Rewritten(i) ==
  /\ store.updating /\ store.held[i] < store.axis
  /\ store' = [store EXCEPT !.held[i] = store.axis]
  /\ UNCHANGED <<today, reading>>

\* No two updates end at one time.
UpdateEnds ==
  /\ store.updating /\ store.updated < today /\ \A i \in Instants : store.held[i] = store.axis
  /\ store' = [store EXCEPT !.updating = FALSE, !.updated = today]
  /\ UNCHANGED <<today, reading>>

DayTick ==
  /\ today < StoreHorizon
  /\ today' = today + 1
  /\ UNCHANGED <<store, reading>>

-----------------------------------------------------------------------------
(***************************************************************************)
(* The job.                                                                *)
(***************************************************************************)
Ibi == reading.layer = "currents-ibi"
ReadingAt(s) == reading.at = s
GoOn(r) == reading' = r /\ UNCHANGED <<today, store>>
NotAvailable == GoOn([reading EXCEPT !.at = "skipped"])   \* CycleNotAvailableError
SourceError == GoOn([reading EXCEPT !.at = "failed"])

\* require_published, of the state in the dataset's STAC item.
PublishedInFull(c) ==
  ~store.updating /\ store.axis >= c /\ store.updated >= Published(c)

\* The cycle a run is about: the one named, or GLO12's today.
Asked == IF reading.named # Unnamed THEN reading.named ELSE today \div BulletinDay

\* resolve, against the STAC item; one that cannot be read is a cycle not there yet.
ResolvePublished ==
  /\ ReadingAt("resolve") /\ (Ibi => reading.named # Unnamed)
  /\ IF PublishedInFull(Asked) THEN GoOn([reading EXCEPT !.at = "check", !.cycle = Asked])
     ELSE NotAvailable
MetadataUnreadable ==
  /\ \/ ReadingAt("resolve") /\ (Ibi => reading.named # Unnamed)
     \/ ReadingAt("check") /\ ~Ibi
  /\ NotAvailable

\* IBI's resolve without a name: the cycle of the axis' last instant, whatever it holds.
ResolveLatest ==
  /\ ReadingAt("resolve") /\ Ibi /\ reading.named = Unnamed
  /\ GoOn([reading EXCEPT !.at = "check", !.cycle = store.axis, !.tries = 1])

\* _open_dataset_with_auth_retries, in resolve and in build_cube: no login.
OpensNow ==
  \/ ReadingAt("open")
  \/ ReadingAt("resolve") /\ Ibi /\ reading.named = Unnamed
AuthFails ==
  /\ OpensNow
  /\ IF reading.tries = AuthTries THEN SourceError ELSE GoOn([reading EXCEPT !.tries = @ + 1])

\* arco_update_state: without the override an unavailable catalogue is an error.
UpdateStates ==
  {<<store.updated, store.updating>>} \cup {s \in {Unchecked} : reading.override}
CatalogueUnavailable ==
  /\ Ibi /\ ~reading.override /\ reading.at \in {"check", "recheck"}
  /\ SourceError

\* _require_settled
Settled(s, c) == ~s[2] /\ (s # Unchecked => s[1] >= Published(c))

\* build_cube, before the data.
CheckIbi ==
  /\ ReadingAt("check") /\ Ibi
  /\ \E s \in UpdateStates :
       IF Settled(s, reading.cycle) THEN GoOn([reading EXCEPT !.at = "open", !.seen = s])
       ELSE NotAvailable
CheckGlo12 ==
  /\ ReadingAt("check") /\ ~Ibi
  /\ IF PublishedInFull(reading.cycle)
       THEN GoOn([reading EXCEPT !.at = "open", !.seen = <<store.updated, FALSE>>])
       ELSE NotAvailable

Open ==
  /\ ReadingAt("open")
  /\ GoOn([reading EXCEPT !.at = "read"])

\* Instants missing from the subset, another grid, or a read that fails.
ReadFails ==
  /\ ReadingAt("read")
  /\ SourceError

\* The dataset is opened lazily: each instant comes from the store as it is when read.
ReadInstant(i) ==
  /\ ReadingAt("read") /\ reading.got[i] = Unread
  /\ GoOn([reading EXCEPT !.got[i] = store.held[i]])

Returned == [reading EXCEPT !.at = "cube"]
AllRead == \A i \in Instants : reading.got[i] # Unread
ReturnGlo12 ==
  /\ ReadingAt("read") /\ ~Ibi /\ AllRead
  /\ GoOn(Returned)
ReadIbi ==
  /\ ReadingAt("read") /\ Ibi /\ AllRead
  /\ GoOn([reading EXCEPT !.at = "recheck"])

\* "An update that started or finished while we read may have mixed bulletins."
SameUpdateRunning(s) == s[2] = reading.seen[2]   \* mutant: only an update still running
SameUpdate(s) == s = reading.seen
ReturnIbi ==
  /\ ReadingAt("recheck")
  /\ \E s \in UpdateStates : IF SameUpdate(s) THEN GoOn(Returned) ELSE NotAvailable

RollNext ==
  \/ UpdateBegins \/ UpdateEnds \/ DayTick
  \/ \E i \in Instants : Rewritten(i) \/ ReadInstant(i)
  \/ ResolvePublished \/ MetadataUnreadable \/ ResolveLatest \/ AuthFails
  \/ CatalogueUnavailable \/ CheckIbi \/ CheckGlo12
  \/ Open \/ ReadFails \/ ReturnGlo12 \/ ReadIbi \/ ReturnIbi

RollSpec == RollInit /\ [][RollNext]_rollVars

-----------------------------------------------------------------------------
(***************************************************************************)
(* No cube holds values older than the cycle it is labelled with, and an   *)
(* IBI cube holds the values of one bulletin only, unless the catalogue    *)
(* was unavailable all along under the override ("a read in between can    *)
(* mix two bulletins").  An update may begin, run and end at any point of  *)
(* the job, and the axis shows the new bulletin before its values.         *)
(***************************************************************************)
OneBulletin ==
  ReadingAt("cube") /\ reading.seen # Unchecked =>
    /\ \A i \in Instants : reading.got[i] >= reading.cycle
    /\ Ibi => \A i, k \in Instants : reading.got[i] = reading.got[k]

=============================================================================
