--------------------------- MODULE LayerRegister ---------------------------
(***************************************************************************)
(* What a pointer document promises its readers, with no object store, no  *)
(* retries and no lost answers: per layer, a register holding the current  *)
(* and the previous run.  A publication replaces one layer's current run   *)
(* by one of the same or a newer cycle; the replaced run becomes the       *)
(* previous one, and a repeated cycle keeps the previous it had.           *)
(***************************************************************************)
EXTENDS Naturals

CONSTANTS
  Layers,     \* the layers named by the document
  MaxCycle    \* bound on the cycles; a run is its cycle, 0 is "no run"

VARIABLES
  current,    \* layer -> its current run
  previous    \* layer -> its previous run

vars == <<current, previous>>

Cycle == 1..MaxCycle
Run == 0..MaxCycle

TypeOK ==
  /\ current \in [Layers -> Run]
  /\ previous \in [Layers -> Run]

Init ==
  /\ current = [l \in Layers |-> 0]
  /\ previous = [l \in Layers |-> 0]

Publish(l, c) ==
  /\ current[l] <= c
  /\ current' = [current EXCEPT ![l] = c]
  /\ previous' = [previous EXCEPT ![l] =
                    IF c = current[l] THEN previous[l] ELSE current[l]]

Next == \E l \in Layers, c \in Cycle : Publish(l, c)

Spec == Init /\ [][Next]_vars

=============================================================================
