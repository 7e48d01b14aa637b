----------------------------- MODULE MCPaidWork -----------------------------
(***************************************************************************)
(* PaidWork for TLC: two jobs of one work of channel a, and a catch-up of  *)
(* channel b, which reserves less.                                         *)
(***************************************************************************)
EXTENDS PaidWork

CONSTANTS a, b, wa, wb

TheLayer == [w \in {wa, wb} |-> IF w = wb THEN b ELSE a]
TheWork == [j \in 1..3 |-> IF j = 3 THEN wb ELSE wa]
TheSlot == [c \in {a, b} |-> 4]
TheAllowance == [c \in {a, b} |-> IF c = a THEN 2 ELSE 1]

\* One thing happens at a time: a write is lost, the operator pauses, or a command of
\* the operator is under way.  Reviews are made at 3.
FewFaults ==
  /\ Cardinality(inflight) + Cardinality({x \in {1} : doc.paused}) + Cardinality({x \in {1} : op.stage # "idle"}) <= 1
  /\ op.stage = "review" => now = 3

\* Jobs 1 and 2 are interchangeable: 1 is the first to start.  Only their work is
\* recovered, so whether that of job 3 is published says nothing.
FirstFirst ==
  /\ stage[1] = "new" => stage[2] = "new"
  /\ op.stage \in {"looked", "permit"} => op.work = wa
  /\ wb \notin published

=============================================================================
