------------------------------- MODULE Relay -------------------------------
(***************************************************************************)
(* What passing bytes on promises: from a source, in its order, nothing    *)
(* twice and nothing left out, as far as one got.  It is complete when all *)
(* is passed; it may be cut off at any moment.                             *)
(***************************************************************************)
EXTENDS Integers, Sequences

VARIABLES source, passed,
          over              \* "no", "complete" or "cut"

Init == passed = <<>> /\ over = "no"

Pass ==
  /\ over = "no"
  /\ \E n \in Len(passed) .. Len(source) :
       /\ passed' = SubSeq(source, 1, n)
       /\ \/ over' \in {"no", "cut"}
          \/ n = Len(source) /\ over' = "complete"
  /\ UNCHANGED source

Spec == Init /\ [][Pass]_<<source, passed, over>>
=============================================================================
