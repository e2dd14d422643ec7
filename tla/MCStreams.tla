----------------------------- MODULE MCStreams -----------------------------
(* Instances of Streams for model checking. *)
EXTENDS Streams

Option(ranged, start, end, hwm, autoClose, given) ==
  [ranged |-> ranged, start |-> start, end |-> end, hwm |-> hwm,
   autoClose |-> autoClose, given |-> given]

\* end = Infinity
Far == FileLen + 10

WholeFile == {Option(FALSE, 0, 0, 4, TRUE, FALSE)}
ReaderChoices ==
  WholeFile \cup
  {Option(TRUE, 0, 0, 4, TRUE, FALSE), Option(TRUE, 0, Far, 2, TRUE, TRUE),
   Option(TRUE, 0, 1, 3, FALSE, FALSE), Option(TRUE, 2, 1, 4, TRUE, FALSE)}
WriterChoices ==
  {Option(FALSE, 0, 0, 1, TRUE, FALSE), Option(TRUE, 1, Far, 1, TRUE, TRUE),
   Option(TRUE, 0, Far, 1, FALSE, FALSE)}
EndedChoices ==
  {Option(FALSE, 0, 0, 1, TRUE, FALSE), Option(TRUE, 1, Far, 1, TRUE, TRUE)}

ReaderSymmetry == Permutations(Readers)
============================================================================
