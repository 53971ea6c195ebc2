----------------------------- MODULE MCAirline -----------------------------
(***************************************************************************)
(* Instances of Airline for TLC.                                            *)
(***************************************************************************)
EXTENDS Airline, TLC

\* Passengers are interchangeable, and so are the workers of a stage.
Symmetry ==
  Permutations(Passengers) \cup Permutations(Handlers)
    \cup Permutations(Screeners) \cup Permutations(Attendants)
=============================================================================
