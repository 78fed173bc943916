--------------------------- MODULE MCMatchHandlers ---------------------------
(* MatchHandlers with several handlers in flight.                           *)
EXTENDS MatchHandlers

(* settled only feeds the refinement mapping, no guard reads it: two states*)
(* that differ in it alone have the same future.                           *)
WithoutHistory == <<vars, run, asked, crashes>>
=============================================================================
