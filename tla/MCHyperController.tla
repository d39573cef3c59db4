-------------------------- MODULE MCHyperController --------------------------
(***************************************************************************)
(* The controller under arbitrary inputs and resets at any time.           *)
(***************************************************************************)
EXTENDS HyperController

MCStrobes == {{}, {"regr"}, {"regw", "memr"}, {"regr", "memw"}, {"memr"}, {"memw"}}
MCWords == {ZeroWord}
=============================================================================
