----------------------- MODULE MCConcurrencyGovernor -----------------------
(* Instances of ConcurrencyGovernor.                                       *)
EXTENDS ConcurrencyGovernor
=============================================================================
