-------------------------- MODULE MCTradeReporter --------------------------
(***************************************************************************)
(* TradeReporter for TLC.  The reporter compares ids and structs with each *)
(* other only, so that ids, and the structs of one id, can be exchanged.   *)
(***************************************************************************)
EXTENDS TradeReporter, TLC

IdsAndCopies == Permutations(OrderId) \cup Permutations(Copy)
=============================================================================
