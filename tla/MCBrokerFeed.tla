---------------------------- MODULE MCBrokerFeed ----------------------------
(***************************************************************************)
(* The constants of BrokerFeed for TLC: two bids of different prices and   *)
(* an ask, of quantities that are filled exactly, in part and beyond.      *)
(***************************************************************************)
EXTENDS BrokerFeed

MCQuote ==
  {[side |-> "buy", price |-> 1, qty |-> 2], [side |-> "buy", price |-> 2, qty |-> 1],
   [side |-> "sell", price |-> 3, qty |-> 2]}
=============================================================================
