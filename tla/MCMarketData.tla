---------------------------- MODULE MCMarketData ----------------------------
(* A small market: one instrument, one pair, one refresh at a time.         *)
EXTENDS MarketData
=============================================================================
