---------------------------- MODULE MCMarketData -----------------------------
(* A small instance of MarketData: products with a book that has both sides *)
(* or (products that hardly trade) one side only.                           *)
EXTENDS MarketData

CONSTANTS low, high

MCQuotes == {low, high}

MCInitialBooks == {[bid |-> low, ask |-> high], [bid |-> low, ask |-> Absent]}
=============================================================================
