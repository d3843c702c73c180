-------------------------- MODULE MCTradingSession ---------------------------
(* A small instance of TradingSession.                                      *)
EXTENDS TradingSession
=============================================================================
