--------------------------- MODULE MCBarsScheduler ---------------------------
(* Small instances of BarsScheduler, in ticks of five seconds.              *)
EXTENDS BarsScheduler
=============================================================================
